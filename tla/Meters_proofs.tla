---------------------------- MODULE Meters_proofs ----------------------------
(***************************************************************************)
(* Proofs about the in-memory meter provider: MemoryMeterProvider, for any *)
(* instruments, capacity and number of measurements, and HistogramViews,   *)
(* for any meters, histograms and boundaries.                              *)
(***************************************************************************)
EXTENDS MemoryMeterProvider, HistogramViews, WellFoundedInduction, TLAPS

-----------------------------------------------------------------------------
(* Types *)

\* A report joins the buffer as long as there is room.
LEMMA AddedType ==
    ASSUME TypeOK, NEW report \in Reports
    PROVE  Added(report) \in Seq(Reports) /\ Len(Added(report)) <= Capacity
BY ConstantsAssumption DEF TypeOK, Added

\* The report of a value is one.
LEMMA ReportOfType ==
    ASSUME NEW value \in Values
    PROVE  ReportOf(value) \in Reports /\ ReportOf(value).value = value
BY DEF ReportOf, Reports

\* The first state has the types.
LEMMA TypeInit == Init => TypeOK
<1>1. Nothing \in Values
  BY ConstantsAssumption DEF Nothing, Values
<1>2. << >> \in Seq(Reports) /\ Len(<< >>) <= Capacity
  BY ConstantsAssumption
<1> QED
  BY <1>1, <1>2 DEF Init, TypeOK

\* A step of the R thread that is not one of the waiting call keeps the types.
LEMMA TypeUserStep ==
    ASSUME TypeOK,
           \/ \E i \in Instruments : Measure(i)
           \/ Flush \/ Shutdown \/ Finalize \/ GetMetrics \/ GetMetricsFails
    PROVE  TypeOK'
<1>1. ASSUME NEW i \in Instruments, Measure(i) PROVE TypeOK'
  <2>1. measured' \in Values
    BY <1>1, ConstantsAssumption DEF TypeOK, Measure, Values
  <2> QED
    BY <1>1, <2>1 DEF TypeOK, Measure, signals, readerVars
<1>2. CASE Flush
  BY <1>2 DEF TypeOK, Flush, readerVars
<1>3. CASE Shutdown
  BY <1>3 DEF TypeOK, Shutdown, BeginShutdown, Idle, readerVars
<1>4. CASE Finalize
  BY <1>4 DEF TypeOK, Finalize, BeginShutdown, Idle, readerVars
<1>5. CASE GetMetrics
  <2>1. Len(ring) \in 1..Len(ring)
    BY <1>5 DEF TypeOK, GetMetrics
  <2>2. Last(ring) \in Reports
    BY <2>1 DEF TypeOK, Last
  <2>3. Last(ring).value \in Values
    BY <2>2 DEF Reports
  <2> QED
    BY <1>5, <2>3, ConstantsAssumption
       DEF TypeOK, GetMetrics, signals, readerVars
<1>6. CASE GetMetricsFails
  BY <1>6, ConstantsAssumption
     DEF TypeOK, GetMetricsFails, signals, readerVars
<1> QED
  BY <1>1, <1>2, <1>3, <1>4, <1>5, <1>6

\* A step of the waiting call keeps the types.
LEMMA TypeCallStep == TypeOK /\ CallStep => TypeOK'
<1> SUFFICES ASSUME TypeOK, CallStep PROVE TypeOK'
  OBVIOUS
<1>1. CASE WakeReader
  BY <1>1 DEF TypeOK, WakeReader, readerVars
<1>2. CASE FlushReturns
  BY <1>2 DEF TypeOK, FlushReturns, signals, readerVars
<1>3. CASE DrainDone
  BY <1>3 DEF TypeOK, DrainDone, readerVars
<1>4. CASE ShutdownReturns
  BY <1>4 DEF TypeOK, ShutdownReturns, signals, readerVars
<1> QED
  BY <1>1, <1>2, <1>3, <1>4 DEF CallStep

\* A step of the reader thread keeps the types.
LEMMA TypeReaderStep == TypeOK /\ (ReaderStep \/ Timer) => TypeOK'
<1> SUFFICES ASSUME TypeOK, ReaderStep \/ Timer PROVE TypeOK'
  OBVIOUS
<1>1. CASE BeginCollect
  <2>1. Nothing \in Values
    BY ConstantsAssumption DEF Nothing, Values
  <2> QED
    BY <1>1, <2>1 DEF TypeOK, BeginCollect, signals
<1>2. ASSUME NEW i \in Instruments, ReadInstrument(i) PROVE TypeOK'
  <2>1. cut' \in Values
    BY <1>2 DEF TypeOK, ReadInstrument, Values
  <2>2. unread' \in SUBSET Instruments
    BY <1>2 DEF TypeOK, ReadInstrument
  <2> QED
    BY <1>2, <2>1, <2>2 DEF TypeOK, ReadInstrument, signals
<1>3. CASE Export
  <2>1. ring' \in Seq(Reports) /\ Len(ring') <= Capacity
    BY <1>3, AddedType, ReportOfType DEF TypeOK, Export
  <2> QED
    BY <1>3, <2>1 DEF TypeOK, Export
<1>4. CASE ReaderWoken
  BY <1>4 DEF TypeOK, ReaderWoken, LoopOrLeave
<1>5. CASE Timer
  BY <1>5 DEF TypeOK, Timer, LoopOrLeave, signals
<1> QED
  BY <1>1, <1>2, <1>3, <1>4, <1>5 DEF ReaderStep

\* Every step keeps the types.
LEMMA TypeStep == TypeOK /\ [Next]_vars => TypeOK'
<1> SUFFICES ASSUME TypeOK, [Next]_vars PROVE TypeOK'
  OBVIOUS
<1>1. CASE Deleted \/ UNCHANGED vars
  BY <1>1 DEF TypeOK, Deleted, vars, signals, readerVars
<1> QED
  BY <1>1, TypeUserStep, TypeCallStep, TypeReaderStep DEF Next

\* The variables of the provider and of both threads always have their types,
\* and the buffer never has more reports than buffer_size says.
THEOREM TypeCorrect == Spec => []TypeOK
BY TypeInit, TypeStep, PTL DEF Spec

-----------------------------------------------------------------------------
(* Reports grow *)

\* ReportsGrow is not inductive: a report that is being collected could be
\* older than those in the buffer. What has been read of it is not.
GrowInv ==
    /\ ReportsGrow
    /\ AtMost(taken, measured)
    /\ reader = "collecting" => \A i \in Instruments \ unread :
          /\ taken[i] <= cut[i]
          /\ cut[i] <= measured[i]
          /\ \A k \in 1..Len(ring) : ring[k].value[i] <= cut[i]

\* Counts are numbers, so that orders of them are transitive.
LEMMA CountsAreNumbers ==
    ASSUME TypeOK, NEW i \in Instruments
    PROVE  /\ measured[i] \in Nat /\ taken[i] \in Nat /\ cut[i] \in Nat
           /\ \A k \in 1..Len(ring) : ring[k].value[i] \in Nat
<1>1. \A k \in 1..Len(ring) : ring[k] \in Reports
  BY DEF TypeOK
<1> QED
  BY <1>1, ConstantsAssumption DEF TypeOK, Values, Reports

\* The first state satisfies the invariant.
LEMMA GrowInit == Init => GrowInv
BY DEF Init, GrowInv, ReportsGrow, AtMost, Nothing

\* Measuring keeps the invariant: all reports are below what is measured.
LEMMA GrowMeasure ==
    ASSUME TypeOK, GrowInv, NEW i \in Instruments, Measure(i)
    PROVE  GrowInv'
<1>1. \A j \in Instruments : measured[j] <= measured'[j] /\ measured'[j] \in Nat
  BY CountsAreNumbers, ConstantsAssumption DEF Measure, TypeOK, Values
<1>2. UNCHANGED <<ring, taken, cut, reader, unread>>
  BY DEF Measure, readerVars
<1>3. \A j \in Instruments : /\ taken[j] <= measured'[j]
                             /\ \A k \in 1..Len(ring) :
                                   ring[k].value[j] <= measured'[j]
  BY <1>1, CountsAreNumbers DEF GrowInv, ReportsGrow, AtMost
<1>4. reader = "collecting" =>
        \A j \in Instruments \ unread : cut[j] <= measured'[j]
  BY <1>1, CountsAreNumbers DEF GrowInv
<1> QED
  BY <1>2, <1>3, <1>4 DEF GrowInv, ReportsGrow, AtMost

\* Taking the reports keeps the invariant: the newest one has all that the
\* others have.
LEMMA GrowGetMetrics == TypeOK /\ GrowInv /\ GetMetrics => GrowInv'
<1> SUFFICES ASSUME TypeOK, GrowInv, GetMetrics PROVE GrowInv'
  OBVIOUS
<1>1. Len(ring) \in 1..Len(ring) /\ taken' = ring[Len(ring)].value
  BY DEF GetMetrics, TypeOK, Last
<1>2. ring' = << >> /\ UNCHANGED <<measured, cut, reader, unread>>
  BY DEF GetMetrics, readerVars
<1>3. AtMost(taken', measured)
  BY <1>1 DEF GrowInv, ReportsGrow
<1>4. reader = "collecting" =>
        \A i \in Instruments \ unread : taken'[i] <= cut[i]
  BY <1>1 DEF GrowInv
<1> QED
  BY <1>2, <1>3, <1>4 DEF GrowInv, ReportsGrow, AtMost

\* Reading an instrument keeps the invariant: it is as far as it was measured.
LEMMA GrowRead ==
    ASSUME TypeOK, GrowInv, NEW i \in Instruments, ReadInstrument(i)
    PROVE  GrowInv'
<1>1. /\ UNCHANGED <<measured, reader, ring, taken>>
      /\ unread' = unread \ {i}
      /\ \A j \in Instruments :
            cut'[j] = IF j = i THEN measured[i] ELSE cut[j]
  BY DEF ReadInstrument, TypeOK, Values
<1>2. /\ taken[i] <= cut'[i]
      /\ cut'[i] <= measured[i]
      /\ \A k \in 1..Len(ring) : ring[k].value[i] <= cut'[i]
  BY <1>1, CountsAreNumbers DEF GrowInv, ReportsGrow, AtMost
<1>3. reader = "collecting"
  BY DEF ReadInstrument
<1>4. \A j \in Instruments \ unread' :
        /\ taken[j] <= cut'[j]
        /\ cut'[j] <= measured[j]
        /\ \A k \in 1..Len(ring) : ring[k].value[j] <= cut'[j]
  BY <1>1, <1>2, <1>3 DEF GrowInv
<1> QED
  BY <1>1, <1>4 DEF GrowInv, ReportsGrow, AtMost

\* Exporting keeps the invariant: the report is between those of the buffer
\* and what is measured.
LEMMA GrowExport == TypeOK /\ GrowInv /\ Export => GrowInv'
<1> SUFFICES ASSUME TypeOK, GrowInv, Export PROVE GrowInv'
  OBVIOUS
<1>1. /\ UNCHANGED <<measured, taken>>
      /\ reader' = "waiting"
  BY DEF Export
<1>2. ReportOf(cut) \in Reports /\ ReportOf(cut).value = cut
  BY ReportOfType DEF TypeOK
<1>3. /\ AtMost(taken, cut)
      /\ AtMost(cut, measured)
      /\ \A k \in 1..Len(ring) : AtMost(ring[k].value, cut)
  BY DEF GrowInv, Export, AtMost
<1>4. CASE Len(ring) < Capacity
  <2>1. ring' = Append(ring, ReportOf(cut))
    BY <1>4 DEF Export, Added
  <2>2. /\ Len(ring') = Len(ring) + 1
        /\ ring'[Len(ring) + 1].value = cut
        /\ \A k \in 1..Len(ring) : ring'[k] = ring[k]
    BY <1>2, <2>1 DEF TypeOK
  <2>3. \A k \in 1..Len(ring') : /\ AtMost(taken, ring'[k].value)
                                 /\ AtMost(ring'[k].value, measured)
    BY <1>3, <2>2 DEF GrowInv, ReportsGrow, TypeOK
  <2>4. ASSUME NEW j \in 1..Len(ring'), NEW k \in 1..Len(ring'), j < k
        PROVE  AtMost(ring'[j].value, ring'[k].value)
    <3>1. CASE k = Len(ring) + 1
      BY <1>3, <2>2, <2>4, <3>1 DEF TypeOK
    <3>2. CASE k # Len(ring) + 1
      BY <2>2, <2>4, <3>2 DEF GrowInv, ReportsGrow, TypeOK
    <3> QED
      BY <3>1, <3>2
  <2> QED
    BY <1>1, <2>3, <2>4 DEF GrowInv, ReportsGrow
<1>5. CASE ~(Len(ring) < Capacity)
  BY <1>1, <1>5 DEF GrowInv, ReportsGrow, Export, Added
<1> QED
  BY <1>4, <1>5

\* Every step keeps the invariant.
LEMMA GrowStep == TypeOK /\ GrowInv /\ [Next]_vars => GrowInv'
<1> SUFFICES ASSUME TypeOK, GrowInv, [Next]_vars PROVE GrowInv'
  OBVIOUS
<1>1. CASE /\ UNCHANGED <<measured, ring, taken, unread, cut>>
           /\ reader' = reader \/ reader' # "collecting"
  BY <1>1 DEF GrowInv, ReportsGrow, AtMost
<1>2. CASE Flush \/ Shutdown \/ Finalize
  BY <1>1, <1>2
     DEF Flush, Shutdown, Finalize, BeginShutdown, readerVars
<1>3. CASE CallStep
  BY <1>1, <1>3
     DEF CallStep, WakeReader, FlushReturns, DrainDone, ShutdownReturns,
         readerVars
<1>4. CASE ReaderWoken \/ Timer
  BY <1>1, <1>4 DEF ReaderWoken, Timer, LoopOrLeave
<1>5. CASE Deleted \/ UNCHANGED vars
  BY <1>1, <1>5 DEF Deleted, vars, readerVars
<1>6. CASE BeginCollect
  BY <1>6 DEF BeginCollect, GrowInv, ReportsGrow, AtMost
<1>7. CASE GetMetricsFails
  BY <1>7 DEF GetMetricsFails, GrowInv, ReportsGrow, AtMost, readerVars
<1> QED
  BY <1>2, <1>3, <1>4, <1>5, <1>6, <1>7, GrowMeasure, GrowGetMetrics,
     GrowRead, GrowExport DEF Next, ReaderStep

\* However the two threads interleave, reports never go back, and have nothing
\* that was not measured.
THEOREM ReportsGrowCorrect == Spec => []ReportsGrow
<1>1. GrowInv => ReportsGrow
  BY DEF GrowInv
<1> QED
  BY <1>1, TypeCorrect, GrowInit, GrowStep, PTL DEF Spec

-----------------------------------------------------------------------------
(* What flush() and shutdown() leave *)

\* What the collection under way has read is as far as it was measured.
Fresh ==
    reader = "collecting" =>
        \A i \in Instruments \ unread : cut[i] = measured[i]

\* Requests belong to a call, and answers to a request. The collection that
\* answers began after the call did, so that all it reads is fresh, and so do
\* those after it. Once there was an answer, the buffer is complete.
AnswerInv ==
    /\ requested => call \in {"flush", "drain"}
    /\ serving => requested
    /\ call # "none" /\ (serving \/ ~requested) => Fresh
    /\ call # "none" /\ ~requested => Complete

\* The first state satisfies the invariant.
LEMMA AnswerInit == Init => AnswerInv
BY DEF Init, AnswerInv

\* A call begins: there is no answer yet.
LEMMA AnswerBegin ==
    ASSUME TypeOK, AnswerInv, Flush \/ Shutdown \/ Finalize
    PROVE  AnswerInv'
<1>1. call = "none" /\ ~requested /\ ~serving /\ ~serving'
  BY DEF AnswerInv, Flush, Shutdown, Finalize, Idle, BeginShutdown, readerVars
<1>2. \/ call' \in {"flush", "drain"} /\ requested'
      \/ call' = "none" /\ ~requested'
  BY <1>1 DEF Flush, Shutdown, Finalize, BeginShutdown
<1> QED
  BY <1>1, <1>2 DEF AnswerInv

\* R code that is in no call may do anything.
LEMMA AnswerIdle ==
    ASSUME TypeOK, AnswerInv,
           \/ \E i \in Instruments : Measure(i)
           \/ GetMetrics \/ GetMetricsFails
    PROVE  AnswerInv'
<1>1. call = "none" /\ call' = "none"
  BY DEF Measure, GetMetrics, GetMetricsFails, Idle
<1>2. UNCHANGED <<requested, serving>>
  BY DEF Measure, GetMetrics, GetMetricsFails, signals, readerVars
<1> QED
  BY <1>1, <1>2 DEF AnswerInv

\* A call that goes on or returns changes no report.
LEMMA AnswerCallStep == TypeOK /\ AnswerInv /\ CallStep => AnswerInv'
<1> SUFFICES ASSUME TypeOK, AnswerInv, CallStep PROVE AnswerInv'
  OBVIOUS
<1>1. UNCHANGED <<requested, serving, reader, unread, cut, measured, ring>>
  BY DEF CallStep, WakeReader, FlushReturns, DrainDone, ShutdownReturns,
         signals, readerVars
<1>2. call # "none"
  BY DEF CallStep, WakeReader, FlushReturns, DrainDone, ShutdownReturns
<1>3. requested' => call' \in {"flush", "drain"}
  BY <1>1 DEF CallStep, WakeReader, FlushReturns, DrainDone, ShutdownReturns,
              AnswerInv
<1> QED
  BY <1>1, <1>2, <1>3 DEF AnswerInv, Fresh, Complete

\* An instrument that is read while R code waits is fresh.
LEMMA AnswerRead ==
    ASSUME TypeOK, AnswerInv, NEW i \in Instruments, ReadInstrument(i)
    PROVE  AnswerInv'
<1>1. /\ UNCHANGED <<requested, serving, call, reader, measured, ring>>
      /\ unread' = unread \ {i}
      /\ \A j \in Instruments :
            cut'[j] = IF j = i THEN measured[i] ELSE cut[j]
  BY DEF ReadInstrument, TypeOK, Values, signals
<1>2. Fresh => Fresh'
  BY <1>1 DEF Fresh
<1> QED
  BY <1>1, <1>2 DEF AnswerInv, Complete

\* A report of fresh values makes the buffer complete.
LEMMA AnswerExport == TypeOK /\ AnswerInv /\ Export => AnswerInv'
<1> SUFFICES ASSUME TypeOK, AnswerInv, Export PROVE AnswerInv'
  OBVIOUS
<1>1. /\ UNCHANGED <<call, measured>>
      /\ reader' = "waiting" /\ ~serving'
      /\ requested' = (requested /\ ~serving)
  BY DEF Export
<1>2. ASSUME call # "none", serving \/ ~requested PROVE Complete'
  <2>1. \A i \in Instruments : cut[i] = measured[i]
    BY <1>2 DEF AnswerInv, Fresh, Export
  <2>2. cut = measured
    BY <2>1 DEF TypeOK, Values
  <2>3. CASE Len(ring) < Capacity
    <3>1. ring' = Append(ring, ReportOf(cut))
      BY <2>3 DEF Export, Added
    <3>2. ReportOf(cut) \in Reports /\ ReportOf(cut).value = cut
      BY ReportOfType DEF TypeOK
    <3>3. Last(ring').value = cut
      BY <3>1, <3>2 DEF TypeOK, Last
    <3> QED
      BY <1>1, <2>2, <3>3 DEF Complete
  <2>4. CASE ~(Len(ring) < Capacity)
    BY <2>4, ConstantsAssumption DEF Export, Added, Complete, TypeOK
  <2> QED
    BY <2>3, <2>4
<1>3. call' # "none" /\ ~requested' => Complete'
  BY <1>1, <1>2
<1> QED
  BY <1>1, <1>3 DEF AnswerInv, Fresh

\* Every step keeps the invariant.
LEMMA AnswerStep == TypeOK /\ AnswerInv /\ [Next]_vars => AnswerInv'
<1> SUFFICES ASSUME TypeOK, AnswerInv, [Next]_vars PROVE AnswerInv'
  OBVIOUS
<1>1. CASE BeginCollect
  BY <1>1 DEF BeginCollect, AnswerInv, Fresh, Complete, signals
<1>2. CASE ReaderWoken \/ Timer
  BY <1>2 DEF ReaderWoken, Timer, LoopOrLeave, AnswerInv, Fresh, Complete,
              signals
<1>3. CASE Deleted \/ UNCHANGED vars
  BY <1>3 DEF Deleted, vars, signals, readerVars, AnswerInv, Fresh, Complete
<1> QED
  BY <1>1, <1>2, <1>3, AnswerBegin, AnswerIdle, AnswerCallStep, AnswerRead,
     AnswerExport DEF Next, ReaderStep

\* When flush() or shutdown() returns, the newest report has all that was
\* measured, unless the buffer is full: for any instruments and capacity.
THEOREM ReturnsAreCompleteCorrect == Spec => ReturnsAreComplete
<1>1. ASSUME TypeOK, AnswerInv, AnswerInv', [Next]_vars,
             call # "none", call' = "none"
      PROVE  Complete'
  <2>1. FlushReturns \/ ShutdownReturns
    BY <1>1 DEF Next, Measure, Flush, Shutdown, Finalize, BeginShutdown, Idle,
       GetMetrics, GetMetricsFails, CallStep, WakeReader, DrainDone, ReaderStep,
       BeginCollect, ReadInstrument, Export, ReaderWoken, Timer, Deleted, vars
  <2>2. ~requested /\ UNCHANGED <<ring, measured>>
    BY <1>1, <2>1 DEF FlushReturns, ShutdownReturns, AnswerInv
  <2> QED
    BY <1>1, <2>2 DEF AnswerInv, Complete
<1>2. TypeOK /\ AnswerInv /\ AnswerInv' /\ [Next]_vars
        => [call # "none" /\ call' = "none" => Complete']_vars
  BY <1>1
<1> QED
  BY <1>2, TypeCorrect, AnswerInit, AnswerStep, PTL
     DEF Spec, ReturnsAreComplete

-----------------------------------------------------------------------------
(* Shutdown *)

\* The calls agree with what was shut down, and a provider that is, and is in
\* no call, has no reader thread.
GoneInv ==
    /\ call = "flush" => ~shut
    /\ shut /\ call = "none" => reader = "gone"

\* The first state satisfies the invariant.
LEMMA GoneInit == Init => GoneInv
BY DEF Init, GoneInv

\* Every step keeps the invariant: a thread that is gone does nothing.
LEMMA GoneStep == TypeOK /\ GoneInv /\ [Next]_vars => GoneInv'
<1> SUFFICES ASSUME TypeOK, GoneInv, [Next]_vars PROVE GoneInv'
  OBVIOUS
<1>1. CASE Flush \/ Shutdown \/ Finalize
  BY <1>1 DEF Flush, Shutdown, Finalize, BeginShutdown, Idle, readerVars,
              GoneInv
<1>2. CASE \/ \E i \in Instruments : Measure(i)
           \/ GetMetrics \/ GetMetricsFails
  BY <1>2 DEF Measure, GetMetrics, GetMetricsFails, readerVars, GoneInv
<1>3. CASE CallStep
  BY <1>3 DEF CallStep, WakeReader, FlushReturns, DrainDone, ShutdownReturns,
              readerVars, GoneInv
<1>4. CASE ReaderStep \/ Timer
  BY <1>4 DEF ReaderStep, BeginCollect, ReadInstrument, Export, ReaderWoken,
              Timer, GoneInv
<1>5. CASE Deleted \/ UNCHANGED vars
  BY <1>5 DEF Deleted, vars, readerVars, GoneInv
<1> QED
  BY <1>1, <1>2, <1>3, <1>4, <1>5 DEF Next

\* Nothing comes to the buffer once shutdown() has returned, whether it was
\* called by R code or by the finalizer.
THEOREM ShutdownIsFinalCorrect == Spec => ShutdownIsFinal
<1>1. ASSUME TypeOK, GoneInv, Next, shut, call = "none"
      PROVE  Len(ring') <= Len(ring)
  <2>1. ~Export
    BY <1>1 DEF GoneInv, Export
  <2>2. ring' = ring \/ ring' = << >>
    BY <1>1, <2>1 DEF Next, Measure, Flush, Shutdown, Finalize, BeginShutdown,
       GetMetrics, GetMetricsFails, CallStep, WakeReader, FlushReturns,
       DrainDone, ShutdownReturns, ReaderStep, BeginCollect, ReadInstrument,
       ReaderWoken, Timer, Deleted, vars
  <2> QED
    BY <1>1, <2>2 DEF TypeOK
<1>2. TypeOK /\ GoneInv /\ [Next]_vars
        => [shut /\ call = "none" => Len(ring') <= Len(ring)]_vars
  BY <1>1
<1> QED
  BY <1>2, TypeCorrect, GoneInit, GoneStep, PTL DEF Spec, ShutdownIsFinal

-----------------------------------------------------------------------------
(* Histograms and their views *)

\* The views of a registry are of histograms.
LEMMA KeysOfViews ==
    ASSUME NEW registry \in Seq(Views), NEW i \in 1..Len(registry)
    PROVE  registry[i] \in Views /\ registry[i].key \in Keys
<1>1. registry[i] \in Views
  OBVIOUS
<1> QED
  BY <1>1 DEF Views

\* A view that is needed has boundaries that were given.
LEMMA NeedsViewType ==
    ASSUME NEW key \in Keys, NEW boundaries \in BoundaryChoices,
           NeedsView(key, boundaries)
    PROVE  boundaries \in Boundaries
BY DEF NeedsView, BoundaryChoices

\* A histogram is created: the views of the registry, and what it has of the
\* histogram, have their types.
LEMMA ViewsType ==
    ASSUME ViewsTypeOK, NEW key \in Keys, NEW boundaries \in BoundaryChoices,
           CreateHistogram(key, boundaries)
    PROVE  views' \in Seq(Views) /\ histogramViews' \in SUBSET Keys
<1>1. CASE NeedsView(key, boundaries)
  <2>1. [key |-> key, boundaries |-> boundaries] \in Views
    BY <1>1, NeedsViewType DEF Views
  <2> QED
    BY <1>1, <2>1 DEF CreateHistogram, ViewsTypeOK
<1>2. CASE ~NeedsView(key, boundaries)
  BY <1>2 DEF CreateHistogram, ViewsTypeOK
<1> QED
  BY <1>1, <1>2

\* A nonempty set of numbers has a smallest one.
LEMMA MinInSet == ASSUME NEW S \in SUBSET Nat, S # {} PROVE Min(S) \in S
<1>1. \E x \in S : \A y \in S : ~(<<y, x>> \in OpToRel(<, Nat))
  BY WFMin, NatLessThanWellFounded, Zenon
<1>2. ASSUME NEW x \in Nat, NEW y \in Nat, ~(<<y, x>> \in OpToRel(<, Nat))
      PROVE  x <= y
  BY <1>2 DEF OpToRel
<1>3. \E x \in S : \A y \in S : x <= y
  BY <1>1, <1>2
<1> QED
  BY <1>3 DEF Min

\* The library finds the boundaries of a view that matches, if there is one.
LEMMA FindSome ==
    ASSUME NEW registry \in Seq(Views), NEW key \in Keys,
           NEW j \in 1..Len(registry), Matches(registry[j], key)
    PROVE  \E i \in 1..Len(registry) :
             /\ Matches(registry[i], key)
             /\ FindView(registry, key) = registry[i].boundaries
<1> DEFINE found == {i \in DOMAIN registry : Matches(registry[i], key)}
<1>1. j \in found /\ found \in SUBSET Nat
  OBVIOUS
<1>2. Min(found) \in found
  <2> HIDE DEF found
  <2> QED
    BY <1>1, MinInSet
<1>3. FindView(registry, key) = registry[Min(found)].boundaries
  BY <1>1 DEF FindView
<1>4. Min(found) \in 1..Len(registry) /\ Matches(registry[Min(found)], key)
  BY <1>2
<1> HIDE DEF found
<1> QED
  BY <1>3, <1>4

\* If there is none, the library has its own boundaries.
LEMMA FindNone ==
    ASSUME NEW registry \in Seq(Views), NEW key \in Keys,
           \A i \in 1..Len(registry) : ~Matches(registry[i], key)
    PROVE  FindView(registry, key) = Default
BY DEF FindView

\* What the library finds are boundaries.
LEMMA FindType ==
    ASSUME NEW registry \in Seq(Views), NEW key \in Keys
    PROVE  FindView(registry, key) \in BoundaryChoices
<1> DEFINE found == {i \in DOMAIN registry : Matches(registry[i], key)}
<1>1. CASE found = {}
  BY <1>1 DEF FindView, BoundaryChoices
<1>2. CASE found # {}
  <2>1. found \in SUBSET Nat
    OBVIOUS
  <2>2. Min(found) \in DOMAIN registry
    BY <1>2, <2>1, MinInSet
  <2>3. registry[Min(found)] \in Views
    BY <2>2
  <2> QED
    BY <1>2, <2>3 DEF FindView, Views, BoundaryChoices
<1> QED
  BY <1>1, <1>2

\* The first state has the types.
LEMMA ViewsTypeInit == ViewsInit => ViewsTypeOK
BY DEF ViewsInit, ViewsTypeOK

\* Creating a histogram keeps the types.
LEMMA ViewsTypeStep == ViewsTypeOK /\ [ViewsNext]_viewsVars => ViewsTypeOK'
<1>1. ASSUME ViewsTypeOK, NEW key \in Keys, NEW boundaries \in BoundaryChoices,
             CreateHistogram(key, boundaries)
      PROVE  ViewsTypeOK'
  <2>1. views' \in Seq(Views) /\ histogramViews' \in SUBSET Keys
    BY <1>1, ViewsType
  <2>2. FindView(views', key) \in BoundaryChoices
    BY <2>1, FindType
  <2>3. /\ storage' \in [Keys -> BoundaryChoices \cup {Absent}]
        /\ created' \in [Keys -> BoundaryChoices \cup {Absent}]
    BY <1>1, <2>2 DEF CreateHistogram, FirstOf, ViewsTypeOK
  <2>4. given' \in [Keys -> Boundaries \cup {Absent}]
    BY <1>1 DEF CreateHistogram, FirstOf, ViewsTypeOK, BoundaryChoices
  <2> QED
    BY <2>1, <2>3, <2>4 DEF ViewsTypeOK
<1>2. ViewsTypeOK /\ UNCHANGED viewsVars => ViewsTypeOK'
  BY DEF ViewsTypeOK, viewsVars
<1> QED
  BY <1>1, <1>2 DEF ViewsNext

\* Views, histogram_views and the boundaries of histograms always have their
\* types.
THEOREM ViewsTypeCorrect == ViewsSpec => []ViewsTypeOK
BY ViewsTypeInit, ViewsTypeStep, PTL DEF ViewsSpec

-----------------------------------------------------------------------------
(* One view each *)

\* histogram_views knows the histograms that have a view, all of which were
\* created, and a view has the first boundaries given for its histogram.
ViewsInv ==
    /\ \A i \in 1..Len(views) : views[i].key \in histogramViews
    /\ \A k \in histogramViews : created[k] # Absent
    /\ \A k \in Keys : created[k] = Absent <=> storage[k] = Absent
    /\ \A k \in Keys : given[k] # Absent <=> k \in histogramViews
    /\ \A i \in 1..Len(views) : views[i].boundaries = given[views[i].key]
    /\ OneViewEach

\* A histogram that is created has storage.
LEMMA StorageStep ==
    ASSUME ViewsTypeOK, ViewsInv,
           NEW key \in Keys, NEW boundaries \in BoundaryChoices,
           CreateHistogram(key, boundaries)
    PROVE  \A k \in Keys : created'[k] = Absent <=> storage'[k] = Absent
<1>1. boundaries # Absent /\ FindView(views', key) # Absent
  <2>1. FindView(views', key) \in BoundaryChoices
    BY ViewsType, FindType
  <2> QED
    BY <2>1, ChoicesAssumption DEF BoundaryChoices
<1>2. created'[key] # Absent /\ storage'[key] # Absent
  BY <1>1 DEF CreateHistogram, FirstOf, ViewsTypeOK
<1>3. \A k \in Keys : k # key => created'[k] = created[k] /\ storage'[k] = storage[k]
  BY DEF CreateHistogram, ViewsTypeOK
<1> QED
  BY <1>2, <1>3 DEF ViewsInv

\* Creating a histogram keeps what histogram_views knows.
LEMMA ViewsStep ==
    ASSUME ViewsTypeOK, ViewsInv,
           NEW key \in Keys, NEW boundaries \in BoundaryChoices,
           CreateHistogram(key, boundaries)
    PROVE  ViewsInv'
<1>1. boundaries # Absent
  BY ChoicesAssumption DEF BoundaryChoices
<1>2. /\ created'[key] # Absent
      /\ \A k \in Keys : created[k] # Absent => created'[k] # Absent
  BY <1>1 DEF CreateHistogram, FirstOf, ViewsTypeOK
<1>3. CASE NeedsView(key, boundaries)
  <2> DEFINE view == [key |-> key, boundaries |-> boundaries]
  <2>1. /\ views' = Append(views, view)
        /\ histogramViews' = histogramViews \cup {key}
    BY <1>3 DEF CreateHistogram
  <2>2. view \in Views
    BY <1>3, NeedsViewType DEF Views
  <2>3. /\ Len(views') = Len(views) + 1
        /\ views'[Len(views) + 1] = view
        /\ \A i \in 1..Len(views) : views'[i] = views[i]
        /\ Len(views) \in Nat
    BY <2>1, <2>2 DEF ViewsTypeOK
  <2>4. \A i \in 1..Len(views) : views[i].key # key
    BY <1>3 DEF ViewsInv, NeedsView
  <2>5. \A i, j \in 1..Len(views') : views'[i].key = views'[j].key => i = j
    <3>1. \A i \in 1..Len(views') : i \in 1..Len(views) \/ i = Len(views) + 1
      BY <2>3
    <3> QED
      BY <2>3, <2>4, <3>1 DEF ViewsInv, OneViewEach
  <2>6. \A i \in 1..Len(views') : views'[i].key \in histogramViews'
    BY <2>1, <2>3 DEF ViewsInv
  <2>7. given' = [given EXCEPT ![key] = boundaries]
    <3>1. boundaries # Default /\ given[key] = Absent
      BY <1>3 DEF NeedsView, ViewsInv
    <3>2. FirstOf(given[key], boundaries) = boundaries
      BY <3>1 DEF FirstOf
    <3> QED
      BY <3>1, <3>2 DEF CreateHistogram
  <2>8. \A i \in 1..Len(views') : views'[i].boundaries = given'[views'[i].key]
    <3>1. \A i \in 1..Len(views') : i \in 1..Len(views) \/ i = Len(views) + 1
      BY <2>3
    <3>2. given'[key] = boundaries /\ \A k \in Keys : k # key => given'[k] = given[k]
      BY <2>7 DEF ViewsTypeOK
    <3>3. \A i \in 1..Len(views) : views[i].key \in Keys
      BY KeysOfViews DEF ViewsTypeOK
    <3> QED
      BY <2>3, <2>4, <3>1, <3>2, <3>3 DEF ViewsInv
  <2>9. \A k \in Keys : given'[k] # Absent <=> k \in histogramViews'
    BY <1>1, <2>1, <2>7 DEF ViewsInv, ViewsTypeOK
  <2> QED
    BY <1>2, <2>1, <2>5, <2>6, <2>8, <2>9, StorageStep DEF ViewsInv, OneViewEach, ViewsTypeOK
<1>4. CASE ~NeedsView(key, boundaries)
  <2>1. given' = given
    <3>1. CASE boundaries = Default
      BY <3>1 DEF CreateHistogram
    <3>2. CASE boundaries # Default
      <4>1. views' = views /\ key \in histogramViews
        BY <1>4, <3>2 DEF CreateHistogram, NeedsView
      <4>2. given[key] # Absent
        BY <4>1 DEF ViewsInv
      <4> QED
        BY <3>2, <4>2 DEF CreateHistogram, FirstOf, ViewsTypeOK
    <3> QED
      BY <3>1, <3>2
  <2>2. views' = views /\ histogramViews' = histogramViews
    BY <1>4 DEF CreateHistogram
  <2>3. \A k \in histogramViews : created'[k] # Absent
    BY <1>2 DEF ViewsInv, ViewsTypeOK
  <2> QED
    BY <2>1, <2>2, <2>3, StorageStep DEF ViewsInv, OneViewEach
<1> QED
  BY <1>3, <1>4

\* The invariant holds, whatever is created.
LEMMA ViewsCorrect == ViewsSpec => []ViewsInv
<1>1. ViewsInit => ViewsInv
  BY DEF ViewsInit, ViewsInv, OneViewEach
<1>2. ViewsTypeOK /\ ViewsInv /\ [ViewsNext]_viewsVars => ViewsInv'
  <2>1. ViewsInv /\ UNCHANGED viewsVars => ViewsInv'
    BY DEF ViewsInv, OneViewEach, viewsVars
  <2> QED
    BY <2>1, ViewsStep DEF ViewsNext
<1> QED
  BY <1>1, <1>2, ViewsTypeCorrect, PTL DEF ViewsSpec

\* A histogram has at most one view, for any number of calls.
THEOREM OneViewEachCorrect == ViewsSpec => []OneViewEach
<1>1. ViewsInv => OneViewEach
  BY DEF ViewsInv
<1> QED
  BY <1>1, ViewsCorrect, PTL

\* The library finds the views of the histogram itself, and of those it
\* clashes with.
LEMMA MatchesItsOwn ==
    ASSUME NEW view \in Views, NEW key \in Keys
    PROVE  Matches(view, key) <=> view.key = key \/ VersionClash(key, view.key)
<1>1. view.key \in Keys /\ view.key.meter \in Meters /\ key.meter \in Meters
  BY DEF Views, Keys
<1>2. view.key.meter = key.meter <=>
        /\ view.key.meter.name = key.meter.name
        /\ view.key.meter.version = key.meter.version
  BY <1>1 DEF Meters
<1>3. view.key = key <=>
        view.key.meter = key.meter /\ view.key.histogram = key.histogram
  BY <1>1 DEF Keys
<1> QED
  BY <1>2, <1>3 DEF Matches, MatchMeter, VersionClash

\* A histogram that is created for the first time finds the view that was just
\* made for it, or none, or the view of one that it clashes with.
LEMMA FirstCreation ==
    ASSUME ViewsTypeOK, ViewsInv, ViewsInv',
           NEW key \in Keys, NEW boundaries \in BoundaryChoices,
           CreateHistogram(key, boundaries), created[key] = Absent
    PROVE  \/ FindView(views', key) = boundaries
           \/ \E other \in Keys : /\ VersionClash(key, other)
                                 /\ FindView(views', key) = given'[other]
<1>1. key \notin histogramViews
  BY DEF ViewsInv
<1>2. views' \in Seq(Views)
  BY ViewsType
<1>3. \A i \in 1..Len(views') :
        /\ views'[i] \in Views /\ views'[i].key \in Keys
        /\ views'[i].boundaries = given'[views'[i].key]
  BY <1>2, KeysOfViews DEF ViewsInv
<1>4. CASE \E j \in 1..Len(views') : Matches(views'[j], key)
  <2>1. PICK i \in 1..Len(views') :
          /\ Matches(views'[i], key)
          /\ FindView(views', key) = views'[i].boundaries
    BY <1>2, <1>4, FindSome
  <2>2. CASE VersionClash(key, views'[i].key)
    BY <1>3, <2>1, <2>2
  <2>3. CASE views'[i].key = key
    <3>1. given'[key] # Absent
      BY <2>3 DEF ViewsInv
    <3>2. given[key] = Absent
      BY <1>1 DEF ViewsInv
    <3>3. given'[key] = boundaries
      BY <3>1, <3>2 DEF CreateHistogram, FirstOf, ViewsTypeOK
    <3> QED
      BY <1>3, <2>1, <2>3, <3>3
  <2> QED
    BY <1>3, <2>1, <2>2, <2>3, MatchesItsOwn
<1>5. CASE ~\E j \in 1..Len(views') : Matches(views'[j], key)
  <2>1. FindView(views', key) = Default
    BY <1>2, <1>5, FindNone
  <2>2. CASE NeedsView(key, boundaries)
    <3> DEFINE view == [key |-> key, boundaries |-> boundaries]
    <3>1. view \in Views /\ views' = Append(views, view)
      BY <2>2, NeedsViewType DEF Views, CreateHistogram
    <3>2. Len(views') \in 1..Len(views') /\ views'[Len(views')] = view
      BY <3>1 DEF ViewsTypeOK
    <3> QED
      BY <1>5, <3>1, <3>2, MatchesItsOwn
  <2>3. CASE ~NeedsView(key, boundaries)
    BY <1>1, <2>1, <2>3 DEF NeedsView
  <2> QED
    BY <2>2, <2>3
<1> QED
  BY <1>4, <1>5

\* The first boundaries given for a histogram stay the first.
LEMMA GivenStays ==
    ASSUME ViewsTypeOK, NEW key \in Keys, NEW boundaries \in BoundaryChoices,
           CreateHistogram(key, boundaries),
           NEW k \in Keys, given[k] # Absent
    PROVE  given'[k] = given[k]
BY DEF CreateHistogram, FirstOf, ViewsTypeOK

\* A histogram counts with the boundaries of its first creation, for any number
\* of meters and calls, with and without versions, or with those that were
\* given for one that it clashes with.
THEOREM FirstCallWinsCorrect == ViewsSpec => []FirstCallWins
<1>1. ViewsInit => FirstCallWins
  BY DEF ViewsInit, FirstCallWins
<1>2. ASSUME ViewsTypeOK, ViewsInv, ViewsInv', FirstCallWins,
             NEW key \in Keys, NEW boundaries \in BoundaryChoices,
             CreateHistogram(key, boundaries)
      PROVE  FirstCallWins'
  <2> SUFFICES ASSUME NEW k \in Keys, storage'[k] # created'[k]
               PROVE  \E other \in Keys :
                        VersionClash(k, other) /\ storage'[k] = given'[other]
    BY DEF FirstCallWins
  <2>1. CASE k = key /\ created[key] = Absent
    <3>1. storage[key] = Absent
      BY <1>2, <2>1 DEF ViewsInv
    <3>2. created'[k] = boundaries /\ storage'[k] = FindView(views', key)
      BY <1>2, <2>1, <3>1 DEF CreateHistogram, FirstOf, ViewsTypeOK
    <3> QED
      BY <1>2, <2>1, <3>2, FirstCreation
  <2>2. CASE k # key \/ created[key] # Absent
    <3>1. storage[key] = Absent <=> created[key] = Absent
      BY <1>2 DEF ViewsInv
    <3>2. created'[k] = created[k] /\ storage'[k] = storage[k]
      BY <1>2, <2>2, <3>1 DEF CreateHistogram, FirstOf, ViewsTypeOK
    <3>3. PICK other \in Keys : VersionClash(k, other) /\ storage[k] = given[other]
      BY <1>2, <3>2 DEF FirstCallWins
    <3>4. storage[k] # Absent
      BY <1>2, <3>2 DEF ViewsInv
    <3>5. given'[other] = given[other]
      BY <1>2, <3>3, <3>4, GivenStays
    <3> QED
      BY <3>2, <3>3, <3>5
  <2> QED
    BY <2>1, <2>2
<1>3. /\ ViewsTypeOK /\ ViewsInv /\ ViewsInv' /\ FirstCallWins
      /\ [ViewsNext]_viewsVars
      => FirstCallWins'
  <2>1. FirstCallWins /\ UNCHANGED viewsVars => FirstCallWins'
    BY DEF FirstCallWins, viewsVars
  <2> QED
    BY <1>2, <2>1 DEF ViewsNext
<1> QED
  BY <1>1, <1>3, ViewsTypeCorrect, ViewsCorrect, PTL DEF ViewsSpec
=============================================================================
