-------------------------- MODULE Lifetimes_proofs --------------------------
(***************************************************************************)
(* Proofs about Lifetimes, for any number of objects, any programs and any *)
(* order of the finalizers.                                                *)
(***************************************************************************)
EXTENDS Lifetimes, TLAPS

\* Where each class of object comes from.
Shape ==
    \A o \in Objects :
        /\ kind[o] = "none" => /\ address[o] = "null"
                               /\ stream[o] = "none"
                               /\ parent[o] = None
        /\ kind[o] \in Providers => parent[o] = None
        /\ kind[o] \in Getters => /\ parent[o] \in Objects
                                  /\ kind[parent[o]] \in Providers
        /\ kind[o] = "span" => /\ parent[o] \in Objects
                               /\ kind[parent[o]] = "tracer"
                               /\ span[o] \in Objects
                               /\ kind[span[o]] = "span"
        /\ kind[o] = "instrument" => /\ parent[o] \in Objects
                                     /\ kind[parent[o]] = "meter"

\* Only spans are activated.
ActiveIsSpan == active # None => kind[active] = "span"

\* What R code can reach has a struct, which is not about to be deleted.
ReachableLive ==
    \A o \in Objects : Reachable(o) => address[o] = "set" /\ o \notin ready

\* A stream is only destroyed with its provider, which is then shut down, unless
\* its destructor has not come to that yet.
StreamsLast ==
    \A p \in Objects : stream[p] = "destroyed" =>
        deleting = p \/ (address[p] = "null" /\ shut[p] # "no")

IInv ==
    /\ TypeOK /\ Shape /\ ActiveIsSpan /\ ReachableLive /\ StreamsLast
    /\ UsesLiveObjects

-----------------------------------------------------------------------------
(* Reachability *)

\* Roots are objects, and what a reachable object refers to is reachable.
LEMMA RootsReachable ==
    ASSUME TypeOK
    PROVE  \A r \in Roots : r \in Objects /\ Reachable(r)
BY DEF TypeOK, Roots, Reachable, RefersTo, Objects, None

\* A provider refers to nothing, so that two steps reach everything.
LEMMA ParentReachable ==
    ASSUME TypeOK, Shape, NEW o \in Objects, Reachable(o), parent[o] # None
    PROVE  parent[o] \in Objects /\ Reachable(parent[o])
<1>1. parent[o] \in Objects
  BY DEF TypeOK
<1>2. PICK r \in Roots : o \in RefersTo(r)
  BY DEF Reachable
<1>3. r \in Objects
  BY <1>2, RootsReachable
<1>4. CASE o = r \/ o = parent[r]
  BY <1>1, <1>2, <1>4 DEF Reachable, RefersTo
<1>5. CASE o # r /\ o # parent[r]
  <2>1. parent[r] \in Objects /\ o = parent[parent[r]]
    BY <1>2, <1>3, <1>5 DEF RefersTo, TypeOK
  <2>2. kind[r] \in Getters \cup {"span", "instrument"}
    BY <1>3, <2>1 DEF Shape, TypeOK, Kinds, Objects, None
  <2> QED
    BY <1>3, <2>1, <2>2 DEF Shape, Getters, Providers, Objects, None
<1> QED
  BY <1>4, <1>5

\* The provider of a span, tracer, logger, meter or instrument is an object.
LEMMA ProviderIsObject ==
    ASSUME TypeOK, Shape, NEW o \in Objects,
           kind[o] \in Getters \cup {"span", "instrument"}
    PROVE  ProviderOf(o) \in Objects
BY DEF Shape, ProviderOf, Getters, Providers

-----------------------------------------------------------------------------
(* New objects *)

\* A new object refers to a reachable one or to none, and nothing refers to it.
LEMMA CreateReaches ==
    ASSUME TypeOK, Shape, ReachableLive, NEW o \in Objects, NEW k, NEW s,
           NEW p \in Objects \cup {None},
           p = None \/ Reachable(p),
           Create(o, k, p, s)
    PROVE  \A x \in Objects : Reachable(x)' => x = o \/ Reachable(x)
<1>1. parent' = [parent EXCEPT ![o] = p] /\ Roots' \subseteq Roots \cup {o}
  BY DEF Create, Roots
<1>2. kind[o] = "none" /\ address[o] = "null"
  BY DEF Create, Shape
<1>3. SUFFICES ASSUME NEW x \in Objects, NEW r \in Roots', x \in RefersTo(r)'
               PROVE  x = o \/ Reachable(x)
  BY DEF Reachable
<1>4. CASE r = o
  <2>1. parent'[o] = p
    BY <1>1 DEF TypeOK
  <2>2. x = o \/ x = p \/ (p # None /\ x = parent'[p])
    BY <1>3, <1>4, <2>1 DEF RefersTo
  <2>3. p # None => p \in Objects /\ Reachable(p)
    OBVIOUS
  <2>4. p # o /\ (p # None => parent'[p] = parent[p])
    BY <1>1, <1>2, <2>3 DEF ReachableLive, TypeOK, Objects, None
  <2>5. ASSUME p # None, x = parent[p] PROVE Reachable(x)
    <3>1. parent[p] # None
      BY <2>5, <1>3 DEF Objects, None
    <3> QED
      BY <2>3, <2>5, <3>1, ParentReachable
  <2> QED
    BY <2>2, <2>3, <2>4, <2>5 DEF Objects, None
<1>5. CASE r # o
  <2>1. r \in Roots /\ r \in Objects /\ Reachable(r)
    BY <1>1, <1>5, RootsReachable
  <2>2. parent'[r] = parent[r]
    BY <1>1, <1>5, <2>1 DEF TypeOK
  <2>3. parent[r] # None => parent'[parent[r]] = parent[parent[r]]
    <3>1. parent[r] # None => parent[r] \in Objects /\ Reachable(parent[r])
      BY <2>1, ParentReachable
    <3> QED
      BY <1>1, <1>2, <3>1 DEF ReachableLive, TypeOK
  <2>4. x \in RefersTo(r)
    BY <1>3, <2>2, <2>3 DEF RefersTo
  <2> QED
    BY <2>1, <2>4 DEF Reachable
<1> QED
  BY <1>4, <1>5

\* Creating an object keeps what is reachable alive.
LEMMA CreateLive ==
    ASSUME TypeOK, Shape, ReachableLive, NEW o \in Objects, NEW k, NEW s,
           NEW p \in Objects \cup {None},
           p = None \/ Reachable(p),
           Create(o, k, p, s)
    PROVE  ReachableLive'
<1>1. \A x \in Objects : Reachable(x)' => x = o \/ Reachable(x)
  BY CreateReaches
<1>2. /\ address' = [address EXCEPT ![o] = "set"]
      /\ ready' = ready
      /\ o \notin ready
  BY DEF Create, collectorVars, Shape, TypeOK
<1>3. ASSUME NEW x \in Objects, Reachable(x)'
      PROVE  address'[x] = "set" /\ x \notin ready'
  BY <1>1, <1>2, <1>3 DEF ReachableLive, TypeOK
<1> QED
  BY <1>3 DEF ReachableLive

\* The types of a new object, if the streams and the spans have theirs.
LEMMA CreateTypes ==
    ASSUME TypeOK, NEW o \in Objects, NEW k \in Kinds, NEW s \in Objects \cup {None},
           NEW p \in Objects \cup {None}, Create(o, k, p, s),
           stream' \in [Objects -> {"none", "open", "destroyed"}],
           spanState' \in [Objects -> {"none", "recording", "exported", "dropped"}],
           UNCHANGED <<shut, unreported>>,
           dead' \subseteq {"stream", "struct"} \X Objects
    PROVE  TypeOK'
<1>1. kind' \in [Objects -> Kinds]
  BY DEF Create, TypeOK
<1>2. parent' \in [Objects -> Objects \cup {None}]
  BY DEF Create, TypeOK
<1>3. address' \in [Objects -> {"set", "null"}]
  BY DEF Create, TypeOK
<1>4. span' \in [Objects -> Objects \cup {None}]
  BY DEF Create, TypeOK
<1>5. held' \subseteq Objects /\ active' \in Objects \cup {None}
  BY DEF Create, TypeOK
<1>6. ready' \subseteq {x \in Objects : address'[x] = "set"}
  BY DEF Create, TypeOK, collectorVars
<1> QED
  BY <1>1, <1>2, <1>3, <1>4, <1>5, <1>6 DEF Create, TypeOK, collectorVars

\* The streams that were destroyed stay so, and there is no new one.
LEMMA CreateStreams ==
    ASSUME TypeOK, Shape, StreamsLast, NEW o \in Objects, NEW k, NEW s, NEW p,
           NEW out \in {"none", "open"}, Create(o, k, p, s),
           stream' = [stream EXCEPT ![o] = out] \/ stream' = stream,
           UNCHANGED shut
    PROVE  StreamsLast'
<1>1. stream[o] = "none"
  BY DEF Create, Shape
<1>2. SUFFICES ASSUME NEW q \in Objects, stream'[q] = "destroyed"
               PROVE  deleting' = q \/ (address'[q] = "null" /\ shut'[q] # "no")
  BY DEF StreamsLast
<1>3. q # o /\ stream[q] = "destroyed"
  BY <1>1, <1>2 DEF TypeOK
<1> QED
  BY <1>3 DEF Create, StreamsLast, collectorVars, TypeOK

\* What was used after its destruction is still of the kind that may be.
LEMMA CreateUses ==
    ASSUME TypeOK, Shape, UsesLiveObjects, NEW o \in Objects, NEW k, NEW s, NEW p,
           NEW out \in {"none", "open"}, Create(o, k, p, s),
           stream' = [stream EXCEPT ![o] = out] \/ stream' = stream,
           UNCHANGED <<shut, dead>>
    PROVE  UsesLiveObjects'
<1>1. SUFFICES ASSUME NEW use \in dead
               PROVE  use[1] = "stream" /\ ReportsFromDestructor(use[2])'
  BY DEF UsesLiveObjects
<1>2. use[2] \in Objects /\ use[1] = "stream" /\ ReportsFromDestructor(use[2])
  BY DEF UsesLiveObjects, TypeOK
<1>3. use[2] # o
  BY <1>2 DEF Create, ReportsFromDestructor
<1> QED
  BY <1>2, <1>3 DEF Create, ReportsFromDestructor, TypeOK

\* A new object of the right class, with the right parent, keeps the shape.
LEMMA CreateShape ==
    ASSUME TypeOK, Shape, NEW o \in Objects, NEW k \in Kinds \ {"none"},
           NEW s \in Objects \cup {None}, NEW p \in Objects \cup {None},
           NEW out \in {"none", "open"}, Create(o, k, p, s),
           stream' = [stream EXCEPT ![o] = out] \/ stream' = stream,
           k \in Providers => p = None,
           k \in Getters => p \in Objects /\ kind[p] \in Providers,
           k = "span" => p \in Objects /\ kind[p] = "tracer"
                         /\ (s = o \/ (s \in Objects /\ kind[s] = "span")),
           k = "instrument" => p \in Objects /\ kind[p] = "meter"
    PROVE  Shape'
<1>1. /\ kind' = [kind EXCEPT ![o] = k]
      /\ parent' = [parent EXCEPT ![o] = p]
      /\ address' = [address EXCEPT ![o] = "set"]
      /\ span' = [span EXCEPT ![o] = s]
      /\ kind[o] = "none"
  BY DEF Create
<1>2. \A q \in Objects : q # o => kind'[q] = kind[q]
  BY <1>1 DEF TypeOK
<1>3. kind'[o] = k /\ parent'[o] = p /\ span'[o] = s
  BY <1>1 DEF TypeOK
<1>4. \A q \in Objects : kind[q] # "none" => q # o
  BY <1>1
<1>5. "none" \notin Providers /\ "none" \notin Getters
  BY DEF Providers, Getters
<1>6. ASSUME NEW x \in Objects, x # o
      PROVE  /\ kind'[x] = kind[x] /\ parent'[x] = parent[x]
             /\ address'[x] = address[x] /\ span'[x] = span[x]
             /\ stream'[x] = stream[x]
  BY <1>1, <1>6 DEF TypeOK
<1>7. ASSUME NEW x \in Objects
      PROVE  /\ kind'[x] = "none" => /\ address'[x] = "null"
                                     /\ stream'[x] = "none"
                                     /\ parent'[x] = None
             /\ kind'[x] \in Providers => parent'[x] = None
  BY <1>3, <1>6, <1>7 DEF Shape
<1>8. ASSUME NEW x \in Objects
      PROVE  kind'[x] \in Getters => /\ parent'[x] \in Objects
                                     /\ kind'[parent'[x]] \in Providers
  BY <1>2, <1>3, <1>4, <1>5, <1>6, <1>8 DEF Shape
<1>9. ASSUME NEW x \in Objects
      PROVE  kind'[x] = "instrument" => /\ parent'[x] \in Objects
                                        /\ kind'[parent'[x]] = "meter"
  BY <1>2, <1>3, <1>4, <1>5, <1>6, <1>9 DEF Shape
<1>10. ASSUME NEW x \in Objects
       PROVE  kind'[x] = "span" => /\ parent'[x] \in Objects
                                   /\ kind'[parent'[x]] = "tracer"
                                   /\ span'[x] \in Objects
                                   /\ kind'[span'[x]] = "span"
  BY <1>2, <1>3, <1>4, <1>5, <1>6, <1>10 DEF Shape
<1> QED
  BY <1>7, <1>8, <1>9, <1>10 DEF Shape

\* What is active is a span still.
LEMMA CreateActive ==
    ASSUME TypeOK, ActiveIsSpan, NEW o \in Objects, NEW k, NEW s, NEW p,
           Create(o, k, p, s)
    PROVE  ActiveIsSpan'
BY DEF Create, ActiveIsSpan, TypeOK

\* Every way to create an object keeps the invariant.
LEMMA CreatesKeep ==
    ASSUME IInv, NEW o \in Objects, Creates(o)
    PROVE  IInv'
<1> USE DEF IInv
<1>1. ASSUME NEW k \in Providers, NEW out \in {"none", "open"},
             CreateProvider(o, k, out)
      PROVE  IInv'
  <2>1. /\ k \in Kinds \ {"none"} /\ k \notin Getters
        /\ k # "span" /\ k # "instrument"
    BY DEF Kinds, Providers, Getters
  <2>2. /\ Create(o, k, None, None)
        /\ stream' = [stream EXCEPT ![o] = out]
        /\ UNCHANGED <<shut, unreported, spanState, dead>>
    BY <1>1 DEF CreateProvider
  <2>3. /\ stream' \in [Objects -> {"none", "open", "destroyed"}]
        /\ spanState' \in [Objects -> {"none", "recording", "exported", "dropped"}]
        /\ dead' \subseteq {"stream", "struct"} \X Objects
    BY <2>2 DEF TypeOK
  <2> QED
    BY <2>1, <2>2, <2>3, CreateTypes, CreateShape, CreateLive, CreateStreams,
       CreateUses, CreateActive
<1>2. ASSUME NEW k \in Kinds \ (Providers \cup {"none"}), NEW p \in Objects,
             NEW s \in Objects \cup {None},
             Create(o, k, p, s), Reachable(p),
             UNCHANGED <<stream, shut, unreported, dead>>,
             spanState' \in
                 [Objects -> {"none", "recording", "exported", "dropped"}],
             k \in Getters => kind[p] \in Providers,
             k = "span" => kind[p] = "tracer"
                           /\ (s = o \/ (s \in Objects /\ kind[s] = "span")),
             k = "instrument" => kind[p] = "meter"
      PROVE  IInv'
  <2>1. stream' \in [Objects -> {"none", "open", "destroyed"}]
        /\ dead' \subseteq {"stream", "struct"} \X Objects
    BY <1>2 DEF TypeOK
  <2>2. TypeOK' /\ ReachableLive'
    BY <1>2, <2>1, CreateTypes, CreateLive
  <2>3. Shape' /\ ActiveIsSpan' /\ StreamsLast' /\ UsesLiveObjects'
    BY <1>2, CreateShape, CreateStreams, CreateUses, CreateActive
  <2> QED
    BY <2>2, <2>3
<1>3. ASSUME NEW p \in Objects, Get(o, p) PROVE IInv'
  <2>1. /\ kind[p] \in Providers
        /\ GetterOf[kind[p]] \in Getters
        /\ GetterOf[kind[p]] \in Kinds \ (Providers \cup {"none"})
    BY <1>3 DEF Get, Calls, GetterOf, Getters, Kinds, Providers
  <2>2. GetterOf[kind[p]] # "span" /\ GetterOf[kind[p]] # "instrument"
    BY <2>1 DEF Getters
  <2> QED
    BY <1>2, <1>3, <2>1, <2>2 DEF Get, Calls, providerVars, TypeOK
<1>4. "span" \in Kinds \ (Providers \cup {"none"}) /\ "span" \notin Getters
  BY DEF Kinds, Providers, Getters
<1>5. ASSUME NEW t \in Objects, StartSpan(o, t) PROVE IInv'
  <2>1. kind[t] = "tracer" /\ Reachable(t) /\ Create(o, "span", t, o)
    BY <1>5 DEF StartSpan, Calls
  <2>2. spanState' \in [Objects -> {"none", "recording", "exported", "dropped"}]
    BY <1>5 DEF StartSpan, TypeOK
  <2> QED
    BY <1>2, <1>4, <1>5, <2>1, <2>2 DEF StartSpan, providerVars
<1>6. ASSUME NEW t \in Objects, GetActiveSpan(o, t) PROVE IInv'
  <2>1. kind[t] = "tracer" /\ Reachable(t) /\ Create(o, "span", t, span[active])
    BY <1>6 DEF GetActiveSpan, Calls
  <2>2. active \in Objects /\ kind[active] = "span"
    BY <1>6 DEF GetActiveSpan, TypeOK, ActiveIsSpan
  <2>3. span[active] \in Objects /\ kind[span[active]] = "span"
    BY <2>2 DEF Shape
  <2> QED
    BY <1>2, <1>4, <1>6, <2>1, <2>3 DEF GetActiveSpan, providerVars, TypeOK
<1>7. ASSUME NEW m \in Objects, CreateInstrument(o, m) PROVE IInv'
  <2>1. kind[m] = "meter" /\ Reachable(m) /\ Create(o, "instrument", m, None)
    BY <1>7 DEF CreateInstrument, Calls
  <2>2. parent[m] \in Objects /\ parent[m] # None
    BY <2>1 DEF Shape, Getters, Objects, None
  <2>3. address[parent[m]] = "set"
    BY <2>1, <2>2, ParentReachable DEF ReachableLive
  <2>4. dead' = dead
    BY <1>7, <2>3 DEF CreateInstrument, StructUse
  <2>5. "instrument" \in Kinds \ (Providers \cup {"none"})
        /\ "instrument" \notin Getters
    BY DEF Kinds, Providers, Getters
  <2> QED
    BY <1>2, <1>7, <2>1, <2>4, <2>5 DEF CreateInstrument, providerVars, TypeOK
<1> QED
  BY <1>1, <1>3, <1>5, <1>6, <1>7 DEF Creates

-----------------------------------------------------------------------------
(* R code *)

\* What a reachable object refers to is reachable.
LEMMA RefersReachable ==
    ASSUME TypeOK, Shape, NEW r \in Objects, Reachable(r),
           NEW x \in Objects, x \in RefersTo(r)
    PROVE  Reachable(x)
<1>1. CASE x = r
  BY <1>1
<1>2. CASE x = parent[r]
  BY <1>2, ParentReachable DEF Objects, None
<1>3. CASE parent[r] # None /\ x = parent[parent[r]]
  <2>1. parent[r] \in Objects /\ Reachable(parent[r])
    BY <1>3, ParentReachable
  <2> QED
    BY <1>3, <2>1, ParentReachable DEF Objects, None
<1> QED
  BY <1>1, <1>2, <1>3 DEF RefersTo

\* Steps that only change what spans and measurements have come to.
LEMMA QuietKeeps ==
    ASSUME IInv,
           UNCHANGED <<objectVars, rootVars, collectorVars, stream, shut, dead>>,
           spanState' \in
               [Objects -> {"none", "recording", "exported", "dropped"}],
           unreported' \in [Objects -> BOOLEAN]
    PROVE  IInv'
<1> USE DEF IInv, objectVars, rootVars, collectorVars
<1>1. TypeOK' /\ Shape' /\ ActiveIsSpan' /\ StreamsLast' /\ UsesLiveObjects'
  BY DEF TypeOK, Shape, ActiveIsSpan, StreamsLast, UsesLiveObjects,
         ReportsFromDestructor
<1>2. ReachableLive'
  BY DEF ReachableLive, Reachable, Roots, RefersTo
<1> QED
  BY <1>1, <1>2

\* Nothing writes to a destroyed stream, but from a provider's destructor.
LEMMA StreamThere ==
    ASSUME TypeOK, StreamsLast, deleting = None, NEW p \in Objects
    PROVE  /\ shut[p] = "no" => StreamUse(p) = {}
           /\ address[p] = "set" => StreamUse(p) = {} /\ stream[p] # "destroyed"
BY DEF StreamsLast, StreamUse, TypeOK, Objects, None

\* A span ends without using what is destroyed.
LEMMA SpanEndsQuietly ==
    ASSUME TypeOK, Shape, StreamsLast, deleting = None, NEW s \in Objects,
           kind[s] = "span", SpanEnds(s)
    PROVE  /\ dead' = dead
           /\ spanState' \in
                 [Objects -> {"none", "recording", "exported", "dropped"}]
<1>1. ProviderOf(s) \in Objects
  BY ProviderIsObject
<1>2. shut[ProviderOf(s)] = "no" => StreamUse(ProviderOf(s)) = {}
  BY <1>1, StreamThere
<1>3. dead' = dead
  BY <1>2 DEF SpanEnds
<1>4. spanState' = spanState \/ \E state \in {"exported", "dropped"} :
                                  spanState' = [spanState EXCEPT ![s] = state]
  BY DEF SpanEnds
<1>5. spanState \in [Objects -> {"none", "recording", "exported", "dropped"}]
  BY DEF TypeOK
<1> QED
  BY <1>3, <1>4, <1>5

\* A report uses what is destroyed only in the way that may be.
LEMMA ReportUses ==
    ASSUME TypeOK, UsesLiveObjects, NEW p \in Objects,
           kind[p] = "meter_provider", Report(p)
    PROVE  /\ unreported' \in [Objects -> BOOLEAN]
           /\ dead' \subseteq {"stream", "struct"} \X Objects
           /\ \A use \in dead' : /\ use[1] = "stream"
                                 /\ ReportsFromDestructor(use[2])
<1>1. unreported' \in [Objects -> BOOLEAN]
  BY DEF Report, TypeOK
<1>2. ASSUME NEW use \in dead'
      PROVE  /\ use \in {"stream", "struct"} \X Objects
             /\ use[1] = "stream" /\ ReportsFromDestructor(use[2])
  <2>1. CASE use \in dead
    BY <2>1 DEF UsesLiveObjects, TypeOK
  <2>2. CASE use \notin dead
    <3>1. shut[p] = "no" /\ stream[p] = "destroyed" /\ use = <<"stream", p>>
      BY <1>2, <2>2 DEF Report, StreamUse
    <3> QED
      BY <3>1 DEF ReportsFromDestructor
  <2> QED
    BY <2>1, <2>2
<1> QED
  BY <1>1, <1>2

\* A report that shuts nothing down keeps the invariant.
LEMMA ReportKeeps ==
    ASSUME IInv, NEW p \in Objects, kind[p] = "meter_provider", Report(p),
           UNCHANGED <<objectVars, rootVars, collectorVars, stream, shut,
                       spanState>>
    PROVE  IInv'
<1> USE DEF IInv, objectVars, rootVars, collectorVars
<1>1. /\ unreported' \in [Objects -> BOOLEAN]
      /\ dead' \subseteq {"stream", "struct"} \X Objects
      /\ \A use \in dead' : use[1] = "stream" /\ ReportsFromDestructor(use[2])
  BY ReportUses
<1>2. TypeOK' /\ Shape' /\ ActiveIsSpan' /\ StreamsLast' /\ UsesLiveObjects'
  BY <1>1 DEF TypeOK, Shape, ActiveIsSpan, StreamsLast, UsesLiveObjects,
              ReportsFromDestructor
<1>3. ReachableLive'
  BY DEF ReachableLive, Reachable, Roots, RefersTo
<1> QED
  BY <1>2, <1>3

\* shutdown() of a provider that R code can reach finds its stream.
LEMMA ShutdownKeeps ==
    ASSUME IInv, NEW p \in Objects, Shutdown(p)
    PROVE  IInv'
<1> USE DEF IInv
<1>1. /\ Reachable(p) /\ address[p] = "set" /\ p \notin ready /\ deleting = None
      /\ shut' = [shut EXCEPT ![p] = "by_user"]
      /\ UNCHANGED <<objectVars, rootVars, collectorVars, stream, spanState>>
  BY DEF Shutdown, Calls, ReachableLive
<1>2. StreamUse(p) = {} /\ stream[p] # "destroyed"
  BY <1>1, StreamThere
<1>3. dead' = dead /\ unreported' \in [Objects -> BOOLEAN]
  <2>1. \/ UNCHANGED <<unreported, dead>>
        \/ Report(p)
    BY DEF Shutdown, LastReport
  <2>2. unreported \in [Objects -> BOOLEAN]
    BY DEF TypeOK
  <2>3. CASE Report(p)
    <3>1. dead' = dead
      BY <1>2, <2>3 DEF Report
    <3>2. unreported' = [unreported EXCEPT ![p] = @ /\ shut[p] # "no"]
      BY <2>3 DEF Report
    <3>3. unreported' \in [Objects -> BOOLEAN]
      BY <2>2, <3>2
    <3> QED
      BY <3>1, <3>3
  <2> QED
    BY <2>1, <2>2, <2>3
<1> USE DEF objectVars, rootVars, collectorVars
<1>4. TypeOK' /\ Shape' /\ ActiveIsSpan'
  BY <1>1, <1>3 DEF TypeOK, Shape, ActiveIsSpan
<1>5. StreamsLast'
  BY <1>1 DEF StreamsLast, TypeOK
<1>6. ReachableLive'
  BY <1>1 DEF ReachableLive, Reachable, Roots, RefersTo
<1>7. ASSUME NEW use \in dead'
      PROVE  use[1] = "stream" /\ ReportsFromDestructor(use[2])'
  <2>1. use[2] \in Objects /\ use[1] = "stream" /\ ReportsFromDestructor(use[2])
    BY <1>3, <1>7 DEF UsesLiveObjects, TypeOK
  <2>2. use[2] # p
    BY <1>2, <2>1 DEF ReportsFromDestructor
  <2> QED
    BY <1>1, <2>1, <2>2 DEF ReportsFromDestructor, TypeOK
<1>8. UsesLiveObjects'
  BY <1>7 DEF UsesLiveObjects
<1> QED
  BY <1>4, <1>5, <1>6, <1>8

\* Steps that change what R code holds, to what it could reach already.
LEMMA RootsKeep ==
    ASSUME IInv,
           UNCHANGED <<objectVars, collectorVars, providerVars, spanState, dead>>,
           held' \subseteq Objects, active' \in Objects \cup {None}, ActiveIsSpan',
           \A r \in Roots' : r \in Objects /\ Reachable(r)
    PROVE  IInv'
<1> USE DEF IInv, objectVars, collectorVars, providerVars
<1>1. TypeOK' /\ Shape' /\ StreamsLast' /\ UsesLiveObjects'
  BY DEF TypeOK, Shape, StreamsLast, UsesLiveObjects, ReportsFromDestructor
<1>2. ASSUME NEW x \in Objects, Reachable(x)' PROVE Reachable(x)
  <2>1. PICK r \in Roots' : x \in RefersTo(r)'
    BY <1>2 DEF Reachable
  <2>2. x \in RefersTo(r)
    BY <2>1 DEF RefersTo
  <2> QED
    BY <2>1, <2>2, RefersReachable
<1>3. ReachableLive'
  BY <1>2 DEF ReachableLive
<1> QED
  BY <1>1, <1>3

\* Every call of R code keeps the invariant.
LEMMA UsesKeep ==
    ASSUME IInv, NEW o \in Objects, Uses(o) \/ Deactivate
    PROVE  IInv'
<1> USE DEF IInv
<1>1. CASE Measure(o)
  BY <1>1, QuietKeeps DEF Measure, TypeOK
<1>2. CASE Log(o)
  <2>1. kind[o] = "logger" /\ Reachable(o) /\ deleting = None
    BY <1>2 DEF Log, Calls
  <2>2. parent[o] \in Objects
    BY <2>1 DEF Shape, Getters
  <2>3. shut[parent[o]] = "no" /\ dead' = dead \cup StreamUse(parent[o])
    BY <1>2 DEF Log
  <2>4. dead' = dead
    BY <2>1, <2>2, <2>3, StreamThere
  <2> QED
    BY <1>2, <2>4, QuietKeeps DEF Log, providerVars, TypeOK
<1>3. CASE EndSpan(o)
  <2>1. span[o] \in Objects /\ kind[span[o]] = "span" /\ deleting = None
    BY <1>3 DEF EndSpan, Calls, Shape
  <2> QED
    BY <1>3, <2>1, SpanEndsQuietly, QuietKeeps DEF EndSpan, providerVars, TypeOK
<1>4. CASE Activate(o)
  <2>1. /\ held' = held /\ active' = o /\ kind[o] = "span" /\ Reachable(o)
        /\ UNCHANGED <<objectVars, collectorVars, providerVars, spanState, dead>>
    BY <1>4 DEF Activate, Calls
  <2>2. \A r \in Roots' : r \in Objects /\ Reachable(r)
    BY <2>1, RootsReachable DEF Roots
  <2>3. ActiveIsSpan'
    BY <2>1 DEF ActiveIsSpan, objectVars
  <2> QED
    BY <2>1, <2>2, <2>3, RootsKeep DEF TypeOK
<1>5. CASE Flush(o)
  BY <1>5, ReportKeeps DEF Flush, Calls
<1>6. CASE Shutdown(o)
  BY <1>6, ShutdownKeeps
<1>7. CASE Forget(o) \/ Deactivate
  <2>1. /\ held' \subseteq held /\ (active' = active \/ active' = None)
        /\ UNCHANGED <<objectVars, collectorVars, providerVars, spanState, dead>>
    BY <1>7 DEF Forget, Deactivate
  <2>2. \A r \in Roots' : r \in Objects /\ Reachable(r)
    BY <2>1, RootsReachable DEF Roots
  <2>3. ActiveIsSpan'
    BY <2>1 DEF ActiveIsSpan, objectVars
  <2> QED
    BY <2>1, <2>2, <2>3, RootsKeep DEF TypeOK
<1> QED
  BY <1>1, <1>2, <1>3, <1>4, <1>5, <1>6, <1>7 DEF Uses

-----------------------------------------------------------------------------
(* The collector and the finalizers *)

\* What waits for its finalizer is out of R code's reach.
LEMMA CollectKeeps ==
    ASSUME IInv, NEW found \in SUBSET Garbage, Collect(found)
    PROVE  IInv'
<1> USE DEF IInv
<1>1. /\ ready' = ready \cup found
      /\ UNCHANGED <<objectVars, rootVars, program, order, deleting, exited,
                     providerVars, spanState, dead>>
  BY DEF Collect
<1>2. \A o \in found : o \in Objects /\ address[o] = "set" /\ ~Reachable(o)
  BY DEF Garbage, WithFinalizer
<1> USE DEF objectVars, rootVars, providerVars
<1>3. TypeOK' /\ Shape' /\ ActiveIsSpan' /\ StreamsLast' /\ UsesLiveObjects'
  BY <1>1, <1>2 DEF TypeOK, Shape, ActiveIsSpan, StreamsLast, UsesLiveObjects,
                    ReportsFromDestructor
<1>4. \A o : Reachable(o)' <=> Reachable(o)
  BY <1>1 DEF Reachable, Roots, RefersTo
<1>5. ReachableLive'
  BY <1>1, <1>2, <1>4 DEF ReachableLive
<1> QED
  BY <1>3, <1>5

\* At exit nothing is reachable any more.
LEMMA ExitKeeps ==
    ASSUME IInv, Exit
    PROVE  IInv'
<1> USE DEF IInv
<1>1. /\ ready' \subseteq {o \in Objects : address'[o] = "set"}
      /\ ready \subseteq ready' /\ held' = {} /\ active' = None
      /\ exited' = TRUE
      /\ UNCHANGED <<objectVars, program, order, deleting, providerVars,
                     spanState, dead>>
  BY DEF Exit, WithFinalizer, TypeOK, objectVars
<1> USE DEF objectVars, providerVars
<1>2. TypeOK' /\ Shape' /\ ActiveIsSpan' /\ StreamsLast' /\ UsesLiveObjects'
  BY <1>1 DEF TypeOK, Shape, ActiveIsSpan, StreamsLast, UsesLiveObjects,
              ReportsFromDestructor
<1>3. ReachableLive'
  BY <1>1 DEF ReachableLive, Reachable, Roots
<1> QED
  BY <1>2, <1>3

\* The finalizer of an object, which was not reachable, changes no other.
LEMMA ClearedKeeps ==
    ASSUME IInv, NEW o \in ready, Cleared(o), UNCHANGED stream,
           deleting' = None, deleting = None \/ deleting = o,
           shut' = shut \/ shut' = [shut EXCEPT ![o] = IF @ = "no"
                                                       THEN "by_finalizer" ELSE @],
           deleting = o => shut' # shut \/ shut[o] # "no",
           unreported' \in [Objects -> BOOLEAN],
           spanState' \in
               [Objects -> {"none", "recording", "exported", "dropped"}],
           dead' \subseteq {"stream", "struct"} \X Objects,
           \A use \in dead' : use[1] = "stream" /\ ReportsFromDestructor(use[2])
    PROVE  IInv'
<1> USE DEF IInv
<1>1. /\ o \in Objects /\ address[o] = "set"
      /\ address' = [address EXCEPT ![o] = "null"]
      /\ ready' = ready \ {o}
      /\ UNCHANGED <<kind, parent, span, rootVars, program, order, exited>>
  BY DEF Cleared, TypeOK
<1> USE DEF rootVars
<1>2. shut' \in [Objects -> {"no", "by_user", "by_finalizer"}]
  BY DEF TypeOK
<1>3. address' \in [Objects -> {"set", "null"}]
      /\ ready' \subseteq {x \in Objects : address'[x] = "set"}
  BY <1>1 DEF TypeOK
<1>4. TypeOK'
  BY <1>1, <1>2, <1>3 DEF TypeOK
<1>5. Shape' /\ ActiveIsSpan'
  BY <1>1 DEF TypeOK, Shape, ActiveIsSpan
<1>6. ReachableLive'
  <2>1. \A x : Reachable(x)' <=> Reachable(x)
    BY <1>1 DEF Reachable, Roots, RefersTo
  <2>2. ~Reachable(o)
    BY <1>1 DEF ReachableLive
  <2> QED
    BY <1>1, <2>1, <2>2 DEF ReachableLive, TypeOK
<1>7. ASSUME NEW p \in Objects, stream'[p] = "destroyed"
      PROVE  address'[p] = "null" /\ shut'[p] # "no"
  <2>1. CASE p = o
    <3>1. deleting = o
      BY <1>1, <1>7, <2>1 DEF StreamsLast
    <3>2. shut'[o] # "no"
      BY <1>1, <3>1 DEF TypeOK
    <3> QED
      BY <1>1, <2>1, <3>2 DEF TypeOK
  <2>2. CASE p # o
    <3>1. address[p] = "null" /\ shut[p] # "no"
      BY <1>1, <1>7, <2>2 DEF StreamsLast, Objects, None
    <3> QED
      BY <1>1, <2>2, <3>1 DEF TypeOK
  <2> QED
    BY <2>1, <2>2
<1>8. StreamsLast'
  BY <1>7 DEF StreamsLast
<1>9. ASSUME NEW use \in dead'
      PROVE  use[1] = "stream" /\ ReportsFromDestructor(use[2])'
  <2>1. use[2] \in Objects /\ use[1] = "stream" /\ ReportsFromDestructor(use[2])
    OBVIOUS
  <2> QED
    BY <1>1, <2>1 DEF ReportsFromDestructor, TypeOK
<1>10. UsesLiveObjects'
  BY <1>9 DEF UsesLiveObjects
<1> QED
  BY <1>4, <1>5, <1>6, <1>8, <1>10

\* Every finalizer keeps the invariant.
LEMMA FinalizesKeep ==
    ASSUME IInv, NEW o \in Objects, Finalizes(o)
    PROVE  IInv'
<1> USE DEF IInv
<1>0. dead \subseteq {"stream", "struct"} \X Objects
      /\ \A use \in dead : use[1] = "stream" /\ ReportsFromDestructor(use[2])
  BY DEF TypeOK, UsesLiveObjects
<1>1. CASE FinalizeOther(o)
  <2>1. /\ o \in ready /\ deleting = None /\ Cleared(o)
        /\ UNCHANGED <<deleting, providerVars, spanState, dead>>
    BY <1>1 DEF FinalizeOther, Runs
  <2> QED
    BY <1>0, <2>1, ClearedKeeps DEF providerVars, TypeOK, Objects, None
<1>2. CASE FinalizeSpan(o)
  <2>1. /\ o \in ready /\ deleting = None /\ Cleared(o) /\ kind[o] = "span"
        /\ UNCHANGED <<deleting, providerVars>>
        /\ UNCHANGED <<spanState, dead>> \/ SpanEnds(span[o])
    BY <1>2 DEF FinalizeSpan, Runs
  <2>2. span[o] \in Objects /\ kind[span[o]] = "span"
    BY <2>1 DEF Shape
  <2>3. dead' = dead /\ spanState' \in
                 [Objects -> {"none", "recording", "exported", "dropped"}]
    BY <2>1, <2>2, SpanEndsQuietly DEF TypeOK
  <2> QED
    BY <1>0, <2>1, <2>3, ClearedKeeps DEF providerVars, TypeOK, Objects, None
<1>3. CASE FinalizeProviderStream(o)
  <2>1. /\ o \in ready /\ deleting = None /\ deleting' = o
        /\ kind[o] \in Providers
        /\ stream' = [stream EXCEPT ![o] = IF @ = "open" THEN "destroyed" ELSE @]
        /\ UNCHANGED <<objectVars, rootVars, program, order, ready, exited, shut,
                       unreported, spanState, dead>>
    BY <1>3 DEF FinalizeProviderStream, Runs
  <2> USE DEF objectVars, rootVars
  <2>2. TypeOK' /\ ActiveIsSpan'
    BY <2>1 DEF TypeOK, ActiveIsSpan
  <2>3. kind[o] # "none" /\ address[o] = "set"
    BY <2>1 DEF Providers, TypeOK
  <2>4. Shape'
    BY <2>1, <2>3 DEF Shape, TypeOK
  <2>5. ReachableLive'
    BY <2>1 DEF ReachableLive, Reachable, Roots, RefersTo
  <2>6. StreamsLast'
    BY <2>1 DEF StreamsLast, TypeOK, Objects, None
  <2>7. UsesLiveObjects'
    BY <1>0, <2>1 DEF UsesLiveObjects, ReportsFromDestructor, TypeOK
  <2> QED
    BY <2>2, <2>4, <2>5, <2>6, <2>7
<1>4. CASE FinalizeProvider(o)
  <2>1. /\ deleting = o /\ o \in ready /\ deleting' = None /\ Cleared(o)
        /\ LastReport(o)
        /\ shut' = [shut EXCEPT ![o] = IF @ = "no" THEN "by_finalizer" ELSE @]
        /\ UNCHANGED <<stream, spanState>>
    BY <1>4 DEF FinalizeProvider, TypeOK, Objects, None
  <2>2. /\ unreported' \in [Objects -> BOOLEAN]
        /\ dead' \subseteq {"stream", "struct"} \X Objects
        /\ \A use \in dead' : use[1] = "stream" /\ ReportsFromDestructor(use[2])
    <3>1. CASE kind[o] = "meter_provider"
      BY <2>1, <3>1, ReportUses DEF LastReport
    <3>2. CASE kind[o] # "meter_provider"
      BY <1>0, <2>1, <3>2 DEF LastReport, TypeOK
    <3> QED
      BY <3>1, <3>2
  <2>3. shut[o] = "no" => shut'[o] # shut[o]
    BY <2>1 DEF TypeOK
  <2> QED
    BY <2>1, <2>2, <2>3, ClearedKeeps DEF TypeOK
<1> QED
  BY <1>1, <1>2, <1>3, <1>4 DEF Finalizes

-----------------------------------------------------------------------------
(* The theorems *)

\* The invariant holds in every behaviour.
LEMMA InvariantCorrect == Spec => []IInv
<1>1. Init => IInv
  <2> SUFFICES ASSUME Init PROVE IInv
    OBVIOUS
  <2>1. TypeOK
    BY DEF Init, TypeOK, Kinds
  <2>2. Shape
    BY DEF Init, Shape, Getters, Providers
  <2>3. ActiveIsSpan /\ ReachableLive
    BY DEF Init, ActiveIsSpan, ReachableLive, Reachable, Roots
  <2>4. StreamsLast /\ UsesLiveObjects
    BY DEF Init, StreamsLast, UsesLiveObjects
  <2> QED
    BY <2>1, <2>2, <2>3, <2>4 DEF IInv
<1>2. IInv /\ [Next]_vars => IInv'
  <2> SUFFICES ASSUME IInv, [Next]_vars PROVE IInv'
    OBVIOUS
  <2>1. ASSUME NEW p \in Objects, PeriodicReport(p) PROVE IInv'
    BY <2>1, ReportKeeps DEF PeriodicReport
  <2>2. CASE Deactivate
    <3>1. active \in Objects
      BY <2>2 DEF Deactivate, IInv, TypeOK
    <3> QED
      BY <2>2, <3>1, UsesKeep
  <2>3. CASE UNCHANGED vars \/ Gone
    BY <2>3, QuietKeeps DEF Gone, vars, providerVars, IInv, TypeOK
  <2> QED
    BY <2>1, <2>2, <2>3, CreatesKeep, UsesKeep, CollectKeeps, ExitKeeps,
       FinalizesKeep DEF Next
<1> QED
  BY <1>1, <1>2, PTL DEF Spec

\* A finalizer runs once for every object: only what has a struct waits for one.
THEOREM TypeCorrect == Spec => []TypeOK
<1>1. IInv => TypeOK
  BY DEF IInv
<1> QED
  BY <1>1, InvariantCorrect, PTL

\* Whatever R code creates, calls and forgets, whenever its collector runs and
\* in whatever order it runs the finalizers, nothing is used after its
\* destruction, except by the destructor of a meter provider that writes to a
\* file and was not shut down.
THEOREM UsesLiveObjectsCorrect == Spec => []UsesLiveObjects
<1>1. IInv => UsesLiveObjects
  BY DEF IInv
<1> QED
  BY <1>1, InvariantCorrect, PTL

-----------------------------------------------------------------------------
(* Exit *)

\* What there is before an object is created, and what meters come from.
Origins ==
    \A o \in Objects :
        /\ kind[o] = "none" => shut[o] = "no" /\ ~unreported[o]
        /\ kind[o] # "span" => span[o] = None
        /\ kind[o] = "meter" => kind[parent[o]] = "meter_provider"

\* At exit, everything that has a struct waits for its finalizer. A span that
\* has not ended has an object, and the provider of measurements that were not
\* reported has not been deleted.
ExitInv ==
    /\ Origins
    /\ exited => \A o \in Objects : address[o] = "set" => o \in ready
    /\ \A s \in Objects : spanState[s] = "recording" =>
           \E h \in Objects : address[h] = "set" /\ span[h] = s
    /\ \A p \in Objects : unreported[p] =>
           kind[p] = "meter_provider" /\ (shut[p] = "by_user" \/ address[p] = "set")
    /\ \A p \in Objects : address[p] = "set" => shut[p] # "by_finalizer"
    /\ deleting # None => kind[deleting] \in Providers

\* New objects.
LEMMA CreatesExit ==
    ASSUME IInv, ExitInv, NEW o \in Objects, Creates(o)
    PROVE  ExitInv'
<1> USE DEF IInv
<1>1. ASSUME NEW k \in Kinds \ {"none"}, NEW s \in Objects \cup {None},
             NEW p \in Objects \cup {None}, Create(o, k, p, s),
             UNCHANGED <<shut, unreported>>, ~exited,
             \/ spanState' = spanState
             \/ s = o /\ spanState' = [spanState EXCEPT ![o] = "recording"],
             k # "span" => s = None,
             k = "meter" => p \in Objects /\ kind[p] = "meter_provider"
      PROVE  ExitInv'
  <2>1. /\ kind[o] = "none" /\ address[o] = "null"
        /\ kind' = [kind EXCEPT ![o] = k] /\ parent' = [parent EXCEPT ![o] = p]
        /\ address' = [address EXCEPT ![o] = "set"]
        /\ span' = [span EXCEPT ![o] = s] /\ ~exited'
    BY <1>1 DEF Create, collectorVars, Shape
  <2>2. ASSUME NEW x \in Objects, x # o
        PROVE  /\ kind'[x] = kind[x] /\ parent'[x] = parent[x]
               /\ address'[x] = address[x] /\ span'[x] = span[x]
               /\ spanState'[x] = spanState[x]
    BY <1>1, <2>1, <2>2 DEF TypeOK
  <2>3. /\ kind'[o] = k /\ parent'[o] = p /\ address'[o] = "set" /\ span'[o] = s
        /\ spanState'[o] = "recording" => s = o \/ spanState[o] = "recording"
    BY <1>1, <2>1 DEF TypeOK
  <2>4. ASSUME NEW x \in Objects, x # o, kind[x] = "meter"
        PROVE  parent[x] \in Objects /\ parent[x] # o
    BY <2>1, <2>4 DEF Shape, Getters, Providers
  <2>5. Origins'
    BY <1>1, <2>1, <2>2, <2>3, <2>4 DEF ExitInv, Origins
  <2>6. ASSUME NEW x \in Objects, spanState'[x] = "recording"
        PROVE  \E h \in Objects : address'[h] = "set" /\ span'[h] = x
    <3>1. CASE spanState[x] = "recording"
      <4>1. PICK h \in Objects : address[h] = "set" /\ span[h] = x
        BY <3>1 DEF ExitInv
      <4> QED
        BY <2>1, <2>2, <4>1
    <3>2. CASE x = o /\ s = o
      BY <2>3, <3>2
    <3> QED
      BY <2>2, <2>3, <2>6, <3>1, <3>2
  <2>7. \A x \in Objects : unreported'[x] =>
            kind'[x] = "meter_provider"
            /\ (shut'[x] = "by_user" \/ address'[x] = "set")
    BY <1>1, <2>1, <2>2 DEF ExitInv, Origins
  <2>8. \A x \in Objects : address'[x] = "set" => shut'[x] # "by_finalizer"
    BY <1>1, <2>1, <2>2 DEF ExitInv, Origins
  <2>9. deleting' # None => kind'[deleting'] \in Providers
    BY <1>1, <2>1, <2>2 DEF Create, collectorVars, ExitInv, TypeOK, Providers
  <2> QED
    BY <2>1, <2>5, <2>6, <2>7, <2>8, <2>9 DEF ExitInv
<1>2. ASSUME NEW k \in Providers, NEW out \in {"none", "open"},
             CreateProvider(o, k, out)
      PROVE  ExitInv'
  <2>1. k \in Kinds \ {"none"} /\ k # "span" /\ k # "meter"
    BY DEF Kinds, Providers
  <2> QED
    BY <1>1, <1>2, <2>1 DEF CreateProvider
<1>3. ASSUME NEW p \in Objects, Get(o, p) PROVE ExitInv'
  <2>1. /\ kind[p] \in Providers
        /\ GetterOf[kind[p]] \in Kinds \ {"none"} /\ GetterOf[kind[p]] # "span"
        /\ GetterOf[kind[p]] = "meter" => kind[p] = "meter_provider"
    BY <1>3 DEF Get, Calls, GetterOf, Kinds, Getters, Providers
  <2> QED
    BY <1>1, <1>3, <2>1 DEF Get, Calls, providerVars
<1>4. "span" \in Kinds \ {"none"} /\ "instrument" \in Kinds \ {"none"}
  BY DEF Kinds
<1>5. ASSUME NEW t \in Objects, StartSpan(o, t) PROVE ExitInv'
  BY <1>1, <1>4, <1>5 DEF StartSpan, Calls, providerVars
<1>6. ASSUME NEW t \in Objects, GetActiveSpan(o, t) PROVE ExitInv'
  <2>1. span[active] \in Objects \cup {None}
    BY <1>6 DEF GetActiveSpan, TypeOK
  <2> QED
    BY <1>1, <1>4, <1>6, <2>1 DEF GetActiveSpan, Calls, providerVars
<1>7. ASSUME NEW m \in Objects, CreateInstrument(o, m) PROVE ExitInv'
  BY <1>1, <1>4, <1>7 DEF CreateInstrument, Calls, providerVars
<1> QED
  BY <1>2, <1>3, <1>5, <1>6, <1>7 DEF Creates

\* Calls, reports and collections, which leave the objects as they are.
LEMMA OthersExit ==
    ASSUME IInv, ExitInv,
           \/ \E o \in Objects : Uses(o) \/ PeriodicReport(o)
           \/ Deactivate \/ Exit
           \/ \E found \in SUBSET Garbage : Collect(found)
    PROVE  ExitInv'
<1> USE DEF IInv
<1>1. /\ UNCHANGED <<objectVars, deleting>>
      /\ exited' => \A o \in Objects : address[o] = "set" => o \in ready'
  BY DEF Uses, Measure, Log, EndSpan, Activate, Flush, Shutdown, Forget, Deactivate,
         PeriodicReport, Collect, Exit, WithFinalizer, Calls, collectorVars, ExitInv
<1>2. /\ \A p \in Objects : shut'[p] # shut[p] => shut'[p] = "by_user"
      /\ \A s \in Objects : spanState'[s] = "recording" => spanState[s] = "recording"
  BY DEF Uses, Measure, Log, EndSpan, SpanEnds, Activate, Flush, Shutdown, Forget,
         Deactivate, PeriodicReport, Collect, Exit, providerVars, TypeOK
<1>3. ASSUME NEW p \in Objects, unreported'[p], ~unreported[p]
      PROVE  kind[p] = "meter_provider" /\ address[p] = "set"
  <2>1. PICK i \in Objects : Measure(i) /\ p = ProviderOf(i)
    BY <1>3 DEF Uses, Measure, Log, EndSpan, SpanEnds, Activate, Flush, Shutdown,
         LastReport, Report, Forget, Deactivate, PeriodicReport, Collect, Exit,
         providerVars, TypeOK
  <2>2. /\ kind[i] = "instrument" /\ Reachable(i)
        /\ parent[i] \in Objects /\ kind[parent[i]] = "meter"
    BY <2>1 DEF Measure, Calls, Shape
  <2>3. /\ p = parent[parent[i]] /\ kind[p] = "meter_provider"
    BY <2>1, <2>2 DEF ProviderOf, ExitInv, Origins, Providers
  <2>4. Reachable(parent[i]) /\ Reachable(p)
    BY <2>2, <2>3, ParentReachable DEF Objects, None
  <2> QED
    BY <2>3, <2>4 DEF ReachableLive
<1>4. \A o \in Objects : kind[o] = "none" => shut'[o] = shut[o]
  BY DEF Uses, Measure, Log, EndSpan, Activate, Flush, Shutdown, Forget, Deactivate,
         PeriodicReport, Collect, Exit, Calls, providerVars, TypeOK, Providers
<1>5. Origins'
  BY <1>1, <1>3, <1>4 DEF ExitInv, Origins, objectVars
<1> QED
  BY <1>1, <1>2, <1>3, <1>5 DEF ExitInv, objectVars

\* Finalizers.
LEMMA FinalizesExit ==
    ASSUME IInv, ExitInv, NEW o \in Objects, Finalizes(o)
    PROVE  ExitInv'
<1> USE DEF IInv
<1>1. CASE FinalizeProviderStream(o)
  BY <1>1 DEF FinalizeProviderStream, objectVars, ExitInv, Origins
<1>2. ASSUME Cleared(o),
             \A p \in Objects : p # o =>
                 shut'[p] = shut[p] /\ unreported'[p] = unreported[p],
             unreported'[o] =>
                 kind[o] = "meter_provider" /\ shut'[o] = "by_user",
             kind[o] # "none", deleting' = None,
             \A s \in Objects : spanState'[s] = "recording" =>
                 /\ spanState[s] = "recording"
                 /\ \E h \in Objects \ {o} : address[h] = "set" /\ span[h] = s
      PROVE  ExitInv'
  <2>1. /\ address' = [address EXCEPT ![o] = "null"] /\ ready' = ready \ {o}
        /\ UNCHANGED <<kind, parent, span, exited>>
    BY <1>2 DEF Cleared
  <2>2. Origins'
    BY <1>2, <2>1 DEF ExitInv, Origins
  <2>3. \A s \in Objects : spanState'[s] = "recording" =>
           \E h \in Objects : address'[h] = "set" /\ span'[h] = s
    BY <1>2, <2>1 DEF TypeOK
  <2> QED
    BY <1>2, <2>1, <2>2, <2>3 DEF ExitInv, TypeOK
<1>3. ASSUME kind[o] # "span", NEW s \in Objects, spanState[s] = "recording"
      PROVE  \E h \in Objects \ {o} : address[h] = "set" /\ span[h] = s
  <2>1. PICK h \in Objects : address[h] = "set" /\ span[h] = s
    BY <1>3 DEF ExitInv
  <2>2. h # o
    BY <1>3, <2>1 DEF ExitInv, Origins, Objects, None
  <2> QED
    BY <2>1, <2>2
<1>4. address[o] = "set" => kind[o] # "none" /\ shut[o] # "by_finalizer"
  BY DEF Shape, ExitInv
<1>5. CASE FinalizeOther(o)
  <2>1. /\ Cleared(o) /\ address[o] = "set" /\ kind[o] # "span"
        /\ kind[o] # "meter_provider" /\ deleting' = None
        /\ UNCHANGED <<providerVars, spanState>>
    BY <1>5 DEF FinalizeOther, Runs, TypeOK, Getters
  <2>2. ~unreported[o]
    BY <2>1 DEF ExitInv
  <2> QED
    BY <1>2, <1>3, <1>4, <2>1, <2>2 DEF providerVars
<1>6. CASE FinalizeSpan(o)
  <2>1. /\ Cleared(o) /\ address[o] = "set" /\ kind[o] = "span"
        /\ deleting' = None /\ UNCHANGED providerVars
    BY <1>6 DEF FinalizeSpan, Runs, TypeOK
  <2>2. ~unreported[o]
    BY <2>1 DEF ExitInv
  <2>3. ASSUME NEW s \in Objects, spanState'[s] = "recording"
        PROVE  /\ spanState[s] = "recording"
               /\ \E h \in Objects \ {o} : address[h] = "set" /\ span[h] = s
    <3>1. spanState[s] = "recording"
      BY <1>6, <2>3 DEF FinalizeSpan, SpanEnds, TypeOK
    <3>2. PICK h \in Objects : address[h] = "set" /\ span[h] = s
      BY <3>1 DEF ExitInv
    <3>3. CASE h = o
      <4>1. \E g \in Objects \ {o} : address[g] = "set" /\ span[g] = span[o]
        BY <1>6, <2>3, <3>1, <3>2, <3>3 DEF FinalizeSpan, SpanEnds, TypeOK
      <4> QED
        BY <3>1, <3>2, <3>3, <4>1
    <3> QED
      BY <3>1, <3>2, <3>3
  <2> QED
    BY <1>2, <1>4, <2>1, <2>2, <2>3 DEF providerVars
<1>7. CASE FinalizeProvider(o)
  <2>1. /\ Cleared(o) /\ o \in ready /\ address[o] = "set"
        /\ shut' = [shut EXCEPT ![o] = IF @ = "no" THEN "by_finalizer" ELSE @]
        /\ deleting' = None /\ UNCHANGED spanState
    BY <1>7 DEF FinalizeProvider, TypeOK, Objects, None
  <2>2. kind[o] \in Providers
    BY <1>7 DEF FinalizeProvider, ExitInv, Objects, None
  <2>3. \A p \in Objects : p # o =>
            shut'[p] = shut[p] /\ unreported'[p] = unreported[p]
    BY <1>7, <2>1 DEF FinalizeProvider, LastReport, Report, TypeOK
  <2>4. ASSUME unreported'[o]
        PROVE  kind[o] = "meter_provider" /\ shut'[o] = "by_user"
    <3>1. CASE kind[o] = "meter_provider"
      <4>1. unreported' = [unreported EXCEPT ![o] = @ /\ shut[o] # "no"]
        BY <1>7, <3>1 DEF FinalizeProvider, LastReport, Report
      <4>2. shut[o] # "no"
        BY <2>4, <4>1, Zenon DEF TypeOK
      <4>3. shut[o] = "by_user"
        BY <1>4, <2>1, <4>2 DEF TypeOK
      <4> QED
        BY <2>1, <3>1, <4>3 DEF TypeOK
    <3>2. CASE kind[o] # "meter_provider"
      <4>1. unreported' = unreported
        BY <1>7, <3>2 DEF FinalizeProvider, LastReport
      <4> QED
        BY <2>4, <3>2, <4>1 DEF ExitInv
    <3> QED
      BY <3>1, <3>2
  <2>5. kind[o] # "span" /\ kind[o] # "none"
    BY <2>2 DEF Providers
  <2> QED
    BY <1>2, <1>3, <2>1, <2>3, <2>4, <2>5
<1> QED
  BY <1>1, <1>5, <1>6, <1>7 DEF Finalizes

\* The invariant of the exit holds in every behaviour.
LEMMA ExitInvCorrect == Spec => []ExitInv
<1>1. Init => ExitInv
  BY DEF Init, ExitInv, Origins, None
<1>2. IInv /\ ExitInv /\ [Next]_vars => ExitInv'
  <2> SUFFICES ASSUME IInv, ExitInv, [Next]_vars PROVE ExitInv'
    OBVIOUS
  <2>1. CASE UNCHANGED vars \/ Gone
    BY <2>1 DEF Gone, vars, objectVars, collectorVars, providerVars, ExitInv, Origins
  <2> QED
    BY <2>1, CreatesExit, OthersExit, FinalizesExit DEF Next
<1> QED
  BY <1>1, <1>2, InvariantCorrect, PTL DEF Spec

\* At exit every struct is deleted, every span ends and every measurement is
\* reported, unless it came after a shutdown(), in whatever order the finalizers
\* run.
THEOREM ExitFinishesCorrect == Spec => []ExitFinishes
<1>1. IInv /\ ExitInv => ExitFinishes
  BY DEF IInv, TypeOK, ExitInv, ExitFinishes
<1> QED
  BY <1>1, InvariantCorrect, ExitInvCorrect, PTL

-----------------------------------------------------------------------------
(* Spans *)

\* Objects are created in order.
InOrder == \A o \in Objects : kind[o] # "none" =>
               \A q \in 1..(o - 1) : kind[q] # "none"

\* If the newest objects are finalized first, what an object with a struct comes
\* from is older, and has a struct as well; if the object does not wait for its
\* finalizer, nor does what it comes from.
ParentsLast ==
    \A o \in Objects : address[o] = "set" /\ parent[o] # None =>
        /\ parent[o] < o /\ address[parent[o]] = "set"
        /\ o \notin ready => parent[o] \notin ready

NewestInv ==
    /\ InOrder
    /\ order = "newest" => ParentsLast
    /\ order = "newest" /\ deleting # None => \A r \in ready : r <= deleting

\* A new object is newer than what it comes from, which is reachable.
LEMMA CreatesNewest ==
    ASSUME IInv, NewestInv, NEW o \in Objects, Creates(o)
    PROVE  NewestInv'
<1> USE DEF IInv
<1>1. ASSUME NEW k, NEW s, NEW p \in Objects \cup {None}, Create(o, k, p, s),
             p = None \/ Reachable(p), k # "none", deleting = None
      PROVE  NewestInv'
  <2>1. /\ kind[o] = "none" /\ address[o] = "null"
        /\ \A q \in 1..(o - 1) : kind[q] # "none"
        /\ kind' = [kind EXCEPT ![o] = k] /\ parent' = [parent EXCEPT ![o] = p]
        /\ address' = [address EXCEPT ![o] = "set"]
        /\ ready' = ready /\ order' = order /\ deleting' = None
    BY <1>1 DEF Create, collectorVars, Shape
  <2>2. InOrder'
    BY <1>1, <2>1 DEF InOrder, NewestInv, TypeOK, Objects
  <2>3. ASSUME p # None
        PROVE  p \in Objects /\ address[p] = "set" /\ p \notin ready /\ p # o
    BY <1>1, <2>1, <2>3 DEF ReachableLive
  <2>4. p # None => p < o
    <3> SUFFICES ASSUME p # None PROVE ~(o \in 1..(p - 1)) /\ p # o
      BY <2>3 DEF Objects
    <3>1. kind[p] # "none"
      BY <2>3 DEF Shape
    <3> QED
      BY <2>1, <2>3, <3>1 DEF NewestInv, InOrder
  <2>5. ASSUME order = "newest", NEW x \in Objects, address'[x] = "set",
               parent'[x] # None
        PROVE  /\ parent'[x] < x /\ address'[parent'[x]] = "set"
               /\ x \notin ready' => parent'[x] \notin ready'
    <3>1. CASE x = o
      BY <2>1, <2>3, <2>4, <2>5, <3>1 DEF TypeOK
    <3>2. CASE x # o
      <4>1. address[x] = "set" /\ parent'[x] = parent[x] /\ parent[x] # None
        BY <2>1, <2>5, <3>2 DEF TypeOK
      <4>2. /\ parent[x] < x /\ address[parent[x]] = "set"
            /\ x \notin ready => parent[x] \notin ready
        BY <2>5, <4>1 DEF NewestInv, ParentsLast
      <4>3. parent[x] \in Objects /\ parent[x] # o
        BY <2>1, <4>1, <4>2 DEF TypeOK
      <4> QED
        BY <2>1, <4>1, <4>2, <4>3 DEF TypeOK
    <3> QED
      BY <3>1, <3>2
  <2> QED
    BY <2>1, <2>2, <2>5 DEF NewestInv, ParentsLast
<1>2. \A k \in Providers : k # "none" /\ GetterOf[k] # "none"
  BY DEF Providers, GetterOf
<1> QED
  BY <1>1, <1>2 DEF Creates, CreateProvider, Get, StartSpan, GetActiveSpan,
     CreateInstrument, Calls

\* What the other steps do to pointers and to what waits for a finalizer.
LEMMA OthersNewest ==
    ASSUME IInv, NewestInv,
           \/ \E o \in Objects : Uses(o) \/ PeriodicReport(o)
           \/ Deactivate \/ Exit \/ Gone \/ UNCHANGED vars
           \/ \E found \in SUBSET Garbage : Collect(found)
    PROVE  NewestInv'
<1> USE DEF IInv
<1>1. /\ UNCHANGED <<objectVars, order, deleting>>
      /\ deleting # None => ready' = ready
  BY DEF Uses, Measure, Log, EndSpan, Activate, Flush, Shutdown, Forget, Deactivate,
         PeriodicReport, Collect, Exit, Gone, vars, collectorVars, Calls
<1>2. \/ ready' = ready
      \/ \A o \in Objects : address[o] = "set" => o \in ready'
      \/ \E found \in SUBSET WithFinalizer :
             /\ ready' = ready \cup found
             /\ \A o \in WithFinalizer \ found : RefersTo(o) \cap found = {}
  BY DEF Uses, Measure, Log, EndSpan, Activate, Flush, Shutdown, Forget, Deactivate,
         PeriodicReport, Collect, Garbage, Exit, WithFinalizer, Gone, vars,
         collectorVars
<1>3. ASSUME ParentsLast, NEW o \in Objects, address[o] = "set", parent[o] # None,
             o \notin ready'
      PROVE  parent[o] \notin ready'
  <2>1. CASE ready' = ready
    BY <1>3, <2>1 DEF ParentsLast
  <2>2. ASSUME NEW found \in SUBSET WithFinalizer, ready' = ready \cup found,
               \A x \in WithFinalizer \ found : RefersTo(x) \cap found = {}
        PROVE  parent[o] \notin ready'
    <3>1. parent[o] \notin ready /\ o \notin ready /\ o \notin found
      BY <1>3, <2>2 DEF ParentsLast
    <3>2. o \in WithFinalizer \ found /\ parent[o] \in RefersTo(o)
      BY <1>3, <3>1 DEF WithFinalizer, RefersTo
    <3> QED
      BY <2>2, <3>1, <3>2
  <2> QED
    BY <1>2, <1>3, <2>1, <2>2
<1> QED
  BY <1>1, <1>3 DEF NewestInv, InOrder, ParentsLast, objectVars

\* The newest of the waiting objects is the parent of none.
LEMMA FinalizesNewest ==
    ASSUME IInv, NewestInv, NEW o \in Objects, Finalizes(o)
    PROVE  NewestInv'
<1> USE DEF IInv
<1>1. CASE FinalizeProviderStream(o)
  BY <1>1 DEF FinalizeProviderStream, Runs, objectVars, NewestInv, InOrder,
              ParentsLast
<1>2. CASE /\ Cleared(o) /\ o \in ready
           /\ order = "newest" => \A r \in ready : r <= o
           /\ deleting' = None
  <2>1. /\ address' = [address EXCEPT ![o] = "null"] /\ ready' = ready \ {o}
        /\ UNCHANGED <<kind, parent, order>>
    BY <1>2 DEF Cleared
  <2>3. ASSUME order = "newest", ParentsLast, NEW x \in Objects,
               address'[x] = "set", parent[x] # None
        PROVE  /\ parent[x] < x /\ address'[parent[x]] = "set"
               /\ x \notin ready' => parent[x] \notin ready'
    <3>1. x # o /\ address[x] = "set"
      BY <2>1, <2>3 DEF TypeOK
    <3>2. /\ parent[x] \in Objects /\ parent[x] < x /\ address[parent[x]] = "set"
          /\ x \notin ready => parent[x] \notin ready
      BY <2>3, <3>1 DEF ParentsLast, TypeOK
    <3>3. parent[x] # o
      BY <1>2, <2>3, <3>1, <3>2 DEF Objects, TypeOK
    <3> QED
      BY <2>1, <3>1, <3>2, <3>3 DEF TypeOK
  <2> QED
    BY <1>2, <2>1, <2>3 DEF NewestInv, InOrder, ParentsLast
<1>3. CASE FinalizeOther(o) \/ FinalizeSpan(o)
  BY <1>2, <1>3 DEF FinalizeOther, FinalizeSpan, Runs
<1>4. CASE FinalizeProvider(o)
  BY <1>2, <1>4 DEF FinalizeProvider, NewestInv, TypeOK, Objects, None
<1> QED
  BY <1>1, <1>3, <1>4 DEF Finalizes

\* The provider of an object with a struct is there, so if it is shut down, then
\* by R code.
LEMMA ProviderThere ==
    ASSUME IInv, ExitInv, NewestInv, order = "newest", NEW h \in Objects,
           kind[h] = "span", address[h] = "set"
    PROVE  /\ ProviderOf(h) \in Objects /\ ProviderOf(h) = parent[parent[h]]
           /\ shut[ProviderOf(h)] \in {"no", "by_user"}
<1> USE DEF IInv
<1>1. /\ parent[h] \in Objects /\ kind[parent[h]] = "tracer"
      /\ parent[parent[h]] \in Objects /\ ProviderOf(h) = parent[parent[h]]
  BY DEF Shape, ProviderOf, Getters, Providers
<1>2. address[parent[h]] = "set"
  BY <1>1 DEF NewestInv, ParentsLast, Objects, None
<1>3. address[parent[parent[h]]] = "set"
  BY <1>1, <1>2 DEF NewestInv, ParentsLast, Objects, None
<1> QED
  BY <1>1, <1>3 DEF ExitInv, TypeOK

\* A span is there before it is dropped.
SpansInv ==
    /\ SpansDelivered
    /\ \A s \in Objects : spanState[s] # "none" => kind[s] = "span"

\* A step that drops no span, and changes no object that there is, drops none.
LEMMA SpansStay ==
    ASSUME IInv, ExitInv, SpansInv, order' = order,
           \A x \in Objects : kind[x] # "none" =>
               /\ kind'[x] = kind[x] /\ parent'[x] = parent[x]
               /\ span'[x] = span[x],
           \A p \in Objects : shut[p] = "by_user" => shut'[p] = "by_user",
           \A s \in Objects : spanState'[s] # "none" => kind'[s] = "span",
           \A s \in Objects : spanState'[s] = "dropped" /\ order = "newest" =>
               \/ spanState[s] = "dropped"
               \/ kind[s] = "span" /\ shut[ProviderOf(s)] = "by_user"
               \/ kind[s] = "span" /\ HasForeignObject(s)
    PROVE  SpansInv'
<1> USE DEF IInv
<1>1. ASSUME NEW x \in Objects, kind[x] = "span"
      PROVE  ProviderOf(x)' = ProviderOf(x) /\ ProviderOf(x) \in Objects
  <2>1. /\ parent[x] \in Objects /\ kind[parent[x]] = "tracer"
        /\ parent[parent[x]] \in Objects
    BY <1>1 DEF Shape, Getters
  <2>2. /\ parent'[x] = parent[x] /\ kind'[parent[x]] = "tracer"
        /\ parent'[parent[x]] = parent[parent[x]]
    BY <1>1, <2>1
  <2> QED
    BY <2>1, <2>2 DEF ProviderOf, Providers
<1>2. ASSUME NEW s \in Objects, spanState'[s] = "dropped", order' = "newest"
      PROVE  shut'[ProviderOf(s)'] = "by_user" \/ HasForeignObject(s)'
  <2>1. /\ kind[s] = "span"
        /\ shut[ProviderOf(s)] = "by_user" \/ HasForeignObject(s)
    BY <1>2 DEF SpansInv, SpansDelivered
  <2>2. CASE shut[ProviderOf(s)] = "by_user"
    BY <1>1, <2>1, <2>2
  <2>3. CASE HasForeignObject(s)
    <3>1. PICK h \in Objects : span[h] = s /\ ProviderOf(h) # ProviderOf(s)
      BY <2>3 DEF HasForeignObject
    <3>2. kind[h] = "span"
      BY <3>1 DEF ExitInv, Origins, Objects, None
    <3> QED
      BY <1>1, <2>1, <3>1, <3>2 DEF HasForeignObject
  <2> QED
    BY <2>1, <2>2, <2>3
<1> QED
  BY <1>2 DEF SpansInv, SpansDelivered

\* The only steps that drop a span are the end of a span, by R code or by the
\* finalizer of its last object.
LEMMA SpansStep ==
    ASSUME IInv, ExitInv, NewestInv, SpansInv, Next
    PROVE  SpansInv'
<1> USE DEF IInv
<1>1. ASSUME NEW h \in Objects, kind[h] = "span", address[h] = "set",
             SpanEnds(span[h]), UNCHANGED <<kind, parent, span, order, shut>>
      PROVE  SpansInv'
  <2> DEFINE s == span[h]
  <2>1. s \in Objects /\ kind[s] = "span"
    BY <1>1 DEF Shape
  <2>2. \A x \in Objects : x # s => spanState'[x] = spanState[x]
    BY <1>1 DEF SpanEnds, TypeOK
  <2>3. ASSUME spanState'[s] = "dropped", spanState[s] # "dropped",
               order = "newest"
        PROVE  shut[ProviderOf(s)] = "by_user" \/ HasForeignObject(s)
    <3>1. shut[ProviderOf(s)] # "no"
      BY <1>1, <2>1, <2>3 DEF SpanEnds, TypeOK
    <3>2. CASE ProviderOf(h) = ProviderOf(s)
      BY <1>1, <2>3, <3>1, <3>2, ProviderThere
    <3>3. CASE ProviderOf(h) # ProviderOf(s)
      BY <3>3 DEF HasForeignObject
    <3> QED
      BY <3>2, <3>3
  <2>4. \A x \in Objects : spanState'[x] # "none" => kind'[x] = "span"
    BY <1>1, <2>1, <2>2 DEF SpansInv
  <2>5. \A x \in Objects : spanState'[x] = "dropped" /\ order = "newest" =>
            \/ spanState[x] = "dropped"
            \/ kind[x] = "span" /\ shut[ProviderOf(x)] = "by_user"
            \/ kind[x] = "span" /\ HasForeignObject(x)
    BY <2>1, <2>2, <2>3
  <2> HIDE DEF s
  <2> QED
    BY <1>1, <2>4, <2>5, SpansStay
<1>2. ASSUME NEW o \in Objects, NEW k, NEW s, NEW p, Create(o, k, p, s), shut' = shut,
             spanState' = spanState \/
                 (k = "span" /\ spanState' = [spanState EXCEPT ![o] = "recording"])
      PROVE  SpansInv'
  <2>1. /\ kind[o] = "none" /\ kind' = [kind EXCEPT ![o] = k]
        /\ parent' = [parent EXCEPT ![o] = p] /\ span' = [span EXCEPT ![o] = s]
        /\ order' = order
    BY <1>2 DEF Create, collectorVars
  <2>2. ASSUME NEW x \in Objects, x # o
        PROVE  /\ kind'[x] = kind[x] /\ parent'[x] = parent[x]
               /\ span'[x] = span[x] /\ spanState'[x] = spanState[x]
    BY <1>2, <2>1, <2>2 DEF TypeOK
  <2>3. \A x \in Objects : spanState'[x] # "none" => kind'[x] = "span"
    BY <1>2, <2>1, <2>2 DEF SpansInv, TypeOK
  <2>4. \A x \in Objects : spanState'[x] = "dropped" => spanState[x] = "dropped"
    BY <1>2, <2>2 DEF TypeOK
  <2> QED
    BY <1>2, <2>1, <2>2, <2>3, <2>4, SpansStay
<1>3. ASSUME UNCHANGED <<kind, parent, span, order, spanState>>,
             \A p \in Objects : shut[p] = "by_user" => shut'[p] = "by_user"
      PROVE  SpansInv'
  BY <1>3, SpansStay DEF SpansInv
<1>4. ASSUME NEW o \in Objects, Creates(o) PROVE SpansInv'
  BY <1>2, <1>4 DEF Creates, CreateProvider, Get, StartSpan, GetActiveSpan,
     CreateInstrument, providerVars
<1>5. ASSUME NEW o \in Objects, EndSpan(o) PROVE SpansInv'
  BY <1>1, <1>5 DEF EndSpan, Calls, objectVars, collectorVars, providerVars
<1>6. ASSUME NEW o \in Objects, FinalizeSpan(o) PROVE SpansInv'
  <2>1. /\ kind[o] = "span" /\ address[o] = "set"
        /\ UNCHANGED <<kind, parent, span, order, shut>>
    BY <1>6 DEF FinalizeSpan, Runs, Cleared, providerVars, TypeOK
  <2> QED
    BY <1>1, <1>3, <1>6, <2>1 DEF FinalizeSpan
<1>7. ASSUME NEW o \in Objects, Uses(o), ~EndSpan(o) PROVE SpansInv'
  <2>1. UNCHANGED <<kind, parent, span, order, spanState>>
    BY <1>7 DEF Uses, Measure, Log, Activate, Flush, Shutdown, Forget, objectVars,
       collectorVars
  <2>2. \A p \in Objects : shut[p] = "by_user" => shut'[p] = "by_user"
    BY <1>7 DEF Uses, Measure, Log, Activate, Flush, Shutdown, Forget, providerVars,
       TypeOK
  <2> QED
    BY <1>3, <2>1, <2>2
<1>8. ASSUME NEW o \in Objects, Finalizes(o), ~FinalizeSpan(o) PROVE SpansInv'
  <2>1. UNCHANGED <<kind, parent, span, order, spanState>>
    BY <1>8 DEF Finalizes, FinalizeOther, FinalizeProviderStream, FinalizeProvider,
       Cleared, objectVars
  <2>2. \A p \in Objects : shut[p] = "by_user" => shut'[p] = "by_user"
    BY <1>8 DEF Finalizes, FinalizeOther, FinalizeProviderStream, FinalizeProvider,
       providerVars, TypeOK
  <2> QED
    BY <1>3, <2>1, <2>2
<1>9. ASSUME \/ Deactivate \/ Exit \/ Gone
             \/ \E p \in Objects : PeriodicReport(p)
             \/ \E found \in SUBSET Garbage : Collect(found)
      PROVE  SpansInv'
  BY <1>3, <1>9 DEF Deactivate, Exit, Gone, PeriodicReport, Collect, vars,
     objectVars, collectorVars, providerVars
<1> QED
  BY <1>4, <1>5, <1>6, <1>7, <1>8, <1>9 DEF Next

\* If R runs the finalizers of newest objects first, no span is lost: one is only
\* dropped if R code has shut its provider down before it ended, or kept it with
\* an object of another provider.
THEOREM SpansDeliveredCorrect == Spec => []SpansDelivered
<1>1. Init => NewestInv /\ SpansInv
  BY DEF Init, NewestInv, InOrder, ParentsLast, SpansInv, SpansDelivered, None
<1>2. IInv /\ NewestInv /\ [Next]_vars => NewestInv'
  BY CreatesNewest, OthersNewest, FinalizesNewest DEF Next
<1>3. IInv /\ ExitInv /\ NewestInv /\ SpansInv /\ [Next]_vars => SpansInv'
  <2>1. ASSUME SpansInv, UNCHANGED vars PROVE SpansInv'
    BY <2>1 DEF vars, objectVars, collectorVars, providerVars, SpansInv,
       SpansDelivered, HasForeignObject, ProviderOf
  <2> QED
    BY <2>1, SpansStep
<1>4. SpansInv => SpansDelivered
  BY DEF SpansInv
<1> QED
  BY <1>1, <1>2, <1>3, <1>4, InvariantCorrect, ExitInvCorrect, PTL DEF Spec
=============================================================================
