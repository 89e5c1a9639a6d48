--------------------------- MODULE HistogramViews ---------------------------
(***************************************************************************)
(* create_histogram() of R/meter.R, otel_create_histogram_() of            *)
(* src/meter-sdk.cc, and the views of the library it relies on. The        *)
(* library's API takes no bucket boundaries: the code adds a view, which   *)
(* the library finds when it makes the storage of the histogram. Schema    *)
(* URLs are left out; they are compared as versions are.                   *)
(* Names begin with Views where MemoryMeterProvider has the same ones: the *)
(* proofs about both are in one module.                                    *)
(***************************************************************************)
EXTENDS Integers, Sequences, FiniteSetsExt

CONSTANTS
    Names,       \* names of meters
    Versions,    \* versions of meters, NoVersion may be one of them
    NoVersion,   \* the empty version, which get_meter() has by default
    Histograms,  \* names of histograms
    Boundaries,  \* bucket boundaries that R code gives
    Default,     \* the library's own, where none are given
    Absent       \* stands for no boundaries at all

ASSUME ChoicesAssumption ==
    Default \notin Boundaries /\ Absent \notin Boundaries \cup {Default}

VARIABLES
    views,           \* the library's registry of views, oldest first
    histogramViews,  \* histogram_views: the histograms that got a view
    storage,         \* the boundaries the library counts a histogram with
    created,         \* history: those of its first create_histogram()
    given            \* history: the first ones that were given for it

viewsVars == <<views, histogramViews, storage, created, given>>

Meters == [name : Names, version : Versions]
Keys == [meter : Meters, histogram : Histograms]
BoundaryChoices == Boundaries \cup {Default}
Views == [key : Keys, boundaries : Boundaries]

ViewsInit ==
    /\ views = <<>>
    /\ histogramViews = {}
    /\ storage = [k \in Keys |-> Absent]
    /\ created = [k \in Keys |-> Absent]
    /\ given = [k \in Keys |-> Absent]

\* A view with an empty version selects the meters of every version, and a
\* meter with an empty version is selected by every view.
MatchMeter(selected, meter) ==
    /\ selected.name = meter.name
    /\ \/ selected.version \in {NoVersion, meter.version}
       \/ meter.version = NoVersion

Matches(view, key) ==
    /\ view.key.histogram = key.histogram
    /\ MatchMeter(view.key.meter, key.meter)

\* The first view that matches makes the storage, others find it made.
FindView(registry, key) ==
    LET found == {i \in DOMAIN registry : Matches(registry[i], key)}
    IN  IF found = {} THEN Default ELSE registry[Min(found)].boundaries

\* Mutant: histogram_views forgets which meter a histogram is of.
NeedsViewByName(key, boundaries) ==
    /\ boundaries # Default
    /\ \A k \in histogramViews : k.histogram # key.histogram

\* Mutant: each call that gives boundaries adds a view.
NeedsViewAlways(key, boundaries) == boundaries # Default

NeedsView(key, boundaries) == boundaries # Default /\ key \notin histogramViews

FirstOf(old, new) == IF old = Absent THEN new ELSE old

CreateHistogram(key, boundaries) ==
    /\ IF NeedsView(key, boundaries)
          THEN /\ views' = Append(views,
                                [key |-> key, boundaries |-> boundaries])
               /\ histogramViews' = histogramViews \cup {key}
          ELSE UNCHANGED <<views, histogramViews>>
    /\ storage' = [storage EXCEPT ![key] = FirstOf(@, FindView(views', key))]
    /\ created' = [created EXCEPT ![key] = FirstOf(@, boundaries)]
    /\ given' = IF boundaries = Default THEN given
                ELSE [given EXCEPT ![key] = FirstOf(@, boundaries)]

ViewsNext ==
    \E key \in Keys, boundaries \in BoundaryChoices : CreateHistogram(key, boundaries)

ViewsSpec == ViewsInit /\ [][ViewsNext]_viewsVars

-----------------------------------------------------------------------------

ViewsTypeOK ==
    /\ views \in Seq(Views)
    /\ histogramViews \in SUBSET Keys
    /\ storage \in [Keys -> BoundaryChoices \cup {Absent}]
    /\ created \in [Keys -> BoundaryChoices \cup {Absent}]
    /\ given \in [Keys -> Boundaries \cup {Absent}]

\* The list of views does not grow with the calls: a histogram has at most
\* one view, however often and with whatever boundaries it is created.
OneViewEach ==
    \A i, j \in 1..Len(views) : views[i].key = views[j].key => i = j

\* Two histograms that views do not tell apart, because one of their meters
\* was given no version and the other one was.
VersionClash(key, other) ==
    /\ other.histogram = key.histogram
    /\ other.meter.name = key.meter.name
    /\ other.meter.version # key.meter.version
    /\ NoVersion \in {other.meter.version, key.meter.version}

\* A histogram counts with the boundaries of its first create_histogram(),
\* with the default ones if that gave none: boundaries that come later do not
\* count, although they add a view. If there is a clash, it may count with
\* the first boundaries that were given for the other histogram, and with
\* nothing else. (A comment of the code says that "the first boundaries win":
\* they do not if they come after a call that gave none.)
FirstCallWins ==
    \A k \in Keys : storage[k] # created[k] =>
        \E other \in Keys : VersionClash(k, other) /\ storage[k] = given[other]

\* "Other histograms are not affected", as a test says of a histogram that is
\* given boundaries: the histogram of another meter counts with boundaries
\* that were given for itself, or with the default ones. This fails if
\* NoVersion is in Versions: its selector matches all versions.
OthersNotAffected ==
    \A k \in Keys : storage[k] \in {Absent, Default} \/ given[k] # Absent
=============================================================================
