------------------------- MODULE MC_HistogramViews -------------------------
(* Instances of HistogramViews for TLC.                                    *)
EXTENDS HistogramViews, TLC

ViewSymmetry == Permutations(Versions \ {NoVersion})
                \cup Permutations(Histograms) \cup Permutations(Boundaries)

\* Bound: three views, enough for a clash of any two meters next to another
\* histogram's view.
FewViews == Len(views) <= 3
=============================================================================
