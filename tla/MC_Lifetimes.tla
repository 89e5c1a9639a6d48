---------------------------- MODULE MC_Lifetimes ----------------------------
(* Bounds of the model-checking run of Lifetimes: what R code creates.      *)
EXTENDS Lifetimes

\* A span of one provider's tracer, and an object of it from another's; two
\* objects of a span, or two spans; two meters of a provider; a logger of one
\* provider, and a meter of another.
Creating(classes, streams) == [classes |-> classes, streams |-> streams]
AllPrograms == {
    Creating(<<"tracer_provider", "tracer", "span",
               "tracer_provider", "tracer", "span">>, {"none"}),
    Creating(<<"tracer_provider", "tracer", "span", "span">>, {"none", "open"}),
    Creating(<<"meter_provider", "meter", "meter", "instrument">>,
             {"none", "open"}),
    Creating(<<"logger_provider", "logger", "meter_provider", "meter">>,
             {"open"}) }

AllOrders == {"newest", "any"}

\* Six objects are finalized newest first only, to bound the run: they are there
\* for SpansDelivered, which is about that order.
LongestInOrder == Len(program.classes) = MaxObjects => order = "newest"
=============================================================================
