--------------------------- MODULE MCPerfCounters ---------------------------
(* Constants for model checking PerfCounters and PerfHistogram. *)
EXTENDS PerfCounters, PerfHistogram

\* A time average (add_time_avg) and an integer counter (add_u64_counter): one
\* counter of each family of calls, one that is an average and one that is not.
MCType == [avg |-> {"TIME", "LONGRUNAVG"}, num |-> {"U64", "COUNTER"}]

\* On both scales, with one to four buckets.
Counted == CountedInRange(Axis({-1, 2}, {1, 2}, {1, 2, 4}), {-3, -1, 0, 1, 2, 3, 4, 5, 6, 9})

\* The histograms of the loggers that are built count a pair of values in the
\* bucket whose range contains it (PerfHistogram).
HistogramCounts == built > 0 => Counted

=============================================================================
