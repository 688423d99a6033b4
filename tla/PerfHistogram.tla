--------------------------- MODULE PerfHistogram ---------------------------
(***************************************************************************)
(* The two-dimensional histograms of the performance counters, as pure     *)
(* functions: which counter a pair of values increments, and which range   *)
(* of values visit_values and get_axis_bucket_ranges report for it.        *)
(*                                                                         *)
(* An axis is a record [scale, min, quant, buckets].  The values and the   *)
(* bounds of the ranges are small enough for no int64_t to overflow.       *)
(***************************************************************************)
EXTENDS Integers, FiniteSets, FiniteSetsExt

Scale == {"LINEAR", "LOG2"}

\* get_quants: where bucket i ends, in units of quant above min.
get_quants(i, scale) == IF scale = "LINEAR" THEN i ELSE 2 ^ (i - 1)

\* get_bucket_for_axis with an off-by-one in the linear scale.
get_bucket_for_axis_unshifted(v, ac) ==
    LET last == ac.buckets - 1
        quants == (v - ac.min) \div ac.quant
        above == {i \in 1..last : quants < get_quants(i, "LOG2")} IN
    IF v < ac.min THEN 0
    ELSE IF ac.scale = "LINEAR" THEN Min({quants, last})
    ELSE Min(above \cup {last})

\* The bucket of value v: 0 below min, then by scale, the last one open-ended.
get_bucket_for_axis(v, ac) ==
    LET last == ac.buckets - 1
        quants == (v - ac.min) \div ac.quant
        above == {i \in 1..last : quants < get_quants(i, "LOG2")} IN
    IF v < ac.min THEN 0
    ELSE IF ac.scale = "LINEAR" THEN Min({quants + 1, last})
    ELSE Min(above \cup {last})

\* The inclusive range of bucket b, open below the first and above the last.
InRange(v, b, ac) ==
    /\ b = 0 \/ v >= ac.min + (IF b = 1 THEN 0 ELSE get_quants(b - 1, ac.scale) * ac.quant)
    /\ b = ac.buckets - 1 \/ v <= ac.min + (IF b = 0 THEN 0 ELSE get_quants(b, ac.scale) * ac.quant) - 1

\* The number of counters, the index of a pair of buckets, and the pair of
\* buckets whose counter visit_values reports at each step of its nested loops.
get_raw_size(x, y) == x.buckets * y.buckets
get_raw_index(bx, by, x, y) == (x.buckets * 0 + bx) * y.buckets + by
visit_values(x, y) ==
    [s \in 0..(get_raw_size(x, y) - 1) |-> <<s \div y.buckets, s % y.buckets>>]

\* The constructor's assertions.
Axis(mins, quants, buckets) ==
    [scale : Scale, min : mins, quant : quants \ {0}, buckets : buckets \ {0}]

\* inc(vx, vy) increments a counter of the array, and the one that visit_values
\* reports for the only buckets whose ranges contain vx and vy, on any two axes,
\* one-bucket axes and values below min or above the last bound included
\* (perf_histogram.cc:30-79, perf_histogram.h:97-100, 153-159, 171-184).
CountedInRange(axes, values) ==
    \A x, y \in axes, vx, vy \in values :
        LET s == get_raw_index(get_bucket_for_axis(vx, x), get_bucket_for_axis(vy, y), x, y) IN
        /\ s \in 0..(get_raw_size(x, y) - 1)
        /\ {b \in 0..(x.buckets - 1) : InRange(vx, b, x)} = {visit_values(x, y)[s][1]}
        /\ {b \in 0..(y.buckets - 1) : InRange(vy, b, y)} = {visit_values(x, y)[s][2]}

=============================================================================
