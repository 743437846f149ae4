---------------------------- MODULE MCMetrics ----------------------------
(* Metrics with two buckets, and values below, at and beyond the bounds.   *)
EXTENDS Metrics

MCBuckets == <<1, 3>>
MCValues == {-1, 1, 2, 4, NaN, Inf}

=============================================================================
