----------------------------- MODULE MCMetrics -----------------------------
(***************************************************************************)
(* An instance of Metrics for TLC.  The percentile is the median, which    *)
(* differs from the maximum in windows as short as these.                  *)
(***************************************************************************)
EXTENDS Metrics

CONSTANTS p1, p2

MCPool == {p1, p2}
MCDurations == {1, 2}

=============================================================================
