----------------------------- MODULE Statistics -----------------------------
(***************************************************************************)
(* The percentiles the engine reports.  Burst sizes are kept exactly, as a *)
(* count per size; latencies in buckets whose edges grow by the square     *)
(* root of two, so a bucket's edge is written by its square: bucket i      *)
(* holds the latencies whose squares are in 2^i .. 2^(i+1) - 1.            *)
(***************************************************************************)
EXTENDS Integers, FiniteSetsExt

CONSTANT
  LatencyBuckets      \* kLatencyBuckets

ASSUME BucketsAssumption == LatencyBuckets \in Nat \ {0}

Lesser(a, b) == IF a <= b THEN a ELSE b
Later(a, b) == IF a >= b THEN a ELSE b

SumOf(f) == FoldFunction(+, 0, f)

(* Mutant: the rank is rounded down. *)
RankRoundedDown(total, pct) == Lesser(Later((pct * total) \div 100, 1), total)

(* The nearest rank: pct per cent of the observations are up to it. *)
Rank(total, pct) == Lesser(Later((pct * total + 99) \div 100, 1), total)

(* The least key of a histogram that the rank-th observation does not exceed. *)
KeyAtRank(hist, rank) ==
  Min({v \in DOMAIN hist : SumOf([u \in {w \in DOMAIN hist : w <= v} |-> hist[u]]) >= rank})

(* nearest_rank_percentile; 0 of an empty histogram. *)
NearestRank(hist, pct) ==
  IF SumOf(hist) = 0 THEN 0 ELSE KeyAtRank(hist, Rank(SumOf(hist), pct))

(* latency_bucket_index: the last bucket takes all that lie beyond it. *)
LatencyBucket(ns) ==
  Max({0} \cup {i \in 1 .. LatencyBuckets - 1 : 2 ^ i <= ns * ns})

(* latency_bucket_upper_edge_ns, squared *)
UpperEdge2(i) == 2 ^ (i + 1)

NoLatencies == [i \in 0 .. LatencyBuckets - 1 |-> 0]

(* The percentile reported for a latency histogram, squared: the upper edge of
   the bucket of its rank, but no more than the greatest latency seen. *)
LatencyPercentile2(hist, greatest, pct) ==
  IF SumOf(hist) = 0 THEN 0
  ELSE Lesser(UpperEdge2(KeyAtRank(hist, Rank(SumOf(hist), pct))), greatest * greatest)
=============================================================================
