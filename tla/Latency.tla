------------------------------ MODULE Latency ------------------------------
(***************************************************************************)
(* The latency statistics of Relayer: what the worker does with one sample *)
(* (Welford's mean and sum of squares, reservoir sampling) and what        *)
(* LatencySnapshot computes from the result. Every critical section of     *)
(* latencyMu is one step.                                                  *)
(*                                                                         *)
(* Floating point is replaced by exact arithmetic: latencyMean is counted  *)
(* in units of 1/Scale and latencyM2 in units of 1/Scale^2, where Scale is *)
(* a multiple of every count that occurs, so all divisions come out even.  *)
(* Rounding, the final division by 1000 and the square root are left out.  *)
(***************************************************************************)
EXTENDS Integers, Sequences, SequencesExt

CONSTANTS
  Durations,          \* latencies that occur, in microseconds: int64 values
  latencyReservoir,   \* the most samples kept for the percentiles
  MaxSamples,         \* bound: the samples aggregated in one behaviour
  Scale               \* the unit of the mean, see above

ASSUME LatencyAssumption ==
  /\ Durations \subseteq Nat /\ IsFiniteSet(Durations)
  /\ latencyReservoir \in Nat \ {0}
  /\ MaxSamples \in Nat
  /\ Scale \in Nat \ {0} /\ \A n \in 1..MaxSamples : Scale % n = 0

VARIABLES
  latencyCount, latencyMean, latencyM2, latencySamples,
  recorded            \* history: how often each duration was aggregated

statsVars == <<latencyCount, latencyMean, latencyM2, latencySamples, recorded>>

StatsInit ==
  /\ latencyCount = 0 /\ latencyMean = 0 /\ latencyM2 = 0
  /\ latencySamples = <<>>
  /\ recorded = [d \in Durations |-> 0]

-----------------------------------------------------------------------------
(* The worker's critical section. *)

\* A fault: the sum of squares takes the old difference twice.
WelfordOldDelta(us, count) ==
  LET delta == Scale * us - latencyMean
  IN /\ latencyMean' = latencyMean + delta \div count
     /\ latencyM2' = latencyM2 + delta * delta

Welford(us, count) ==
  LET delta == Scale * us - latencyMean
      mean  == latencyMean + delta \div count
  IN /\ latencyMean' = mean
     /\ latencyM2' = latencyM2 + delta * (Scale * us - mean)

\* A fault of Keep: the reservoir grows without limit.
KeepAlways(us) == latencySamples' = Append(latencySamples, us)

Keep(us) ==
  /\ Len(latencySamples) < latencyReservoir
  /\ latencySamples' = Append(latencySamples, us)

\* A fault of Replace: two places get the sample.
ReplaceTwice(us, count) ==
  /\ Len(latencySamples) >= latencyReservoir
  /\ \E i, j \in DOMAIN latencySamples :
       latencySamples' = [latencySamples EXCEPT ![i] = us, ![j] = us]

\* Int63n(count) may pick a place outside the reservoir: the sample is not kept.
Replace(us, count) ==
  /\ Len(latencySamples) >= latencyReservoir
  /\ \E randIdx \in 0..(count - 1) :
       latencySamples' = IF randIdx < Len(latencySamples)
                           THEN [latencySamples EXCEPT ![randIdx + 1] = us]
                           ELSE latencySamples

Aggregate(us) ==
  LET count == latencyCount + 1
  IN /\ latencyCount' = count
     /\ Welford(us, count)
     /\ Keep(us) \/ Replace(us, count)
     /\ recorded' = [recorded EXCEPT ![us] = @ + 1]

-----------------------------------------------------------------------------
(* LatencySnapshot. Quantiles are in units of 1/100. *)

\* A fault of quantile: the fraction is taken from the wrong end.
quantileBackwards(samples, q) ==
  LET n  == Len(samples)
      h  == 100 + (n - 1) * q
      hi == h \div 100 - 1
  IN IF hi >= n - 1
       THEN 100 * samples[n]
       ELSE 100 * samples[hi + 2]
            - (h % 100) * (samples[hi + 2] - samples[hi + 1])

\* R-7: position h = 1 + (n-1)q between the sorted samples, q in percent.
quantile(samples, q) ==
  LET n  == Len(samples)
      h  == 100 + (n - 1) * q
      hi == h \div 100 - 1
  IN IF hi >= n - 1
       THEN 100 * samples[n]
       ELSE 100 * samples[hi + 1]
            + (h % 100) * (samples[hi + 2] - samples[hi + 1])

\* The reservoir, copied under the lock and sorted: in an order of its places.
samplesCopy ==
  LET places == DOMAIN latencySamples
      order  == CHOOSE p \in Bijection(places, places) :
                  \A i, j \in places : i < j => latencySamples[p[i]] <= latencySamples[p[j]]
  IN [i \in places |-> latencySamples[order[i]]]

\* The variance is a fraction: numerator and denominator.
LatencySnapshot ==
  IF latencyCount = 0
    THEN [count |-> 0, mean |-> 0, variance |-> <<0, 1>>,
          p50 |-> 0, p95 |-> 0, p99 |-> 0]
    ELSE [count    |-> latencyCount,
          mean     |-> latencyMean,
          variance |-> IF latencyCount > 1
                         THEN <<latencyM2, latencyCount - 1>> ELSE <<0, 1>>,
          p50      |-> quantile(samplesCopy, 50),
          p95      |-> quantile(samplesCopy, 95),
          p99      |-> quantile(samplesCopy, 99)]

LatencyNext == latencyCount < MaxSamples /\ \E us \in Durations : Aggregate(us)

LatencySpec == StatsInit /\ [][LatencyNext]_statsVars

-----------------------------------------------------------------------------
\* Type invariant.
StatsTypeOK ==
  /\ latencyCount \in Nat /\ latencyMean \in Int /\ latencyM2 \in Nat
  /\ latencySamples \in Seq(Durations) /\ Len(latencySamples) <= latencyReservoir
  /\ recorded \in [Durations -> Nat]

SumOver(f(_)) == SumFunction([d \in Durations |-> recorded[d] * f(d)])

\* The online mean is the mean: no sample is lost, counted twice or weighted by
\* anything but the number of samples seen, also after the reservoir is full. The
\* online sum of squares is the one a second pass over all samples would compute
\* around the final mean.
MomentsAreExact ==
  LET SquaredDistance(d) == (Scale * d - latencyMean) * (Scale * d - latencyMean)
  IN /\ latencyCount * latencyMean = Scale * SumOver(LAMBDA d : d)
     /\ latencyM2 = SumOver(SquaredDistance)

\* The reservoir is a subset, without repetition, of the samples seen, and as
\* large as it can be.
ReservoirIsSample ==
  /\ Len(latencySamples) = IF latencyCount < latencyReservoir
                             THEN latencyCount ELSE latencyReservoir
  /\ \A d \in Durations :
       Cardinality({i \in DOMAIN latencySamples : latencySamples[i] = d}) <= recorded[d]

\* The k-th smallest of the samples, without sorting them.
Smallest(samples, k) ==
  CHOOSE x \in ToSet(samples) :
    /\ Cardinality({i \in DOMAIN samples : samples[i] < x}) < k
    /\ Cardinality({i \in DOMAIN samples : samples[i] <= x}) >= k

\* R-7 from its definition: on the line through the points (k-1, k-th smallest),
\* at the fraction q of its width.
Quantile7(samples, q) ==
  LET at == (Len(samples) - 1) * q
      k  == CHOOSE j \in 1..Len(samples) :
              100 * (j - 1) <= at /\ (at < 100 * j \/ j = Len(samples))
      slope == IF k = Len(samples) THEN 0
                 ELSE Smallest(samples, k + 1) - Smallest(samples, k)
  IN 100 * Smallest(samples, k) + (at - 100 * (k - 1)) * slope

\* The percentiles reported are those of the definition, for the order the
\* samples happen to have in the reservoir: one sample, the last sample and
\* positions that fall on a sample included.
QuantilesAreR7 ==
  latencyCount > 0 =>
    /\ LatencySnapshot.p50 = Quantile7(latencySamples, 50)
    /\ LatencySnapshot.p95 = Quantile7(latencySamples, 95)
    /\ LatencySnapshot.p99 = Quantile7(latencySamples, 99)
=============================================================================
