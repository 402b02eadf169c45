----------------------------- MODULE MetricsProofs -----------------------------
(***************************************************************************)
(* Theorems about Latency, and about Metrics under the life of the process *)
(* in Server, for any number of pumps and of callers of FetchMetrics, any  *)
(* capacity of the channel, any durations and any size of the reservoir.   *)
(*                                                                         *)
(* That Close flushes needs WorkerOK: a worker that has ended has left     *)
(* nothing in its hand or in the channel, which is closed, and Close       *)
(* returns only then. That an answer is consistent needs ReportOK, and     *)
(* that at no moment more latencies than deliveries have been counted      *)
(* (EveryDeliveryTimed). That a delivery panics only after Close needs     *)
(* PhaseOK: how far main is with Shutdown. That the moments are exact      *)
(* needs that the samples aggregated are as many as were counted           *)
(* (MomentsInv), and the facts about sums of DataLemmas; the percentiles   *)
(* need that a sorted order exists.                                        *)
(***************************************************************************)
EXTENDS Server, DataLemmas

USE LatencyAssumption

-----------------------------------------------------------------------------
(* The worker's statistics. *)

\* The quotient of Welford's update is between zero and the difference.
LEMMA Quotient ==
  ASSUME NEW a \in Int, NEW n \in Nat \ {0}
  PROVE  /\ a \div n \in Int
         /\ a >= 0 => 0 <= a \div n /\ a \div n <= a
         /\ a < 0 => a <= a \div n /\ a \div n <= 0
<1> QED OBVIOUS

\* So that the sum of squares never shrinks.
LEMMA SquareGrows ==
  ASSUME NEW a \in Int, NEW b \in Int,
         a >= 0 => 0 <= b /\ b <= a,
         a < 0 => a <= b /\ b <= 0
  PROVE  a * (a - b) \in Nat
<1> QED OBVIOUS

\* A sample counts once and keeps the statistics well typed.
LEMMA AggregateTypes ==
  ASSUME StatsTypeOK, NEW us0 \in Durations, Aggregate(us0)
  PROVE  StatsTypeOK' /\ latencyCount' = latencyCount + 1
<1>1. latencyCount \in Nat /\ latencyCount' = latencyCount + 1
  BY DEF StatsTypeOK, Aggregate
<1>2. latencyMean' \in Int /\ latencyM2' \in Nat
  <2> DEFINE delta == Scale * us0 - latencyMean
             step  == delta \div latencyCount'
  <2>1. delta \in Int /\ latencyCount' \in Nat \ {0}
    BY <1>1 DEF StatsTypeOK
  <2>2. /\ latencyMean' = latencyMean + step
        /\ latencyM2' = latencyM2 + delta * (Scale * us0 - (latencyMean + step))
    BY <1>1 DEF Aggregate, Welford
  <2>3. /\ step \in Int
        /\ delta >= 0 => 0 <= step /\ step <= delta
        /\ delta < 0 => delta <= step /\ step <= 0
    <3> HIDE DEF delta
    <3> QED
      BY <2>1, Quotient
  <2>4. Scale * us0 - (latencyMean + step) = delta - step
    <3>1. Scale * us0 \in Int /\ latencyMean \in Int
      BY DEF StatsTypeOK
    <3> HIDE DEF step
    <3> QED
      BY <2>3, <3>1
  <2>5. delta * (delta - step) \in Nat
    <3> HIDE DEF delta, step
    <3> QED
      BY <2>1, <2>3, SquareGrows
  <2>6. latencyMean \in Int /\ latencyM2 \in Nat
    BY DEF StatsTypeOK
  <2>7. latencyM2' = latencyM2 + delta * (delta - step)
    BY <2>2, <2>4
  <2> HIDE DEF delta, step
  <2> QED
    BY <2>2, <2>3, <2>5, <2>6, <2>7
<1>3. latencySamples' \in Seq(Durations) /\ Len(latencySamples') <= latencyReservoir
  <2>1. CASE Keep(us0)
    BY <2>1 DEF StatsTypeOK, Keep
  <2>2. CASE Replace(us0, latencyCount')
    BY <1>1, <2>2 DEF StatsTypeOK, Replace
  <2> QED
    BY <1>1, <2>1, <2>2 DEF Aggregate
<1>4. recorded' \in [Durations -> Nat]
  BY DEF StatsTypeOK, Aggregate
<1> QED
  BY <1>1, <1>2, <1>3, <1>4 DEF StatsTypeOK

\* What a snapshot says of the number of samples.
LEMMA SnapshotCount == LatencySnapshot.count = latencyCount
  BY DEF LatencySnapshot

-----------------------------------------------------------------------------
(* The reservoir. *)

Positions(s, d) == {i \in DOMAIN s : s[i] = d}

\* A duration has finitely many places.
LEMMA PositionsFinite ==
  ASSUME NEW s \in Seq(Durations), NEW d
  PROVE  IsFiniteSet(Positions(s, d)) /\ Cardinality(Positions(s, d)) \in Nat
<1>1. Positions(s, d) \in SUBSET (1..Len(s)) /\ Len(s) \in Nat
  BY DEF Positions
<1>2. IsFiniteSet(1..Len(s))
  BY <1>1, FS_Interval
<1> QED
  BY <1>1, <1>2, FS_Subset, FS_CardinalityType

\* One place more is one more at most.
LEMMA OneMore ==
  ASSUME NEW S, IsFiniteSet(S), NEW x, NEW T \in SUBSET (S \cup {x})
  PROVE  /\ Cardinality(T) \in Nat /\ Cardinality(T) <= Cardinality(S) + 1
         /\ T \subseteq S => Cardinality(T) <= Cardinality(S)
<1>1. /\ IsFiniteSet(S \cup {x}) /\ Cardinality(S) \in Nat
      /\ Cardinality(S \cup {x}) = IF x \in S THEN Cardinality(S) ELSE Cardinality(S) + 1
  BY FS_AddElement, FS_CardinalityType
<1>2. Cardinality(T) \in Nat /\ Cardinality(T) <= Cardinality(S \cup {x})
  BY <1>1, FS_Subset, FS_CardinalityType
<1>3. T \subseteq S => Cardinality(T) <= Cardinality(S)
  BY FS_Subset
<1> QED
  BY <1>1, <1>2, <1>3

\* A sample takes at most one place, and no other sample gets one.
LEMMA PlacesOfSample ==
  ASSUME StatsTypeOK, NEW us0 \in Durations, Aggregate(us0), NEW d \in Durations
  PROVE  \E x : /\ Positions(latencySamples', d) \subseteq Positions(latencySamples, d) \cup {x}
                /\ d # us0 => Positions(latencySamples', d) \subseteq Positions(latencySamples, d)
<1>0. PICK s \in Seq(Durations) : s = latencySamples
  BY DEF StatsTypeOK
<1>1. CASE Keep(us0)
  <2>1. latencySamples' = Append(s, us0)
    BY <1>0, <1>1 DEF Keep
  <2>2. /\ Positions(Append(s, us0), d) \subseteq Positions(s, d) \cup {Len(s) + 1}
        /\ d # us0 => Positions(Append(s, us0), d) \subseteq Positions(s, d)
    BY DEF Positions
  <2> QED
    BY <1>0, <2>1, <2>2
<1>2. CASE Replace(us0, latencyCount + 1)
  <2>1. PICK r \in Nat :
          /\ DOMAIN latencySamples' = DOMAIN latencySamples
          /\ \A i \in DOMAIN latencySamples :
               latencySamples'[i] = latencySamples[i] \/ (i = r + 1 /\ latencySamples'[i] = us0)
    BY <1>2 DEF Replace, StatsTypeOK
  <2>2. /\ Positions(latencySamples', d) \subseteq Positions(latencySamples, d) \cup {r + 1}
        /\ d # us0 => Positions(latencySamples', d) \subseteq Positions(latencySamples, d)
    BY <2>1 DEF Positions
  <2> QED
    BY <2>2
<1> QED
  BY <1>1, <1>2 DEF Aggregate

\* The reservoir stays a sample.
LEMMA ReservoirStep ==
  ASSUME StatsTypeOK, ReservoirIsSample, NEW us0 \in Durations, Aggregate(us0)
  PROVE  ReservoirIsSample'
<1>1. Len(latencySamples') = IF latencyCount' < latencyReservoir THEN latencyCount' ELSE latencyReservoir
  <2>1. /\ latencyCount \in Nat /\ latencyCount' = latencyCount + 1 /\ latencySamples \in Seq(Durations)
        /\ Len(latencySamples) = IF latencyCount < latencyReservoir THEN latencyCount ELSE latencyReservoir
    BY DEF StatsTypeOK, ReservoirIsSample, Aggregate
  <2>2. CASE Keep(us0)
    BY <2>1, <2>2 DEF Keep
  <2>3. CASE Replace(us0, latencyCount + 1)
    BY <2>1, <2>3 DEF Replace
  <2> QED
    BY <2>2, <2>3 DEF Aggregate
<1>2. ASSUME NEW d \in Durations
      PROVE  Cardinality(Positions(latencySamples', d)) <= recorded'[d]
  <2> DEFINE S == Positions(latencySamples, d)
             T == Positions(latencySamples', d)
  <2>1. IsFiniteSet(S) /\ Cardinality(S) \in Nat
    BY PositionsFinite DEF StatsTypeOK
  <2>2. PICK x : T \subseteq S \cup {x} /\ (d # us0 => T \subseteq S)
    BY PlacesOfSample
  <2>3. Cardinality(S) <= recorded[d]
    BY DEF ReservoirIsSample, Positions
  <2>4. recorded[d] \in Nat /\ recorded'[d] = IF d = us0 THEN recorded[d] + 1 ELSE recorded[d]
    BY DEF StatsTypeOK, Aggregate
  <2> HIDE DEF S, T
  <2>5. /\ Cardinality(T) \in Nat /\ Cardinality(T) <= Cardinality(S) + 1
        /\ d # us0 => Cardinality(T) <= Cardinality(S)
    BY <2>1, <2>2, OneMore
  <2>6. Cardinality(T) <= recorded'[d]
    BY <2>1, <2>3, <2>4, <2>5
  <2> QED
    BY <2>6 DEF T
<1> QED
  BY <1>1, <1>2 DEF ReservoirIsSample, Positions

\* The worker's statistics have their types, in particular a sum of squares that
\* is none below zero and a reservoir within its limit.
LEMMA StatsTypeCorrect == LatencySpec => []StatsTypeOK
<1>1. StatsInit => StatsTypeOK
  BY DEF StatsInit, StatsTypeOK
<1>2. StatsTypeOK /\ [LatencyNext]_statsVars => StatsTypeOK'
  <2>1. ASSUME StatsTypeOK, LatencyNext PROVE StatsTypeOK'
    BY <2>1, AggregateTypes DEF LatencyNext
  <2>2. ASSUME StatsTypeOK, UNCHANGED statsVars PROVE StatsTypeOK'
    BY <2>2 DEF statsVars, StatsTypeOK
  <2> QED
    BY <2>1, <2>2
<1> QED
  BY <1>1, <1>2, PTL DEF LatencySpec

\* The percentiles are computed from samples that were seen, each at most as often
\* as it was seen, and from as many as there is room for.
THEOREM ReservoirCorrect == LatencySpec => []ReservoirIsSample
<1>1. StatsInit => ReservoirIsSample
  <2> SUFFICES ASSUME StatsInit PROVE ReservoirIsSample
    OBVIOUS
  <2>1. \A d \in Durations : {i \in DOMAIN latencySamples : latencySamples[i] = d} = {}
    BY DEF StatsInit
  <2> QED
    BY <2>1, FS_EmptySet DEF StatsInit, ReservoirIsSample
<1>2. StatsTypeOK /\ ReservoirIsSample /\ [LatencyNext]_statsVars => ReservoirIsSample'
  <2>1. ASSUME StatsTypeOK, ReservoirIsSample, LatencyNext PROVE ReservoirIsSample'
    BY <2>1, ReservoirStep DEF LatencyNext
  <2>2. ASSUME ReservoirIsSample, UNCHANGED statsVars PROVE ReservoirIsSample'
    BY <2>2 DEF statsVars, ReservoirIsSample
  <2> QED
    BY <2>1, <2>2
<1> QED
  BY <1>1, <1>2, StatsTypeCorrect, PTL DEF LatencySpec

\* The samples, and the squares of their distances from the mean, as often as
\* they were aggregated.
Weighted == [d \in Durations |-> recorded[d] * d]
Squares  == [d \in Durations |->
              recorded[d] * ((Scale * d - latencyMean) * (Scale * d - latencyMean))]

\* That the moments are exact is inductive with a count that is exact, too.
MomentsInv == /\ latencyCount = SumFunction(recorded)
              /\ latencyCount = 0 => latencyMean = 0
              /\ MomentsAreExact

\* The moments, as sums of Weighted and Squares.
LEMMA MomentsAsSums ==
  MomentsAreExact <=> /\ latencyCount * latencyMean = Scale * SumFunction(Weighted)
                      /\ latencyM2 = SumFunction(Squares)
BY DEF MomentsAreExact, SumOver, Weighted, Squares

\* What is summed up are integers.
LEMMA SummandTypes ==
  ASSUME StatsTypeOK
  PROVE  /\ recorded \in [Durations -> Int] /\ Weighted \in [Durations -> Int]
         /\ Squares \in [Durations -> Int]
<1>1. /\ recorded \in [Durations -> Nat] /\ latencyMean \in Int /\ Scale \in Int
      /\ \A d \in Durations : d \in Int
  BY DEF StatsTypeOK
<1>2. \A d \in Durations : /\ recorded[d] * d \in Int
                           /\ recorded[d] * ((Scale * d - latencyMean) * (Scale * d - latencyMean))
                                \in Int
  <2> TAKE d \in Durations
  <2>1. recorded[d] \in Int /\ d \in Int /\ Scale * d - latencyMean \in Int
    BY <1>1
  <2>2. PICK x \in Int : x = Scale * d - latencyMean
    BY <2>1
  <2> QED
    BY <2>1, <2>2
<1>3. recorded \in [Durations -> Int]
  BY <1>1
<1> QED
  BY <1>2, <1>3 DEF Weighted, Squares

\* One more sample, and the sums it changes.
LEMMA SumsStep ==
  ASSUME StatsTypeOK, NEW us0 \in Durations, Aggregate(us0), NEW e \in Int,
         latencyMean' = latencyMean + e
  PROVE  LET x == Scale * us0 - latencyMean' IN
         /\ SumFunction(recorded') = SumFunction(recorded) + 1
         /\ SumFunction(Weighted') = SumFunction(Weighted) + us0
         /\ SumFunction(Squares')
              = SumFunction(Squares) + (-2 * e * Scale) * SumFunction(Weighted)
                + (2 * e * latencyMean + e * e) * SumFunction(recorded) + x * x
<1>1. /\ IsFiniteSet(Durations) /\ us0 \in Int /\ Scale \in Int /\ latencyMean \in Int
      /\ \A d \in Durations : d \in Int
      /\ recorded' = [recorded EXCEPT ![us0] = @ + 1] /\ recorded \in [Durations -> Nat]
  BY DEF StatsTypeOK, Aggregate
<1>2. /\ recorded \in [Durations -> Int] /\ Weighted \in [Durations -> Int]
      /\ Squares \in [Durations -> Int]
  BY SummandTypes
<1>3. recorded' \in [Durations -> Int] /\ Weighted' \in [Durations -> Int]
      /\ Squares' \in [Durations -> Int] /\ latencyMean' \in Int
  <2>1. StatsTypeOK'
    BY AggregateTypes
  <2>2. latencyMean' \in Int /\ recorded' \in [Durations -> Nat]
    BY <2>1 DEF StatsTypeOK
  <2>3. \A d \in Durations : recorded'[d] * d \in Int
    BY <1>1, <2>2
  <2>4. \A d \in Durations :
          recorded'[d] * ((Scale * d - latencyMean') * (Scale * d - latencyMean')) \in Int
    <3> TAKE d \in Durations
    <3>1. PICK x \in Int : x = Scale * d - latencyMean'
      BY <1>1, <2>2
    <3>2. recorded'[d] \in Int
      BY <2>2
    <3> QED
      BY <3>1, <3>2
  <2> QED
    BY <2>2, <2>3, <2>4 DEF Weighted, Squares
<1>4. \A d \in Durations : recorded'[d] = IF d = us0 THEN recorded[d] + 1 ELSE recorded[d]
  BY <1>1
<1>5. SumFunction(recorded') = SumFunction(recorded) + 1
  <2>1. IsGrown(recorded', Durations, recorded, us0, 1)
    BY <1>1, <1>2, <1>3, <1>4 DEF IsGrown
  <2> QED
    BY <1>1, <2>1, SumOfMore
<1>6. SumFunction(Weighted') = SumFunction(Weighted) + us0
  <2>1. ASSUME NEW d \in Durations
        PROVE  Weighted'[d] = IF d = us0 THEN Weighted[d] + us0 ELSE Weighted[d]
    <3>1. Weighted'[d] = recorded'[d] * d /\ Weighted[d] = recorded[d] * d
      BY DEF Weighted
    <3>2. (recorded[d] + 1) * d = recorded[d] * d + d
      BY <1>1
    <3> QED
      BY <1>4, <3>1, <3>2
  <2>2. IsGrown(Weighted', Durations, Weighted, us0, us0)
    BY <1>1, <1>2, <1>3, <2>1 DEF IsGrown
  <2> QED
    BY <1>1, <2>2, SumOfMore
<1> DEFINE x == Scale * us0 - latencyMean'
           H == [d \in Durations |->
                  recorded[d] * ((Scale * d - latencyMean') * (Scale * d - latencyMean'))]
           a == -2 * e * Scale
           b == 2 * e * latencyMean + e * e
<1>7. a \in Int /\ b \in Int /\ x \in Int /\ x * x \in Int
  BY <1>1, <1>3
<1>8. ASSUME NEW d \in Durations
      PROVE  /\ H[d] \in Int
             /\ H[d] = Squares[d] + a * Weighted[d] + b * recorded[d]
             /\ Squares'[d] = IF d = us0 THEN H[d] + x * x ELSE H[d]
  <2>1. PICK c \in Int, y \in Int : c = recorded[d] /\ y = Scale * d - latencyMean'
    BY <1>1, <1>2, <1>3
  <2>2. H[d] = c * (y * y) /\ Weighted[d] = c * d
        /\ Squares[d] = c * ((Scale * d - latencyMean) * (Scale * d - latencyMean))
    BY <2>1 DEF Squares, Weighted
  <2>3. c * (y * y) = c * ((Scale * d - latencyMean) * (Scale * d - latencyMean))
                      + a * (c * d) + b * c
    BY <1>1, <2>1, SquareMoves
  <2>4. Squares'[d] = recorded'[d] * (y * y)
    BY <2>1 DEF Squares
  <2>5. (c + 1) * (y * y) = c * (y * y) + y * y
    OBVIOUS
  <2> HIDE DEF H, a, b
  <2>6. Squares'[d] = IF d = us0 THEN H[d] + x * x ELSE H[d]
    BY <1>4, <2>1, <2>2, <2>4, <2>5
  <2>7. H[d] \in Int
    BY <2>2
  <2> QED
    BY <2>1, <2>2, <2>3, <2>6, <2>7
<1>9. H \in [Durations -> Int]
  BY <1>8
<1> HIDE DEF H, a, b, x
<1>10. SumFunction(H) = SumFunction(Squares) + a * SumFunction(Weighted)
                        + b * SumFunction(recorded)
  <2>1. IsCombined(H, Durations, Squares, a, Weighted, b, recorded)
    BY <1>2, <1>7, <1>8, <1>9 DEF IsCombined
  <2> QED
    BY <1>1, <2>1, SumIsLinear
<1>11. SumFunction(Squares') = SumFunction(H) + x * x
  <2>1. IsGrown(Squares', Durations, H, us0, x * x)
    BY <1>3, <1>7, <1>8, <1>9 DEF IsGrown
  <2> QED
    BY <1>1, <2>1, SumOfMore
<1> QED
  BY <1>5, <1>6, <1>10, <1>11 DEF a, b, x

\* One more sample keeps the moments exact.
LEMMA MomentsStep ==
  ASSUME StatsTypeOK, MomentsInv, NEW us0 \in Durations, Aggregate(us0),
         latencyCount < MaxSamples
  PROVE  MomentsInv'
<1>1. PICK n \in Nat, m \in Int, q \in Int, sum \in Int, u \in Int :
             /\ n = latencyCount /\ m = latencyMean /\ q = latencyM2 /\ u = us0
             /\ sum = SumFunction(Weighted)
  <2>1. SumFunction(Weighted) \in Int
    BY SummandTypes, SumType
  <2>2. latencyCount \in Nat /\ latencyMean \in Int /\ latencyM2 \in Int /\ us0 \in Int
    BY DEF StatsTypeOK
  <2> QED
    BY <2>1, <2>2
<1>2. /\ n = SumFunction(recorded) /\ (n = 0 => m = 0)
      /\ n * m = Scale * sum /\ q = SumFunction(Squares)
  BY <1>1, MomentsAsSums DEF MomentsInv
<1>3. /\ Scale \in Nat \ {0} /\ Scale % (n + 1) = 0 /\ (n > 0 => Scale % n = 0)
  <2>1. n + 1 \in 1..MaxSamples /\ (n > 0 => n \in 1..MaxSamples)
    BY <1>1
  <2> QED
    BY <2>1
<1>4. IsMean(m, n, sum, Scale) /\ IsUnit(Scale, n)
  BY <1>2, <1>3 DEF IsMean, IsUnit
<1>5. PICK e \in Int : MovesBy(e, n, m, u, Scale)
  BY <1>4, DifferenceIsEven
<1>6. (Scale * u - m) \div (n + 1) = e /\ Scale * u - m = (n + 1) * e
  <2>1. n + 1 \in Nat \ {0}
    OBVIOUS
  <2>2. ((n + 1) * e) \div (n + 1) = e
    BY <2>1, EvenDivision
  <2> QED
    BY <1>5, <2>2 DEF MovesBy
<1>7. /\ latencyCount' = n + 1 /\ latencyMean' = m + e
      /\ latencyM2' = q + (Scale * u - m) * (Scale * u - (m + e))
  BY <1>1, <1>6 DEF Aggregate, Welford
<1>8. /\ SumFunction(recorded') = n + 1
      /\ SumFunction(Weighted') = sum + u
      /\ SumFunction(Squares')
           = q + (-2 * e * Scale) * sum + (2 * e * m + e * e) * n
             + (Scale * u - (m + e)) * (Scale * u - (m + e))
  BY <1>1, <1>2, <1>7, SumsStep
<1>9. latencyCount' * latencyMean' = Scale * SumFunction(Weighted')
  <2>1. (n + 1) * (m + e) = n * m + m + (n + 1) * e
    OBVIOUS
  <2>2. Scale * (sum + u) = Scale * sum + Scale * u /\ Scale * u \in Int /\ n * m \in Int
    BY <1>3
  <2> QED
    BY <1>2, <1>6, <1>7, <1>8, <2>1, <2>2
<1>10. latencyM2' = SumFunction(Squares')
  <2>0. Scale \in Int
    BY <1>3
  <2>1. AddUp(q, n, m, e, Scale, sum, u)
    BY <2>0, <1>4, <1>5, SquaresAddUp, Zenon
  <2> QED
    BY <1>7, <1>8, <2>1 DEF AddUp
<1>11. MomentsAreExact'
  <2>1. MomentsAreExact' <=> /\ latencyCount' * latencyMean' = Scale * SumFunction(Weighted')
                             /\ latencyM2' = SumFunction(Squares')
    BY DEF MomentsAreExact, SumOver, Weighted, Squares
  <2> QED
    BY <1>9, <1>10, <2>1
<1> QED
  BY <1>7, <1>8, <1>11 DEF MomentsInv

\* The mean and the sum of squares are those of all samples seen, however many
\* there are and of whatever durations.
THEOREM MomentsCorrect == LatencySpec => []MomentsAreExact
<1>1. StatsInit => MomentsInv
  <2> SUFFICES ASSUME StatsInit PROVE MomentsInv
    OBVIOUS
  <2>1. /\ latencyCount = 0 /\ latencyMean = 0 /\ latencyM2 = 0
        /\ recorded = [d \in Durations |-> 0]
    BY DEF StatsInit
  <2>2. SumFunction([d \in Durations |-> 0]) = 0
    BY SumOfZeroes
  <2>3. Weighted = [d \in Durations |-> 0] /\ Squares = [d \in Durations |-> 0]
    <3>1. \A d \in Durations : d \in Int /\ 0 * d = 0
      OBVIOUS
    <3>2. \A d \in Durations : 0 * ((Scale * d - 0) * (Scale * d - 0)) = 0
      OBVIOUS
    <3> QED
      BY <2>1, <3>1, <3>2 DEF Weighted, Squares
  <2> QED
    BY <2>1, <2>2, <2>3, MomentsAsSums DEF MomentsInv
<1>2. StatsTypeOK /\ MomentsInv /\ [LatencyNext]_statsVars => MomentsInv'
  <2>1. ASSUME StatsTypeOK, MomentsInv, LatencyNext PROVE MomentsInv'
    BY <2>1, MomentsStep DEF LatencyNext
  <2>2. ASSUME MomentsInv, UNCHANGED statsVars PROVE MomentsInv'
    BY <2>2 DEF statsVars, MomentsInv, MomentsAreExact, SumOver
  <2> QED
    BY <2>1, <2>2
<1>3. MomentsInv => MomentsAreExact
  BY DEF MomentsInv
<1> QED
  BY <1>1, <1>2, <1>3, StatsTypeCorrect, PTL DEF LatencySpec

-----------------------------------------------------------------------------
(* The percentiles. *)

\* The k-th smallest sample is the one that a sorted order has in place k.
LEMMA SmallestIsSorted ==
  ASSUME NEW s \in Seq(Nat), NEW p, IsOrder(p, s), NEW k \in 1..Len(s)
  PROVE  Smallest(s, k) = s[p[k]]
<1>1. PICK n \in Nat : n = Len(s)
  OBVIOUS
<1>2. s \in [1..n -> Int] /\ k \in 1..n
  BY <1>1
<1>3. p[k] \in 1..n /\ FewSmaller(s, s[p[k]], k) /\ EnoughUpTo(s, s[p[k]], k)
  BY <1>2, OrderCounts
<1>4. s[p[k]] \in ToSet(s) /\ s[p[k]] \in Int
  BY <1>1, <1>2, <1>3 DEF ToSet
<1>5. ASSUME NEW x \in ToSet(s), FewSmaller(s, x, k), EnoughUpTo(s, x, k)
      PROVE  x = s[p[k]]
  <2>1. x \in Int
    BY <1>1, <1>2 DEF ToSet
  <2>2. s[p[k]] <= x
    BY <1>2, <1>3, <1>4, <1>5, <2>1, OnlyOneInPlace
  <2>3. x <= s[p[k]]
    BY <1>2, <1>3, <1>4, <1>5, <2>1, OnlyOneInPlace
  <2> QED
    BY <1>4, <2>1, <2>2, <2>3
<1>6. Smallest(s, k) =
        CHOOSE x \in ToSet(s) : FewSmaller(s, x, k) /\ EnoughUpTo(s, x, k)
  BY DEF Smallest, FewSmaller, EnoughUpTo
<1> QED
  BY <1>3, <1>4, <1>5, <1>6

\* The place that Quantile7 looks for, and where quantile finds it.
IsPlaceBelow(j, at, n) == 100 * (j - 1) <= at /\ (at < 100 * j \/ j = n)

FindsPlace(at, n) ==
  /\ at \in Nat /\ at \div 100 \in 0..(n - 2)
  /\ at % 100 = at - 100 * (at \div 100)
  /\ (100 + at) % 100 = at % 100 /\ (100 + at) \div 100 - 1 = at \div 100
  /\ \A j \in 1..n : IsPlaceBelow(j, at, n) <=> j = at \div 100 + 1

\* With two samples or more there is one such place, below the last, and quantile
\* finds it.
LEMMA PlaceFound ==
  ASSUME NEW n \in Nat \ {0, 1}, NEW q \in 0..99, NEW at, at = (n - 1) * q
  PROVE  FindsPlace(at, n)
<1>1. at \in Nat
  OBVIOUS
<1>2. at <= 99 * (n - 1)
  <2>1. \A a \in Nat, b \in 0..99 : a * b <= 99 * a
    OBVIOUS
  <2>2. n - 1 \in Nat
    OBVIOUS
  <2> QED
    BY <1>1, <2>1, <2>2
<1>3. /\ at \div 100 \in 0..(n - 2)
      /\ at % 100 = at - 100 * (at \div 100)
      /\ (100 + at) % 100 = at % 100 /\ (100 + at) \div 100 - 1 = at \div 100
  BY <1>1, <1>2
<1>4. ASSUME NEW j \in 1..n
      PROVE  IsPlaceBelow(j, at, n) <=> j = at \div 100 + 1
  BY <1>1, <1>2 DEF IsPlaceBelow
<1> QED
  BY <1>1, <1>3, <1>4 DEF FindsPlace

\* From samples sorted in any order of their places, quantile computes R-7.
LEMMA QuantileIsR7 ==
  ASSUME NEW s \in Seq(Nat), Len(s) > 0, NEW p, IsOrder(p, s), NEW q \in 0..99
  PROVE  quantile([i \in DOMAIN s |-> s[p[i]]], q) = Quantile7(s, q)
<1> DEFINE t  == [i \in DOMAIN s |-> s[p[i]]]
           n  == Len(s)
           at == (n - 1) * q
           k  == CHOOSE j \in 1..n : IsPlaceBelow(j, at, n)
           slope == IF k = n THEN 0 ELSE Smallest(s, k + 1) - Smallest(s, k)
<1>1. n \in Nat \ {0} /\ DOMAIN s = 1..n
  OBVIOUS
<1>2. /\ Len(t) = n
      /\ \A j \in 1..n : t[j] \in Nat /\ Smallest(s, j) = t[j]
  <2>1. \A j \in 1..n : p[j] \in 1..n
    BY <1>1 DEF IsOrder, Bijection, Injection
  <2>2. t \in Seq(Nat) /\ Len(t) = n
    BY <1>1, <2>1
  <2>3. ASSUME NEW j \in 1..n PROVE Smallest(s, j) = t[j]
    BY <1>1, SmallestIsSorted
  <2> HIDE DEF t, n
  <2> QED
    BY <1>1, <2>2, <2>3
<1>3. Quantile7(s, q) = 100 * Smallest(s, k) + (at - 100 * (k - 1)) * slope
  BY DEF Quantile7, IsPlaceBelow
<1>4. quantile(t, q) = IF (100 + at) \div 100 - 1 >= n - 1
                         THEN 100 * t[n]
                         ELSE 100 * t[(100 + at) \div 100 - 1 + 1]
                              + ((100 + at) % 100)
                                * (t[(100 + at) \div 100 - 1 + 2]
                                   - t[(100 + at) \div 100 - 1 + 1])
  <2> HIDE DEF t, n
  <2> QED
    BY <1>2 DEF quantile
<1> HIDE DEF t
<1>5. CASE n = 1
  <2>1. at = 0
    BY <1>5
  <2> HIDE DEF n, at
  <2>2. \A j \in 1..n : IsPlaceBelow(j, at, n) <=> j = 1
    BY <1>5, <2>1 DEF IsPlaceBelow
  <2>3. k = 1
    BY <1>5, <2>2
  <2> HIDE DEF k
  <2>4. slope = 0
    BY <1>5, <2>3
  <2>5. (100 + at) \div 100 - 1 >= n - 1
    BY <1>5, <2>1
  <2> HIDE DEF slope
  <2>6. quantile(t, q) = 100 * t[1]
    BY <1>4, <1>5, <2>5
  <2>7. Quantile7(s, q) = 100 * t[1] + (0 - 100 * (1 - 1)) * 0 /\ t[1] \in Nat
    BY <1>2, <1>3, <1>5, <2>1, <2>3, <2>4
  <2> QED
    BY <2>6, <2>7 DEF t
<1>6. CASE n > 1
  <2> DEFINE low == at \div 100
  <2>0. n \in Nat \ {0, 1}
    <3> HIDE DEF n
    <3> QED
      BY <1>1, <1>6
  <2>1. /\ at \in Nat /\ low \in 0..(n - 2) /\ at % 100 = at - 100 * low
        /\ (100 + at) % 100 = at % 100 /\ (100 + at) \div 100 - 1 = low
        /\ \A j \in 1..n : IsPlaceBelow(j, at, n) <=> j = low + 1
    <3>1. at = (n - 1) * q
      OBVIOUS
    <3> HIDE DEF n, at
    <3>2. FindsPlace(at, n)
      BY <2>0, <3>1, PlaceFound
    <3> QED
      BY <3>2 DEF FindsPlace
  <2> HIDE DEF n, at, low
  <2>2. low + 1 \in 1..n /\ low + 2 \in 1..n /\ low + 1 # n
    BY <2>0, <2>1
  <2>3. k = low + 1
    BY <2>1, <2>2
  <2> HIDE DEF k
  <2>4. Smallest(s, k) = t[low + 1] /\ Smallest(s, k + 1) = t[low + 2] /\ k # n
    <3>1. k + 1 = low + 2
      BY <2>1, <2>3
    <3> QED
      BY <1>2, <2>2, <2>3, <3>1
  <2>5. slope = t[low + 2] - t[low + 1]
    BY <2>4
  <2>6. at - 100 * (k - 1) = at % 100
    BY <2>1, <2>3
  <2>7. Quantile7(s, q) = 100 * t[low + 1] + (at % 100) * (t[low + 2] - t[low + 1])
    BY <1>3, <2>4, <2>5, <2>6
  <2>8. ~(low >= n - 1) /\ low - 1 + 2 = low + 1 /\ low + 1 \in Int
    BY <2>0, <2>1
  <2>9. quantile(t, q) = 100 * t[low + 1] + (at % 100) * (t[low + 2] - t[low + 1])
    BY <1>4, <2>1, <2>8
  <2> QED
    BY <2>7, <2>9 DEF t
<1> QED
  BY <1>1, <1>5, <1>6 DEF t

\* The reported percentiles are those of R-7 for the samples in the reservoir, of
\* any number, durations and order.
THEOREM PercentilesCorrect == LatencySpec => []QuantilesAreR7
<1>1. ASSUME StatsTypeOK, ReservoirIsSample PROVE QuantilesAreR7
  <2> SUFFICES ASSUME latencyCount > 0 PROVE QuantilesAreR7
    BY DEF QuantilesAreR7
  <2> DEFINE s == latencySamples
             order == CHOOSE p \in Bijection(DOMAIN s, DOMAIN s) :
                        \A i, j \in DOMAIN s : i < j => s[p[i]] <= s[p[j]]
  <2>1. s \in Seq(Nat) /\ Len(s) > 0
    <3>1. s \in Seq(Durations) /\ Durations \subseteq Nat
      BY <1>1 DEF StatsTypeOK
    <3>2. Len(s) > 0
      BY <1>1 DEF ReservoirIsSample, StatsTypeOK
    <3> HIDE DEF s
    <3>3. PICK n \in Nat : s \in [1..n -> Durations]
      BY <3>1
    <3>4. s \in [1..n -> Nat]
      BY <3>1, <3>3
    <3> QED
      BY <3>2, <3>4
  <2>2. \E p : IsOrder(p, s)
    <3>1. PICK n \in Nat : n = Len(s)
      BY <2>1
    <3>2. s \in [1..n -> Int]
      BY <2>1, <3>1
    <3> QED
      BY <3>1, <3>2, OrderExists
  <2>3. IsOrder(order, s)
    BY <2>2 DEF IsOrder
  <2>4. samplesCopy = [i \in DOMAIN s |-> s[order[i]]]
    BY DEF samplesCopy
  <2> HIDE DEF s, order
  <2>5. \A q \in 0..99 : quantile(samplesCopy, q) = Quantile7(s, q)
    BY <2>1, <2>3, <2>4, QuantileIsR7
  <2>6. /\ LatencySnapshot.p50 = quantile(samplesCopy, 50)
        /\ LatencySnapshot.p95 = quantile(samplesCopy, 95)
        /\ LatencySnapshot.p99 = quantile(samplesCopy, 99)
    BY <1>1 DEF LatencySnapshot, StatsTypeOK
  <2> QED
    BY <2>5, <2>6 DEF QuantilesAreR7, s
<1> QED
  BY <1>1, StatsTypeCorrect, ReservoirCorrect, PTL

-----------------------------------------------------------------------------
(* The process. *)

\* The channel, the worker and Close: who has ended has left nothing behind.
WorkerOK == /\ us # Nothing => worker = "receive"
            /\ worker = "exited" => chClosed /\ latencyCh = <<>>
            /\ closer = "open" <=> ~chClosed
            /\ closer = "closed" => worker = "exited"

\* The latencies that an answer begins with are not more than what it will read,
\* or has read, of the deliveries.
ReportOK == \A f \in Fetchers :
  /\ fpc[f] \in {"processed", "delivered"} => report[f].latencyCount <= delivered
  /\ fpc[f] \in {"noRecip", "answer"} => report[f].latencyCount <= report[f].delivered

MetricsInv == ServerTypeOK /\ WorkerOK /\ EveryDeliveryTimed /\ ReportOK

\* What the pumps and the worker have to do with deliveries, as one number each.
LEMMA RecordingFinite ==
  IsFiniteSet(Recording) /\ Cardinality(Recording) \in Nat
<1>1. Recording \in SUBSET Pumps
  BY DEF Recording
<1> QED
  BY <1>1, MetricsAssumption, FS_Subset, FS_CardinalityType

\* There are no more latencies than deliveries.
LEMMA FewerLatencies ==
  ASSUME ServerTypeOK, EveryDeliveryTimed
  PROVE  latencyCount <= delivered /\ latencyCount \in Nat
<1>1. /\ latencyCount \in Nat /\ dropped \in Nat /\ Len(latencyCh) \in Nat /\ InHand \in Nat
      /\ delivered \in Nat
  BY DEF ServerTypeOK, MetricsTypeOK, StatsTypeOK, InHand
<1> DEFINE r == Cardinality(Recording)
<1>2. r \in Nat /\ delivered = latencyCount + InHand + Len(latencyCh) + dropped + r
  BY RecordingFinite DEF EveryDeliveryTimed
<1> HIDE DEF r
<1> QED
  BY <1>1, <1>2

\* Reports are left as they are while deliveries grow.
LEMMA ReportIdle ==
  ASSUME ReportOK, ServerTypeOK, UNCHANGED fetchVars, delivered' \in {delivered, delivered + 1}
  PROVE  ReportOK'
<1> SUFFICES ASSUME NEW f \in Fetchers
             PROVE  /\ fpc[f] \in {"processed", "delivered"} => report[f].latencyCount <= delivered'
                    /\ fpc[f] \in {"noRecip", "answer"} => report[f].latencyCount <= report[f].delivered
  BY DEF ReportOK, fetchVars
<1>1. report[f].latencyCount \in Nat /\ delivered \in Nat
  BY DEF ServerTypeOK, MetricsTypeOK, NoReport
<1> QED
  BY <1>1 DEF ReportOK

\* The equation of EveryDeliveryTimed goes on to hold.
LEMMA TimedStep ==
  ASSUME ServerTypeOK, EveryDeliveryTimed,
         NEW a \in Int, delivered' = delivered + a,
         NEW b \in Int, Cardinality(Recording') = Cardinality(Recording) + b,
         latencyCount' + InHand' + Len(latencyCh') + dropped'
           = latencyCount + InHand + Len(latencyCh) + dropped + a - b,
         latencyCount' + InHand' + Len(latencyCh') + dropped' \in Int
  PROVE  EveryDeliveryTimed'
<1>1. /\ latencyCount \in Nat /\ dropped \in Nat /\ Len(latencyCh) \in Nat /\ InHand \in Nat
      /\ delivered \in Nat
  BY DEF ServerTypeOK, MetricsTypeOK, StatsTypeOK, InHand
<1> DEFINE r  == Cardinality(Recording)
           rr == Cardinality(Recording')
           t  == latencyCount + InHand + Len(latencyCh) + dropped
           tt == latencyCount' + InHand' + Len(latencyCh') + dropped'
<1>2. r \in Nat /\ rr = r + b /\ t \in Nat /\ tt \in Int /\ tt = t + a - b /\ delivered = t + r
  BY <1>1, RecordingFinite DEF EveryDeliveryTimed
<1>3. delivered' = tt + rr
  <2> HIDE DEF r, rr, t, tt
  <2> QED
    BY <1>1, <1>2
<1> QED
  BY <1>3 DEF EveryDeliveryTimed

\* Steps that leave the numbers of the equation alone.
LEMMA TimedIdle ==
  ASSUME EveryDeliveryTimed, UNCHANGED <<delivered, latencyCount, us, latencyCh, dropped, mpc>>
  PROVE  EveryDeliveryTimed'
  BY DEF EveryDeliveryTimed, InHand, Recording


\* A pump enters and leaves RecordLatency; nothing else moves the others.
LEMMA RecordingMoves ==
  ASSUME ServerTypeOK, NEW p \in Pumps, NEW l \in PumpPCs, mpc' = [mpc EXCEPT ![p] = l]
  PROVE  /\ mpc[p] # "record" /\ l # "record" => Cardinality(Recording') = Cardinality(Recording)
         /\ mpc[p] # "record" /\ l = "record" => Cardinality(Recording') = Cardinality(Recording) + 1
         /\ mpc[p] = "record" /\ l # "record" => Cardinality(Recording') = Cardinality(Recording) - 1
<1>0. mpc \in [Pumps -> PumpPCs]
  BY DEF ServerTypeOK, MetricsTypeOK
<1>1. ASSUME mpc[p] # "record", l # "record" PROVE Recording' = Recording
  BY <1>0, <1>1 DEF Recording
<1>2. ASSUME mpc[p] # "record", l = "record" PROVE Cardinality(Recording') = Cardinality(Recording) + 1
  <2>1. Recording' = Recording \cup {p} /\ p \notin Recording
    BY <1>0, <1>2 DEF Recording
  <2> QED
    BY <2>1, RecordingFinite, FS_AddElement
<1>3. ASSUME mpc[p] = "record", l # "record" PROVE Cardinality(Recording') = Cardinality(Recording) - 1
  <2>1. Recording' = Recording \ {p} /\ p \in Recording
    BY <1>0, <1>3 DEF Recording
  <2> QED
    BY <2>1, RecordingFinite, FS_RemoveElement
<1> QED
  BY <1>1, <1>2, <1>3

\* A pump delivers or fails, and records.
LEMMA PumpKeeps ==
  ASSUME MetricsInv, UNCHANGED mainVars, NEW p \in Pumps, Process(p) \/ PumpStep(p)
  PROVE  MetricsInv'
<1> USE DEF MetricsInv
<1>0. /\ latencyCount \in Nat /\ dropped \in Nat /\ Len(latencyCh) \in Nat /\ InHand \in Nat
      /\ delivered \in Nat /\ processed \in Nat /\ noRecip \in Nat /\ latencyCh \in Seq(Durations)
      /\ mpc \in [Pumps -> PumpPCs]
  BY DEF ServerTypeOK, MetricsTypeOK, StatsTypeOK, InHand
<1>1. /\ UNCHANGED <<chClosed, workerVars, fetchVars, closer, mainVars>>
      /\ latencyCount' = latencyCount /\ InHand' = InHand
  BY DEF Process, PumpStep, IncrementDeliverySuccess, IncrementDeliveryFailure, RecordLatency,
     RecordSend, RecordDrop, RecordPanic, Recorded, channel, workerVars, statsVars, InHand
<1>2. CASE Process(p) \/ IncrementDeliveryFailure(p)
  <2>1. /\ UNCHANGED <<delivered, latencyCh, dropped, panicked>> /\ mpc[p] # "record"
        /\ mpc' = [mpc EXCEPT ![p] = "write"] \/ mpc' = [mpc EXCEPT ![p] = "idle"]
        /\ processed' \in Nat /\ noRecip' \in Nat
    BY <1>0, <1>2 DEF Process, IncrementDeliveryFailure, channel
  <2>2. Cardinality(Recording') = Cardinality(Recording)
    BY <2>1, RecordingMoves DEF PumpPCs
  <2>3. EveryDeliveryTimed'
    BY <1>1, <2>1, <2>2 DEF EveryDeliveryTimed
  <2>4. ServerTypeOK'
    BY <1>0, <1>1, <2>1 DEF ServerTypeOK, MetricsTypeOK, StatsTypeOK, PumpPCs, workerVars, statsVars,
       fetchVars, mainVars
  <2>5. WorkerOK'
    BY <1>1, <2>1 DEF WorkerOK, workerVars
  <2> QED
    BY <1>1, <2>1, <2>3, <2>4, <2>5, ReportIdle
<1>3. CASE IncrementDeliverySuccess(p)
  <2>1. /\ UNCHANGED <<latencyCh, dropped, panicked, processed, noRecip>> /\ delivered' = delivered + 1
        /\ mpc[p] # "record" /\ mpc' = [mpc EXCEPT ![p] = "record"]
    BY <1>3 DEF IncrementDeliverySuccess, channel
  <2>2. Cardinality(Recording') = Cardinality(Recording) + 1
    BY <2>1, RecordingMoves DEF PumpPCs
  <2>3. EveryDeliveryTimed'
    <3>1. latencyCount' + InHand' + Len(latencyCh') + dropped'
            = latencyCount + InHand + Len(latencyCh) + dropped + 1 - 1
      BY <1>0, <1>1, <2>1
    <3>2. latencyCount' + InHand' + Len(latencyCh') + dropped' \in Int
      BY <1>0, <1>1, <2>1
    <3> QED
      BY <2>1, <2>2, <3>1, <3>2, TimedStep
  <2>4. ServerTypeOK'
    BY <1>0, <1>1, <2>1 DEF ServerTypeOK, MetricsTypeOK, StatsTypeOK, PumpPCs, workerVars, statsVars,
       fetchVars, mainVars
  <2>5. WorkerOK'
    BY <1>1, <2>1 DEF WorkerOK, workerVars
  <2> QED
    BY <1>1, <2>1, <2>3, <2>4, <2>5, ReportIdle
<1>4. CASE mpc[p] = "record" /\ (RecordSend(p) \/ RecordDrop(p))
  <2>1. /\ UNCHANGED <<panicked, counters>> /\ mpc' = [mpc EXCEPT ![p] = "idle"]
        /\ mpc[p] = "record" /\ ~chClosed
    BY <1>4 DEF RecordSend, RecordDrop, Recorded
  <2>2. \/ dropped' = dropped + 1 /\ latencyCh' = latencyCh
        \/ /\ dropped' = dropped /\ Len(latencyCh) < Capacity
           /\ \E d \in Durations : latencyCh' = Append(latencyCh, d)
    BY <1>4 DEF RecordSend, RecordDrop
  <2>3. /\ dropped' \in Nat /\ latencyCh' \in Seq(Durations) /\ Len(latencyCh') \in Nat
        /\ Len(latencyCh') <= Capacity
        /\ Len(latencyCh') + dropped' = Len(latencyCh) + dropped + 1
    <3>1. Capacity \in Nat /\ Len(latencyCh) <= Capacity
      BY MetricsAssumption DEF ServerTypeOK, MetricsTypeOK
    <3>2. CASE dropped' = dropped + 1 /\ latencyCh' = latencyCh
      BY <1>0, <3>1, <3>2
    <3>3. CASE /\ dropped' = dropped /\ Len(latencyCh) < Capacity
               /\ \E d \in Durations : latencyCh' = Append(latencyCh, d)
      <4>1. latencyCh' \in Seq(Durations) /\ Len(latencyCh') = Len(latencyCh) + 1
        BY <1>0, <3>3
      <4> QED
        BY <1>0, <3>1, <3>3, <4>1
    <3> QED
      BY <2>2, <3>2, <3>3
  <2>4. Cardinality(Recording') = Cardinality(Recording) - 1
    BY <2>1, RecordingMoves DEF PumpPCs
  <2>5. EveryDeliveryTimed'
    <3> DEFINE l  == Len(latencyCh)
               ll == Len(latencyCh')
               r  == Cardinality(Recording)
               rr == Cardinality(Recording')
    <3>1. /\ l \in Nat /\ ll \in Nat /\ dropped' \in Nat /\ ll + dropped' = l + dropped + 1
          /\ r \in Nat /\ rr = r - 1 /\ delivered' = delivered
          /\ delivered = latencyCount + InHand + l + dropped + r
      BY <1>0, <2>1, <2>3, <2>4, RecordingFinite DEF EveryDeliveryTimed, counters
    <3>2. delivered' = latencyCount + InHand + ll + dropped' + rr
      <4> HIDE DEF l, ll, r, rr
      <4>1. latencyCount + InHand + ll + dropped' + rr = latencyCount + InHand + (ll + dropped') + rr
        BY <1>0, <3>1
      <4>2. latencyCount + InHand + (l + dropped + 1) + (r - 1) = latencyCount + InHand + l + dropped + r
        BY <1>0, <3>1
      <4> QED
        BY <3>1, <4>1, <4>2
    <3> QED
      BY <1>1, <3>2 DEF EveryDeliveryTimed
  <2>6. ServerTypeOK'
    BY <1>0, <1>1, <2>1, <2>3 DEF ServerTypeOK, MetricsTypeOK, StatsTypeOK, PumpPCs, workerVars,
       statsVars, fetchVars, mainVars, counters
  <2>7. WorkerOK'
    BY <1>1, <2>1 DEF WorkerOK, workerVars
  <2> QED
    BY <1>1, <2>1, <2>5, <2>6, <2>7, ReportIdle DEF counters
<1>5. CASE RecordPanic(p)
  <2>1. /\ UNCHANGED <<mpc, counters, latencyCh, dropped>> /\ panicked' \in BOOLEAN
    BY <1>5 DEF RecordPanic, channel
  <2>2. ServerTypeOK'
    BY <1>0, <1>1, <2>1 DEF ServerTypeOK, MetricsTypeOK, StatsTypeOK, workerVars, statsVars, fetchVars,
       mainVars, counters
  <2>3. WorkerOK' /\ EveryDeliveryTimed'
    BY <1>1, <2>1, TimedIdle DEF WorkerOK, workerVars, statsVars, counters
  <2> QED
    BY <1>1, <2>1, <2>2, <2>3, ReportIdle DEF counters
<1> QED
  BY <1>2, <1>3, <1>4, <1>5 DEF PumpStep, RecordLatency

\* The worker takes a sample, adds it to the statistics, ends.
LEMMA WorkerKeeps ==
  ASSUME MetricsInv, UNCHANGED mainVars, WorkerStep
  PROVE  MetricsInv'
<1> USE DEF MetricsInv
<1>0. /\ latencyCount \in Nat /\ dropped \in Nat /\ Len(latencyCh) \in Nat /\ InHand \in Nat
      /\ delivered \in Nat /\ latencyCh \in Seq(Durations) /\ us \in Durations \cup {Nothing}
      /\ StatsTypeOK /\ Nothing \notin Durations
  BY DEF ServerTypeOK, MetricsTypeOK, StatsTypeOK, InHand, Nothing
<1>1. UNCHANGED <<counters, chClosed, mpc, fetchVars, closer, panicked, dropped, mainVars>>
  BY DEF WorkerStep, WorkerReceive, WorkerAggregate, WorkerExit, channel
<1>2. Cardinality(Recording') = Cardinality(Recording) + 0 /\ delivered' = delivered + 0
  BY <1>0, <1>1, RecordingFinite DEF Recording, counters
<1>3. CASE WorkerReceive
  <2>1. /\ us = Nothing /\ us' = Head(latencyCh) /\ latencyCh' = Tail(latencyCh) /\ latencyCh # <<>>
        /\ worker = "receive" /\ worker' = worker /\ UNCHANGED statsVars
    BY <1>3 DEF WorkerReceive
  <2>2. /\ us' \in Durations /\ latencyCh' \in Seq(Durations) /\ Len(latencyCh') = Len(latencyCh) - 1
        /\ Len(latencyCh') <= Capacity
    <3>1. us' \in Durations /\ latencyCh' \in Seq(Durations) /\ Len(latencyCh') = Len(latencyCh) - 1
      BY <1>0, <2>1
    <3>2. Len(latencyCh) <= Capacity /\ Capacity \in Nat
      BY MetricsAssumption DEF ServerTypeOK, MetricsTypeOK
    <3> QED
      BY <1>0, <3>1, <3>2
  <2>3. InHand = 0 /\ InHand' = 1
    BY <1>0, <2>1, <2>2 DEF InHand
  <2>4. EveryDeliveryTimed'
    <3>1. latencyCount' + InHand' + Len(latencyCh') + dropped'
            = latencyCount + InHand + Len(latencyCh) + dropped + 0 - 0
      BY <1>0, <1>1, <2>1, <2>2, <2>3 DEF statsVars
    <3>2. latencyCount' + InHand' + Len(latencyCh') + dropped' \in Int
      BY <1>0, <1>1, <2>1, <2>2, <2>3 DEF statsVars
    <3> QED
      BY <1>2, <3>1, <3>2, TimedStep
  <2>5. ServerTypeOK'
    BY <1>0, <1>1, <2>1, <2>2 DEF ServerTypeOK, MetricsTypeOK, StatsTypeOK, statsVars, fetchVars,
       mainVars, counters
  <2>6. WorkerOK'
    BY <1>1, <2>1 DEF WorkerOK
  <2> QED
    BY <1>1, <2>4, <2>5, <2>6, ReportIdle DEF counters
<1>4. CASE WorkerAggregate
  <2>1. us \in Durations /\ us' = Nothing /\ Aggregate(us) /\ UNCHANGED <<channel, worker>>
    BY <1>0, <1>4 DEF WorkerAggregate
  <2>2. StatsTypeOK' /\ latencyCount' = latencyCount + 1
    BY <1>0, <2>1, AggregateTypes
  <2>3. InHand = 1 /\ InHand' = 0
    BY <1>0, <2>1 DEF InHand
  <2>4. EveryDeliveryTimed'
    <3>1. latencyCount' + InHand' + Len(latencyCh') + dropped'
            = latencyCount + InHand + Len(latencyCh) + dropped + 0 - 0
      BY <1>0, <1>1, <2>1, <2>2, <2>3 DEF channel
    <3>2. latencyCount' + InHand' + Len(latencyCh') + dropped' \in Int
      BY <1>0, <1>1, <2>1, <2>2, <2>3 DEF channel
    <3> QED
      BY <1>2, <3>1, <3>2, TimedStep
  <2>5. ServerTypeOK'
    BY <1>0, <1>1, <2>1, <2>2 DEF ServerTypeOK, MetricsTypeOK, channel, fetchVars, mainVars, counters
  <2>6. WorkerOK'
    BY <1>1, <2>1 DEF WorkerOK, channel
  <2> QED
    BY <1>1, <2>4, <2>5, <2>6, ReportIdle DEF counters
<1>5. CASE WorkerExit
  <2>1. /\ us = Nothing /\ chClosed /\ latencyCh = <<>> /\ worker' = "exited"
        /\ UNCHANGED <<channel, us, statsVars>>
    BY <1>5 DEF WorkerExit
  <2>2. EveryDeliveryTimed'
    BY <1>1, <2>1, TimedIdle DEF channel, statsVars, counters
  <2>3. ServerTypeOK'
    BY <1>0, <1>1, <2>1 DEF ServerTypeOK, MetricsTypeOK, StatsTypeOK, WorkerPCs, channel, statsVars,
       fetchVars, mainVars, counters
  <2>4. WorkerOK'
    BY <1>1, <2>1 DEF WorkerOK, channel
  <2> QED
    BY <1>1, <2>2, <2>3, <2>4, ReportIdle DEF counters
<1> QED
  BY <1>3, <1>4, <1>5 DEF WorkerStep


\* Requests and FetchMetrics leave everything but reports alone.
LEMMA ReportStep ==
  ASSUME MetricsInv, UNCHANGED <<counters, channel, workerVars, mpc, closer, panicked, dropped, mainVars>>,
         fpc' \in [Fetchers -> FetchPCs], report' \in [Fetchers -> [DOMAIN NoReport -> Nat]], ReportOK'
  PROVE  MetricsInv'
<1>1. ServerTypeOK'
  BY DEF MetricsInv, ServerTypeOK, MetricsTypeOK, StatsTypeOK, counters, channel, workerVars, statsVars,
     mainVars
<1>2. WorkerOK'
  BY DEF MetricsInv, WorkerOK, channel, workerVars
<1>3. EveryDeliveryTimed'
  BY TimedIdle DEF MetricsInv, counters, channel, workerVars, statsVars
<1> QED
  BY <1>1, <1>2, <1>3 DEF MetricsInv

\* FetchMetrics reads the latencies before the deliveries.
LEMMA FetchKeeps ==
  ASSUME MetricsInv, UNCHANGED mainVars, NEW f \in Fetchers, FetchMetrics(f)
  PROVE  MetricsInv'
<1>0. /\ fpc \in [Fetchers -> FetchPCs] /\ report \in [Fetchers -> [DOMAIN NoReport -> Nat]]
      /\ delivered \in Nat /\ processed \in Nat /\ noRecip \in Nat
  BY DEF MetricsInv, ServerTypeOK, MetricsTypeOK
<1>1. latencyCount \in Nat /\ latencyCount <= delivered
  BY FewerLatencies DEF MetricsInv
<1>2. UNCHANGED <<counters, channel, workerVars, mpc, closer, panicked, dropped, mainVars>>
  BY DEF FetchMetrics, Fetch
<1>3. ASSUME NEW at, NEW next \in FetchPCs, NEW field \in DOMAIN NoReport, NEW value \in Nat,
             Fetch(f, at, next, field, value)
      PROVE  /\ fpc' \in [Fetchers -> FetchPCs] /\ report' \in [Fetchers -> [DOMAIN NoReport -> Nat]]
             /\ fpc[f] = at /\ fpc'[f] = next /\ report'[f][field] = value
             /\ \A k \in DOMAIN NoReport : k # field => report'[f][k] = report[f][k]
             /\ \A g \in Fetchers : g # f => fpc'[g] = fpc[g] /\ report'[g] = report[g]
  <2>1. /\ fpc[f] = at /\ fpc' = [fpc EXCEPT ![f] = next]
        /\ report' = [report EXCEPT ![f][field] = value]
    BY <1>3 DEF Fetch
  <2>2. report' = [report EXCEPT ![f] = [report[f] EXCEPT ![field] = value]]
    BY <2>1
  <2>3. [report[f] EXCEPT ![field] = value] \in [DOMAIN NoReport -> Nat]
    BY <1>0
  <2> QED
    BY <1>0, <2>1, <2>2, <2>3
<1>4. DOMAIN NoReport = {"latencyCount", "processed", "delivered", "noRecip"}
  BY DEF NoReport
<1>5. ASSUME NEW g \in Fetchers, g # f, fpc'[g] = fpc[g], report'[g] = report[g]
      PROVE  /\ fpc'[g] \in {"processed", "delivered"} => report'[g].latencyCount <= delivered'
             /\ fpc'[g] \in {"noRecip", "answer"} => report'[g].latencyCount <= report'[g].delivered
  BY <1>2, <1>5 DEF MetricsInv, ReportOK, counters
<1>6. ASSUME NEW at, NEW next \in FetchPCs, NEW field \in DOMAIN NoReport, NEW value \in Nat,
             Fetch(f, at, next, field, value),
             next \in {"processed", "delivered"} => report'[f].latencyCount <= delivered,
             next \in {"noRecip", "answer"} => report'[f].latencyCount <= report'[f].delivered
      PROVE  MetricsInv'
  <2>1. /\ fpc' \in [Fetchers -> FetchPCs] /\ report' \in [Fetchers -> [DOMAIN NoReport -> Nat]]
        /\ fpc'[f] = next
        /\ \A g \in Fetchers : g # f => fpc'[g] = fpc[g] /\ report'[g] = report[g]
    BY <1>3, <1>6
  <2>2. ReportOK'
    <3> SUFFICES ASSUME NEW g \in Fetchers
                 PROVE  /\ fpc'[g] \in {"processed", "delivered"} => report'[g].latencyCount <= delivered'
                        /\ fpc'[g] \in {"noRecip", "answer"} =>
                             report'[g].latencyCount <= report'[g].delivered
      BY DEF ReportOK
    <3>1. CASE g = f
      BY <1>2, <1>6, <2>1, <3>1 DEF counters
    <3>2. CASE g # f
      BY <1>5, <2>1, <3>2
    <3> QED
      BY <3>1, <3>2
  <2> QED
    BY <1>2, <2>1, <2>2, ReportStep
<1>7. /\ "processed" \in FetchPCs /\ "delivered" \in FetchPCs /\ "noRecip" \in FetchPCs
      /\ "answer" \in FetchPCs
  BY DEF FetchPCs
<1>8. CASE Fetch(f, "latency", "processed", "latencyCount", LatencySnapshot.count)
  <2>1. Fetch(f, "latency", "processed", "latencyCount", latencyCount)
    BY <1>8, SnapshotCount
  <2>2. report'[f]["latencyCount"] = latencyCount
    BY <1>1, <1>3, <1>4, <1>7, <2>1
  <2> QED
    BY <1>1, <1>4, <1>6, <1>7, <2>1, <2>2
<1>9. CASE Fetch(f, "processed", "delivered", "processed", processed)
  <2>1. fpc[f] = "processed" /\ report'[f]["latencyCount"] = report[f]["latencyCount"]
    <3>1. /\ fpc[f] = "processed" /\ report' = [report EXCEPT ![f]["processed"] = processed]
      BY <1>9 DEF Fetch
    <3> QED
      BY <1>0, <1>4, <3>1
  <2>2. report[f].latencyCount <= delivered
    BY <2>1 DEF MetricsInv, ReportOK
  <2> QED
    BY <1>0, <1>4, <1>6, <1>7, <1>9, <2>1, <2>2
<1>10. CASE Fetch(f, "delivered", "noRecip", "delivered", delivered)
  <2>1. /\ fpc[f] = "delivered" /\ report'[f]["latencyCount"] = report[f]["latencyCount"]
        /\ report'[f]["delivered"] = delivered
    <3>1. /\ fpc[f] = "delivered" /\ report' = [report EXCEPT ![f]["delivered"] = delivered]
      BY <1>10 DEF Fetch
    <3> QED
      BY <1>0, <1>4, <3>1
  <2>2. report[f].latencyCount <= delivered
    BY <2>1 DEF MetricsInv, ReportOK
  <2> QED
    BY <1>0, <1>4, <1>6, <1>7, <1>10, <2>1, <2>2
<1>11. CASE Fetch(f, "noRecip", "answer", "noRecip", noRecip)
  <2>1. /\ fpc[f] = "noRecip" /\ report'[f]["latencyCount"] = report[f]["latencyCount"]
        /\ report'[f]["delivered"] = report[f]["delivered"]
    <3>1. /\ fpc[f] = "noRecip" /\ report' = [report EXCEPT ![f]["noRecip"] = noRecip]
      BY <1>11 DEF Fetch
    <3> QED
      BY <1>0, <1>4, <3>1
  <2>2. report[f].latencyCount <= report[f].delivered
    BY <2>1 DEF MetricsInv, ReportOK
  <2> QED
    BY <1>0, <1>4, <1>6, <1>7, <1>11, <2>1, <2>2
<1> QED
  BY <1>8, <1>9, <1>10, <1>11 DEF FetchMetrics

\* A request comes in, an answer goes out.
LEMMA RequestKeeps ==
  ASSUME MetricsInv, NEW f \in Fetchers, Request(f) \/ Answer(f)
  PROVE  MetricsInv'
<1>0. /\ fpc \in [Fetchers -> FetchPCs] /\ report \in [Fetchers -> [DOMAIN NoReport -> Nat]]
  BY DEF MetricsInv, ServerTypeOK, MetricsTypeOK
<1>1. UNCHANGED <<counters, channel, workerVars, mpc, closer, panicked, dropped, mainVars>>
  BY DEF Request, Answer
<1>2. NoReport \in [DOMAIN NoReport -> Nat]
  BY DEF NoReport
<1>3. fpc' \in [Fetchers -> FetchPCs] /\ report' \in [Fetchers -> [DOMAIN NoReport -> Nat]]
  BY <1>0, <1>2 DEF Request, Answer, FetchPCs
<1>4. \A g \in Fetchers : \/ fpc'[g] = fpc[g] /\ report'[g] = report[g]
                          \/ fpc'[g] \in {"latency", "none"}
  BY <1>0 DEF Request, Answer
<1>5. ReportOK'
  BY <1>1, <1>4 DEF MetricsInv, ReportOK, counters
<1> QED
  BY <1>1, <1>3, <1>5, ReportStep

\* The steps of main and of the sampler. Only Close touches the metrics.
LEMMA MainKeeps ==
  ASSUME MetricsInv, Signal \/ SamplerStop \/ MainStep
  PROVE  MetricsInv'
<1>1. /\ UNCHANGED <<counters, latencyCh, workerVars, mpc, fetchVars, panicked, dropped>>
      /\ \/ chClosed' = chClosed /\ closer' = closer
         \/ chClosed' = TRUE /\ closer = "open" /\ closer' = "wait"
         \/ chClosed' = chClosed /\ closer = "wait" /\ worker = "exited" /\ closer' = "closed"
  BY DEF Signal, SamplerStop, MainStep, CloseSampler, CloseApp, WaitApp, CloseListener, Drained,
     DrainTimeout, CloseLatencyCh, WaitWorker, metricsVars, channel
<1>2. main' \in MainPCs /\ stopSampler' \in BOOLEAN /\ sampler' \in {"running", "stopped"}
  BY DEF MetricsInv, ServerTypeOK, Signal, SamplerStop, MainStep, CloseSampler, CloseApp, WaitApp,
     CloseListener, Drained, DrainTimeout, Go, MainPCs
<1>3. ServerTypeOK'
  BY <1>1, <1>2 DEF MetricsInv, ServerTypeOK, MetricsTypeOK, StatsTypeOK, ClosePCs, counters,
     workerVars, statsVars, fetchVars
<1>4. WorkerOK'
  BY <1>1 DEF MetricsInv, WorkerOK, workerVars
<1>5. EveryDeliveryTimed'
  BY <1>1, TimedIdle DEF MetricsInv, counters, workerVars, statsVars
<1>6. ReportOK'
  BY <1>1, ReportIdle DEF MetricsInv, counters
<1> QED
  BY <1>3, <1>4, <1>5, <1>6 DEF MetricsInv

\* The invariant holds when the process starts.
LEMMA MetricsInvInit == ServerInit => MetricsInv
<1> SUFFICES ASSUME ServerInit PROVE MetricsInv
  OBVIOUS
<1>1. ServerTypeOK
  <2>1. StatsTypeOK
    BY LatencyAssumption DEF ServerInit, MetricsInit, StatsInit, StatsTypeOK
  <2>2. report \in [Fetchers -> [DOMAIN NoReport -> Nat]]
    <3>1. NoReport \in [DOMAIN NoReport -> Nat]
      BY DEF NoReport
    <3> QED
      BY <3>1 DEF ServerInit, MetricsInit
  <2>3. latencyCh \in Seq(Durations) /\ Len(latencyCh) <= Capacity
    BY MetricsAssumption DEF ServerInit, MetricsInit
  <2> QED
    BY <2>1, <2>2, <2>3 DEF ServerInit, MetricsInit, ServerTypeOK, MetricsTypeOK, MainPCs, ClosePCs,
       WorkerPCs, PumpPCs, FetchPCs
<1>2. Recording = {} /\ InHand = 0
  BY DEF ServerInit, MetricsInit, Recording, InHand
<1>3. EveryDeliveryTimed
  BY <1>2, FS_EmptySet DEF ServerInit, MetricsInit, StatsInit, EveryDeliveryTimed
<1> QED
  BY <1>1, <1>3 DEF ServerInit, MetricsInit, MetricsInv, WorkerOK, ReportOK

\* Every step of the process keeps it.
LEMMA MetricsInvStep == MetricsInv /\ [ServerNext]_serverVars => MetricsInv'
<1> SUFFICES ASSUME MetricsInv, [ServerNext]_serverVars PROVE MetricsInv'
  OBVIOUS
<1>1. CASE MetricsStep
  BY <1>1, PumpKeeps, WorkerKeeps, FetchKeeps DEF MetricsStep
<1>2. ASSUME NEW f \in Fetchers, Request(f) \/ Answer(f) PROVE MetricsInv'
  BY <1>2, RequestKeeps
<1>3. CASE Signal \/ SamplerStop \/ MainStep
  BY <1>3, MainKeeps
<1>4. CASE UNCHANGED serverVars
  <2>1. /\ UNCHANGED <<counters, channel, workerVars, mpc, closer, panicked, dropped, mainVars>>
        /\ UNCHANGED fetchVars
    BY <1>4 DEF serverVars, metricsVars
  <2>2. ReportOK'
    BY <2>1, ReportIdle DEF MetricsInv, counters
  <2>3. fpc' \in [Fetchers -> FetchPCs] /\ report' \in [Fetchers -> [DOMAIN NoReport -> Nat]]
    BY <2>1 DEF MetricsInv, ServerTypeOK, MetricsTypeOK, fetchVars
  <2> QED
    BY <2>1, <2>2, <2>3, ReportStep
<1> QED
  BY <1>1, <1>2, <1>3, <1>4 DEF ServerNext

\* The invariant holds.
LEMMA MetricsInvHolds == ServerSpec => []MetricsInv
<1> QED
  BY MetricsInvInit, MetricsInvStep, PTL DEF ServerSpec

-----------------------------------------------------------------------------
\* The state of the process is well typed: the channel is never above its
\* capacity, the reservoir within its limit and no counter below zero.
THEOREM ServerTypeCorrect == ServerSpec => []ServerTypeOK
<1>1. MetricsInv => ServerTypeOK
  BY DEF MetricsInv
<1> QED
  BY <1>1, MetricsInvHolds, PTL

\* The latency of each delivery that was counted is aggregated, on its way, or was
\* dropped at a full channel, whatever pumps and worker do concurrently.
THEOREM DeliveriesTimed == ServerSpec => []EveryDeliveryTimed
<1>1. MetricsInv => EveryDeliveryTimed
  BY DEF MetricsInv
<1> QED
  BY <1>1, MetricsInvHolds, PTL

\* An answer of /metrics never shows more latencies than deliveries, although its
\* numbers are read one after the other.
THEOREM AnswersConsistent == ServerSpec => []AnswerConsistent
<1>1. MetricsInv => AnswerConsistent
  BY DEF MetricsInv, ReportOK, AnswerConsistent
<1> QED
  BY <1>1, MetricsInvHolds, PTL

\* When Close has returned, the statistics have every latency that was accepted.
THEOREM CloseIsFlush == ServerSpec => []CloseFlushes
<1>1. MetricsInv => CloseFlushes
  <2> SUFFICES ASSUME MetricsInv, closer = "closed"
               PROVE  delivered = latencyCount + dropped + Cardinality(Recording)
    BY DEF CloseFlushes
  <2>1. latencyCh = <<>> /\ InHand = 0
    BY DEF MetricsInv, WorkerOK, InHand
  <2>2. latencyCount \in Nat /\ dropped \in Nat /\ Cardinality(Recording) \in Nat
    BY RecordingFinite DEF MetricsInv, ServerTypeOK, MetricsTypeOK, StatsTypeOK
  <2>3. delivered = latencyCount + 0 + 0 + dropped + Cardinality(Recording)
    BY <2>1 DEF MetricsInv, EveryDeliveryTimed
  <2> QED
    BY <2>2, <2>3
<1> QED
  BY <1>1, MetricsInvHolds, PTL

-----------------------------------------------------------------------------
(* The end of the process. *)

\* How far main is with Shutdown tells how far Close is, and a panic is final.
PhaseOK == /\ main \in {"serving", "shutdown", "closeApp"} <=> closer = "open"
           /\ main = "waitApp" <=> closer = "wait"
           /\ panicked => main \in {"waitApp", "closeListener", "drain"}

\* A delivery can bring the process down only between Close and its end, and the
\* process does not end in order before Close has returned.
DownOnlyInShutdown ==
  /\ panicked => main \in {"waitApp", "closeListener", "drain"}
  /\ main \in {"closeListener", "drain", "stopped", "failed"} => closer = "closed"

\* A pump's step panics only after Close.
LEMMA PumpPhase ==
  ASSUME MetricsInv, PhaseOK, Alive, MetricsStep
  PROVE  PhaseOK'
<1>1. UNCHANGED <<main, closer>>
  BY DEF MetricsStep, mainVars, Process, PumpStep, IncrementDeliverySuccess, IncrementDeliveryFailure,
     RecordLatency, RecordSend, RecordDrop, RecordPanic, Recorded, FetchMetrics, Fetch, WorkerStep,
     WorkerReceive, WorkerAggregate, WorkerExit
<1>2. panicked' = panicked \/ chClosed
  BY DEF MetricsStep, Process, PumpStep, IncrementDeliverySuccess, IncrementDeliveryFailure,
     RecordLatency, RecordSend, RecordDrop, RecordPanic, Recorded, FetchMetrics, Fetch, WorkerStep,
     WorkerReceive, WorkerAggregate, WorkerExit
<1>3. ~panicked /\ main \notin {"stopped", "failed"} /\ main \in MainPCs
  BY DEF Alive, MetricsInv, ServerTypeOK
<1>4. chClosed => main \in {"waitApp", "closeListener", "drain"}
  BY <1>3 DEF MetricsInv, WorkerOK, PhaseOK, MainPCs
<1> QED
  BY <1>1, <1>2, <1>3, <1>4 DEF PhaseOK

\* main goes through Shutdown step by step.
LEMMA MainPhase ==
  ASSUME MetricsInv, PhaseOK, Alive, Signal \/ SamplerStop \/ MainStep
  PROVE  PhaseOK'
<1>1. ~panicked /\ panicked' = panicked
  BY DEF Alive, Signal, SamplerStop, MainStep, CloseSampler, CloseApp, WaitApp,
     CloseListener, Drained, DrainTimeout, CloseLatencyCh, WaitWorker, metricsVars
<1>2. CASE Signal \/ SamplerStop \/ CloseSampler
  BY <1>1, <1>2 DEF Signal, SamplerStop, CloseSampler, Go, PhaseOK, metricsVars
<1>3. CASE CloseApp
  BY <1>1, <1>3 DEF CloseApp, CloseLatencyCh, Go, PhaseOK
<1>4. CASE WaitApp
  BY <1>1, <1>4 DEF WaitApp, WaitWorker, Go, PhaseOK
<1>5. CASE CloseListener \/ Drained \/ DrainTimeout
  BY <1>1, <1>5 DEF CloseListener, Drained, DrainTimeout, Go, PhaseOK, metricsVars
<1> QED
  BY <1>2, <1>3, <1>4, <1>5 DEF MainStep

\* What is left of RecordLatencySafe: deliveries are harmless until Shutdown has
\* closed the App; and an orderly end comes after the flush of CloseFlushes.
THEOREM PanicOnlyInShutdown == ServerSpec => []DownOnlyInShutdown
<1>1. ServerInit => PhaseOK
  BY DEF ServerInit, MetricsInit, PhaseOK
<1>2. MetricsInv /\ PhaseOK /\ [ServerNext]_serverVars => PhaseOK'
  <2> SUFFICES ASSUME MetricsInv, PhaseOK, [ServerNext]_serverVars PROVE PhaseOK'
    OBVIOUS
  <2>1. ASSUME NEW f \in Fetchers, Request(f) \/ Answer(f) PROVE PhaseOK'
    BY <2>1 DEF Request, Answer, mainVars, PhaseOK
  <2>2. CASE UNCHANGED serverVars
    BY <2>2 DEF serverVars, metricsVars, mainVars, PhaseOK
  <2> QED
    BY <2>1, <2>2, PumpPhase, MainPhase DEF ServerNext
<1>3. MetricsInv /\ PhaseOK => DownOnlyInShutdown
  BY DEF MetricsInv, ServerTypeOK, MetricsTypeOK, ClosePCs, PhaseOK, DownOnlyInShutdown
<1> QED
  BY <1>1, <1>2, <1>3, MetricsInvHolds, PTL DEF ServerSpec
=============================================================================
