------------------------------ MODULE Metrics ------------------------------
(***************************************************************************)
(* The metrics of Relayer: the counters, the channel that takes latencies  *)
(* from the write pumps to the worker, the worker, FetchMetrics and Close. *)
(*                                                                         *)
(* A pump delivers one message after the other; where its messages come    *)
(* from is the subject of Relay. The position of a pump:                   *)
(*                                                                         *)
(*   idle -> write -> record -> idle     (or, if the write fails, idle)    *)
(*                                                                         *)
(* and of a FetchMetrics call, named after what it reads next:             *)
(*                                                                         *)
(*   none -> latency -> processed -> delivered -> noRecip -> answer        *)
(***************************************************************************)
EXTENDS Latency

CONSTANTS
  Pumps,              \* write pumps
  Fetchers,           \* callers of FetchMetrics
  Capacity            \* places in latencyCh (65536 in the code)

ASSUME MetricsAssumption == Capacity \in Nat \ {0} /\ IsFiniteSet(Pumps)

Nothing == -1         \* the worker holds no sample

PumpPCs   == {"idle", "write", "record"}
FetchPCs  == {"none", "latency", "processed", "delivered", "noRecip", "answer"}
WorkerPCs == {"receive", "exited"}
ClosePCs  == {"open", "wait", "closed"}

VARIABLES
  processed, delivered, noRecip,   \* atomic counters
  latencyCh, chClosed,             \* the channel, and whether it is closed
  worker, us,                      \* the worker, and the sample it took
  mpc, fpc,                        \* positions of pumps and of FetchMetrics calls
  report,                          \* what a FetchMetrics call has read so far
  closer,                          \* how far Close has come
  panicked,                        \* history: a send on the closed channel
  dropped                          \* history: samples that found the channel full

counters   == <<processed, delivered, noRecip>>
channel    == <<latencyCh, chClosed>>
workerVars == <<worker, us, statsVars>>
fetchVars  == <<fpc, report>>
metricsVars == <<counters, channel, workerVars, mpc, fetchVars, closer, panicked, dropped>>

NoReport == [latencyCount |-> 0, processed |-> 0, delivered |-> 0, noRecip |-> 0]

MetricsInit ==
  /\ StatsInit
  /\ processed = 0 /\ delivered = 0 /\ noRecip = 0
  /\ latencyCh = <<>> /\ chClosed = FALSE
  /\ worker = "receive" /\ us = Nothing
  /\ mpc = [p \in Pumps |-> "idle"]
  /\ fpc = [f \in Fetchers |-> "none"]
  /\ report = [f \in Fetchers |-> NoReport]
  /\ closer = "open" /\ panicked = FALSE /\ dropped = 0

-----------------------------------------------------------------------------
(* Write pumps. *)

\* HandleMessage counts a message and queues it for this pump.
Process(p) ==
  /\ mpc[p] = "idle"
  /\ processed < MaxSamples
  /\ processed' = processed + 1
  /\ mpc' = [mpc EXCEPT ![p] = "write"]
  /\ UNCHANGED <<delivered, noRecip, channel, workerVars, fetchVars, closer, panicked, dropped>>

\* The write succeeded: IncrementDeliverySuccess.
IncrementDeliverySuccess(p) ==
  /\ mpc[p] = "write"
  /\ delivered' = delivered + 1
  /\ mpc' = [mpc EXCEPT ![p] = "record"]
  /\ UNCHANGED <<processed, noRecip, channel, workerVars, fetchVars, closer, panicked, dropped>>

\* The write failed: IncrementDeliveryFailure.
IncrementDeliveryFailure(p) ==
  /\ mpc[p] = "write"
  /\ noRecip' = noRecip + 1
  /\ mpc' = [mpc EXCEPT ![p] = "idle"]
  /\ UNCHANGED <<processed, delivered, channel, workerVars, fetchVars, closer, panicked, dropped>>

Recorded(p) ==
  /\ mpc' = [mpc EXCEPT ![p] = "idle"]
  /\ UNCHANGED <<counters, chClosed, workerVars, fetchVars, closer>>

\* select with default: the sample is queued or, if the channel is full, dropped.
\* A send on a closed channel panics in a select as well.
RecordSend(p) ==
  /\ ~chClosed /\ Len(latencyCh) < Capacity
  /\ \E d \in Durations : latencyCh' = Append(latencyCh, d)
  /\ Recorded(p)
  /\ UNCHANGED <<panicked, dropped>>

RecordDrop(p) ==
  /\ ~chClosed /\ Len(latencyCh) >= Capacity
  /\ dropped' = dropped + 1
  /\ Recorded(p)
  /\ UNCHANGED <<latencyCh, panicked>>

RecordPanic(p) ==
  /\ chClosed
  /\ panicked' = TRUE
  /\ UNCHANGED <<mpc, counters, channel, workerVars, fetchVars, closer, dropped>>

RecordLatency(p) == mpc[p] = "record" /\ (RecordSend(p) \/ RecordDrop(p) \/ RecordPanic(p))

PumpStep(p) == IncrementDeliverySuccess(p) \/ IncrementDeliveryFailure(p) \/ RecordLatency(p)

-----------------------------------------------------------------------------
(* The latency worker: for us := range latencyCh. *)

WorkerReceive ==
  /\ worker = "receive" /\ us = Nothing
  /\ latencyCh # <<>>
  /\ us' = Head(latencyCh)
  /\ latencyCh' = Tail(latencyCh)
  /\ UNCHANGED <<counters, chClosed, worker, statsVars, mpc, fetchVars, closer, panicked, dropped>>

\* A fault of the critical section: a sample that finds the reservoir full is
\* thrown away.
WorkerAggregateUntilFull ==
  /\ us # Nothing
  /\ us' = Nothing
  /\ IF Len(latencySamples) < latencyReservoir THEN Aggregate(us) ELSE UNCHANGED statsVars
  /\ UNCHANGED <<counters, channel, worker, mpc, fetchVars, closer, panicked, dropped>>

WorkerAggregate ==
  /\ us # Nothing
  /\ us' = Nothing
  /\ Aggregate(us)
  /\ UNCHANGED <<counters, channel, worker, mpc, fetchVars, closer, panicked, dropped>>

\* A fault of the loop: it ends as soon as the channel is closed.
WorkerExitAtOnce ==
  /\ worker = "receive" /\ us = Nothing
  /\ chClosed
  /\ worker' = "exited"
  /\ UNCHANGED <<counters, channel, us, statsVars, mpc, fetchVars, closer, panicked, dropped>>

\* The range over a closed channel ends when the channel is drained.
WorkerExit ==
  /\ worker = "receive" /\ us = Nothing
  /\ chClosed /\ latencyCh = <<>>
  /\ worker' = "exited"
  /\ UNCHANGED <<counters, channel, us, statsVars, mpc, fetchVars, closer, panicked, dropped>>

WorkerStep == WorkerReceive \/ WorkerAggregate \/ WorkerExit

-----------------------------------------------------------------------------
(* FetchMetrics: the latency snapshot under its lock, then the counters. *)

Fetch(f, at, next, field, value) ==
  /\ fpc[f] = at
  /\ fpc' = [fpc EXCEPT ![f] = next]
  /\ report' = [report EXCEPT ![f][field] = value]
  /\ UNCHANGED <<counters, channel, workerVars, mpc, closer, panicked, dropped>>

\* A fault of FetchMetrics: the counters are read before the snapshot.
FetchCountersFirst(f) ==
  \/ Fetch(f, "latency",   "processed", "delivered",    delivered)
  \/ Fetch(f, "processed", "delivered", "processed",    processed)
  \/ Fetch(f, "delivered", "noRecip",   "noRecip",      noRecip)
  \/ Fetch(f, "noRecip",   "answer",    "latencyCount", LatencySnapshot.count)

FetchMetrics(f) ==
  \/ Fetch(f, "latency",   "processed", "latencyCount", LatencySnapshot.count)
  \/ Fetch(f, "processed", "delivered", "processed",    processed)
  \/ Fetch(f, "delivered", "noRecip",   "delivered",    delivered)
  \/ Fetch(f, "noRecip",   "answer",    "noRecip",      noRecip)

-----------------------------------------------------------------------------
(* Close: close(latencyCh), then wait for the worker. *)

CloseLatencyCh ==
  /\ closer = "open"
  /\ chClosed' = TRUE
  /\ closer' = "wait"
  /\ UNCHANGED <<counters, latencyCh, workerVars, mpc, fetchVars, panicked, dropped>>

WaitWorker ==
  /\ closer = "wait"
  /\ worker = "exited"
  /\ closer' = "closed"
  /\ UNCHANGED <<counters, channel, workerVars, mpc, fetchVars, panicked, dropped>>

-----------------------------------------------------------------------------
\* Type invariant.
MetricsTypeOK ==
  /\ StatsTypeOK
  /\ processed \in Nat /\ delivered \in Nat /\ noRecip \in Nat
  /\ latencyCh \in Seq(Durations) /\ Len(latencyCh) <= Capacity
  /\ chClosed \in BOOLEAN /\ panicked \in BOOLEAN
  /\ worker \in WorkerPCs /\ us \in Durations \cup {Nothing}
  /\ mpc \in [Pumps -> PumpPCs] /\ fpc \in [Fetchers -> FetchPCs]
  /\ report \in [Fetchers -> [DOMAIN NoReport -> Nat]]
  /\ closer \in ClosePCs /\ dropped \in Nat

Recording == {p \in Pumps : mpc[p] = "record"}
InHand    == IF us = Nothing THEN 0 ELSE 1

\* relayer.go says of latencyCount that it "matches delivered count", which a full
\* channel refutes, for good. What holds instead: the two differ by the latencies
\* that are on their way and by those that RecordLatency dropped because the channel
\* was full, and by nothing else, whatever FetchMetrics, Close and the failed writes
\* do in between.
EveryDeliveryTimed ==
  delivered = latencyCount + InHand + Len(latencyCh) + dropped + Cardinality(Recording)

\* An answer never shows more latencies than deliveries, although it is put
\* together from values read one after the other.
AnswerConsistent ==
  \A f \in Fetchers : fpc[f] = "answer" => report[f].latencyCount <= report[f].delivered

\* When Close has returned, every latency that was accepted is in the statistics.
CloseFlushes ==
  closer = "closed" => delivered = latencyCount + dropped + Cardinality(Recording)
=============================================================================
