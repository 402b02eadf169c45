------------------------------- MODULE Server -------------------------------
(***************************************************************************)
(* The life of the relay process: cmd/relayer and server.Server around the *)
(* metrics of the App. Requests of /metrics are answered concurrently with *)
(* deliveries; a signal makes main run Server.Shutdown:                    *)
(*                                                                         *)
(*   serving -> shutdown -> closeApp -> waitApp -> closeListener           *)
(*           -> drain -> stopped  (or failed, when the time is up)         *)
(*                                                                         *)
(* http.Server.Shutdown is external: it stops accepting connections and    *)
(* waits for the requests in progress, but not for hijacked connections.   *)
(* WebSocket connections are hijacked, so their pumps run on until the     *)
(* process ends. A panic in any goroutine ends the process.                *)
(***************************************************************************)
EXTENDS Metrics

MainPCs == {"serving", "shutdown", "closeApp", "waitApp", "closeListener",
            "drain", "stopped", "failed"}

VARIABLES
  main,               \* position of main
  stopSampler,        \* is the channel of that name closed?
  sampler             \* the CPU sampler

mainVars   == <<main, stopSampler, sampler>>
serverVars == <<metricsVars, mainVars>>

Alive == main \notin {"stopped", "failed"} /\ ~panicked

Idle == \A f \in Fetchers : fpc[f] = "none"

ServerInit ==
  /\ MetricsInit
  /\ main = "serving" /\ stopSampler = FALSE /\ sampler = "running"

-----------------------------------------------------------------------------
(* metricsHandler. *)

\* A request comes in on a connection accepted before the listener is closed.
Request(f) ==
  /\ main \notin {"drain", "stopped", "failed"}
  /\ fpc[f] = "none"
  /\ fpc' = [fpc EXCEPT ![f] = "latency"]
  /\ UNCHANGED <<report, counters, channel, workerVars, mpc, closer, panicked, dropped, mainVars>>

Answer(f) ==
  /\ fpc[f] = "answer"
  /\ fpc' = [fpc EXCEPT ![f] = "none"]
  /\ report' = [report EXCEPT ![f] = NoReport]
  /\ UNCHANGED <<counters, channel, workerVars, mpc, closer, panicked, dropped, mainVars>>

-----------------------------------------------------------------------------
(* main and Shutdown. *)

Go(at, next) == main = at /\ main' = next

\* SIGINT or SIGTERM.
Signal == Go("serving", "shutdown") /\ UNCHANGED <<metricsVars, stopSampler, sampler>>

CloseSampler == /\ Go("shutdown", "closeApp")
                /\ stopSampler' = TRUE
                /\ UNCHANGED <<metricsVars, sampler>>

SamplerStop == /\ sampler = "running" /\ stopSampler
               /\ sampler' = "stopped"
               /\ UNCHANGED <<metricsVars, main, stopSampler>>

\* A fault of Shutdown: the App is waited for but not closed.
CloseAppForgotten == /\ Go("closeApp", "waitApp")
                     /\ closer' = "wait"
                     /\ UNCHANGED <<counters, channel, workerVars, mpc, fetchVars, panicked, dropped>>
                     /\ UNCHANGED <<stopSampler, sampler>>

CloseApp == Go("closeApp", "waitApp") /\ CloseLatencyCh /\ UNCHANGED <<stopSampler, sampler>>

WaitApp == Go("waitApp", "closeListener") /\ WaitWorker /\ UNCHANGED <<stopSampler, sampler>>

CloseListener == Go("closeListener", "drain") /\ UNCHANGED <<metricsVars, stopSampler, sampler>>

Drained == Idle /\ Go("drain", "stopped") /\ UNCHANGED <<metricsVars, stopSampler, sampler>>

\* The ten seconds of the context are over: log.Fatalf.
DrainTimeout == ~Idle /\ Go("drain", "failed") /\ UNCHANGED <<metricsVars, stopSampler, sampler>>

MainStep == CloseSampler \/ CloseApp \/ WaitApp \/ CloseListener \/ Drained \/ DrainTimeout

-----------------------------------------------------------------------------
MetricsStep ==
  /\ \/ \E p \in Pumps : Process(p) \/ PumpStep(p)
     \/ \E f \in Fetchers : FetchMetrics(f)
     \/ WorkerStep
  /\ UNCHANGED mainVars

ServerNext ==
  /\ Alive
  /\ \/ MetricsStep
     \/ \E f \in Fetchers : Request(f) \/ Answer(f)
     \/ Signal \/ SamplerStop \/ MainStep

ServerSpec == ServerInit /\ [][ServerNext]_serverVars

\* The scheduler runs main and the worker when they can run. Deliveries and
\* requests may stop at any point, signals may never come.
ServerFairSpec ==
  /\ ServerSpec
  /\ WF_serverVars(Alive /\ MainStep)
  /\ WF_serverVars(Alive /\ WorkerStep /\ UNCHANGED mainVars)

-----------------------------------------------------------------------------
\* Type invariant.
ServerTypeOK ==
  /\ MetricsTypeOK
  /\ main \in MainPCs /\ stopSampler \in BOOLEAN /\ sampler \in {"running", "stopped"}

\* Once a signal has come the process ends, whatever requests and deliveries do.
ShutdownEnds == main = "shutdown" ~> ~Alive

\* core.App: RecordLatency "must be safe to call concurrently from any
\* connector's write pump", and main calls its shutdown graceful: no delivery
\* brings the process down.
RecordLatencySafe == ~panicked
=============================================================================
