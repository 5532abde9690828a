------------------------------ MODULE Lifecycle ------------------------------
(***************************************************************************)
(* The life of one NACP process (run in cmd/nacp/nacp.go): telemetry and   *)
(* the OPA SDK are started, the server is built and listens in a goroutine *)
(* of its own, and run waits for that goroutine or for a signal; after a   *)
(* signal it drains the server, and on every way out its deferred calls    *)
(* stop what was started, in reverse order.  Around it move the signals,   *)
(* the clients' connections and net/http's Server, which is modelled from  *)
(* what run uses of it: Shutdown closes the listener and idle connections  *)
(* and waits for active ones, but neither for nor at hijacked ones.        *)
(***************************************************************************)
EXTENDS Naturals

CONSTANT Conns      \* connections clients may open

\* The telemetry signals, in the order SetupOTelSDK starts their providers.
Signals == {"tracing", "metrics", "logging"}
Before(p) == CASE p = "tracing" -> {} [] p = "metrics" -> {"tracing"}
               [] p = "logging" -> {"tracing", "metrics"}

VARIABLES
    conf,        \* what the configuration enables
    stage,       \* where run is
    providers,   \* telemetry providers that have not been shut down
    opa,         \* the OPA SDK
    listener,    \* the goroutine that serves
    inShutdown,  \* Server.Shutdown has been called
    srvErr,      \* content of the channel srvErr
    conn,        \* conn[c]: a client's connection
    ctxDone,     \* a signal has cancelled run's context
    notified,    \* signal.NotifyContext is in force
    result,      \* the error run is about to return
    flushFailed, \* history: otelShutdown has returned an error
    exit         \* how the process ended

startVars == <<conf, providers, opa>>
serveVars == <<listener, inShutdown, srvErr>>
endVars   == <<result, flushFailed, exit>>
vars == <<startVars, stage, serveVars, conn, ctxDone, notified, endVars>>

Stages == {"otel", "opa", "opaReady", "build", "serving", "signalled", "draining",
           "stopOpa", "stopOtel", "return", "main", "exited"}

LifecycleTypeOK ==
    /\ conf \in [otel : SUBSET Signals, opa : BOOLEAN]
    /\ stage \in Stages
    /\ providers \subseteq conf.otel
    /\ opa \in {"none", "starting", "ready", "stopped"}
    /\ listener \in {"none", "starting", "listening", "closed"}
    /\ inShutdown \in BOOLEAN
    /\ srvErr \in {"none", "closed", "failed"}
    /\ conn \in [Conns -> {"none", "idle", "active", "upgraded", "closed", "cut", "dropped"}]
    /\ ctxDone \in BOOLEAN /\ notified \in BOOLEAN
    /\ result \in {"none", "ok", "error"}
    /\ flushFailed \in BOOLEAN
    /\ exit \in {"none", "0", "1", "killed"}

Init ==
    /\ conf \in [otel : SUBSET Signals, opa : BOOLEAN]
    /\ stage = "otel"
    /\ providers = {}
    /\ opa = "none"
    /\ listener = "none" /\ inShutdown = FALSE /\ srvErr = "none"
    /\ conn = [c \in Conns |-> "none"]
    /\ ctxDone = FALSE /\ notified = TRUE
    /\ result = "none" /\ flushFailed = FALSE /\ exit = "none"

\* run returns: its deferred calls come next.  A call that was not deferred yet
\* finds nothing to stop.
Return(value) == stage' = "stopOpa" /\ result' = value

-----------------------------------------------------------------------------
(* Start *)

\* Mutant: the switch of the configuration is not read, nor the order kept.
DueAgain(p) == p \in Signals \ providers

Due(p) == p \in conf.otel \ providers /\ Before(p) \cap conf.otel \subseteq providers

ProviderStarts(p) ==
    /\ stage = "otel" /\ Due(p)
    /\ providers' = providers \cup {p}
    /\ UNCHANGED <<conf, stage, opa, serveVars, conn, ctxDone, notified, endVars>>

\* Mutant: what was started before the failure is left running.
ProviderFailsAlone(p) ==
    /\ stage = "otel" /\ Due(p)
    /\ stage' = "return" /\ result' = "error"
    /\ UNCHANGED <<startVars, serveVars, conn, ctxDone, notified, flushFailed, exit>>

\* The exporter cannot be created: handleErr shuts the others down.  run has
\* not deferred otelShutdown and returns at once.
ProviderFails(p) ==
    /\ stage = "otel" /\ Due(p)
    /\ providers' = {}
    /\ stage' = "return" /\ result' = "error"
    /\ UNCHANGED <<conf, opa, serveVars, conn, ctxDone, notified, flushFailed, exit>>

OtelIsUp ==
    /\ stage = "otel" /\ providers = conf.otel
    /\ stage' = "opa"
    /\ UNCHANGED <<startVars, serveVars, conn, ctxDone, notified, endVars>>

NoOpa ==
    /\ stage = "opa" /\ ~conf.opa
    /\ stage' = "build"
    /\ UNCHANGED <<startVars, serveVars, conn, ctxDone, notified, endVars>>

\* The SDK's configuration cannot be opened, or sdk.New fails.
OpaFails ==
    /\ stage = "opa" /\ conf.opa
    /\ Return("error")
    /\ UNCHANGED <<startVars, serveVars, conn, ctxDone, notified, flushFailed, exit>>

OpaStarts ==
    /\ stage = "opa" /\ conf.opa
    /\ opa' = "starting" /\ stage' = "opaReady"
    /\ UNCHANGED <<conf, providers, serveVars, conn, ctxDone, notified, endVars>>

OpaReady ==
    /\ stage = "opaReady"
    /\ opa' = "ready" /\ stage' = "build"
    /\ UNCHANGED <<conf, providers, serveVars, conn, ctxDone, notified, endVars>>

\* Mutant: the wait is given up and the server started all the same.
OpaNotAwaited ==
    /\ stage = "opaReady"
    /\ stage' = "build"
    /\ UNCHANGED <<startVars, serveVars, conn, ctxDone, notified, endVars>>

\* readyCtx ends first: 30 s have passed, or a signal has come.
OpaNotReady ==
    /\ stage = "opaReady"
    /\ opa' = "stopped"
    /\ Return("error")
    /\ UNCHANGED <<conf, providers, serveVars, conn, ctxDone, notified, flushFailed, exit>>

BuildFails ==
    /\ stage = "build"
    /\ Return("error")
    /\ UNCHANGED <<startVars, serveVars, conn, ctxDone, notified, flushFailed, exit>>

\* The server is built and the goroutine is started that serves.
BuildServer ==
    /\ stage = "build"
    /\ listener' = "starting" /\ stage' = "serving"
    /\ UNCHANGED <<startVars, inShutdown, srvErr, conn, ctxDone, notified, endVars>>

-----------------------------------------------------------------------------
(* The serving goroutine and the connections *)

\* A server that is already shut down does not listen any more.
Listen ==
    /\ listener = "starting" /\ exit = "none"
    /\ IF inShutdown THEN listener' = "closed" /\ srvErr' = "closed"
                     ELSE listener' = "listening" /\ UNCHANGED srvErr
    /\ UNCHANGED <<startVars, stage, inShutdown, conn, ctxDone, notified, endVars>>

\* The address is taken, the certificate unreadable, or Accept fails for good.
ListenFails ==
    /\ listener \in {"starting", "listening"} /\ exit = "none"
    /\ listener' = "closed" /\ srvErr' = "failed"
    /\ UNCHANGED <<startVars, stage, inShutdown, conn, ctxDone, notified, endVars>>

Connection(c, from, to) ==
    /\ exit = "none" /\ conn[c] = from
    /\ conn' = [conn EXCEPT ![c] = to]
    /\ UNCHANGED <<startVars, stage, serveVars, ctxDone, notified, endVars>>

Accept(c) == listener = "listening" /\ Connection(c, "none", "idle")

\* A request is read from a connection, also from one Shutdown waits for.
Request(c) == Connection(c, "idle", "active")

\* The handler returns; a server in shutdown keeps no connection alive.
Answer(c) == Connection(c, "active", IF inShutdown THEN "closed" ELSE "idle")

\* Nomad switches protocols (alloc exec, for one): the connection is hijacked.
Upgrade(c) == Connection(c, "active", "upgraded")
HangUp(c)  == \E from \in {"idle", "upgraded"} : Connection(c, from, "closed")

ClientStep(c) == Accept(c) \/ Request(c) \/ Answer(c) \/ Upgrade(c) \/ HangUp(c)

-----------------------------------------------------------------------------
(* Waiting, draining, stopping *)

\* Mutant: a server that failed ends run without an error.
ServerEnds ==
    /\ stage = "serving" /\ srvErr # "none"
    /\ Return("ok")
    /\ UNCHANGED <<startVars, serveVars, conn, ctxDone, notified, flushFailed, exit>>

\* select takes srvErr.  Before Shutdown the goroutine does not send
\* http.ErrServerClosed, for which run would return nil.
ServerFails ==
    /\ stage = "serving" /\ srvErr # "none"
    /\ Return(IF srvErr = "closed" THEN "ok" ELSE "error")
    /\ UNCHANGED <<startVars, serveVars, conn, ctxDone, notified, flushFailed, exit>>

\* select takes ctx.Done(), perhaps although srvErr is ready too; stop() gives
\* the signals their default effect back.
ReceiveSignal ==
    /\ stage = "serving" /\ ctxDone
    /\ notified' = FALSE /\ stage' = "signalled"
    /\ UNCHANGED <<startVars, serveVars, conn, ctxDone, endVars>>

\* Server.Shutdown closes the listener first.
Shutdown ==
    /\ stage = "signalled"
    /\ inShutdown' = TRUE /\ stage' = "draining"
    /\ IF listener = "listening" THEN listener' = "closed" /\ srvErr' = "closed"
                                 ELSE UNCHANGED <<listener, srvErr>>
    /\ UNCHANGED <<startVars, conn, ctxDone, notified, endVars>>

CloseIdle(c) == stage = "draining" /\ Connection(c, "idle", "closed")

\* Mutant: Close instead of Shutdown.
DrainedAtOnce ==
    /\ stage = "draining"
    /\ Return("ok")
    /\ UNCHANGED <<startVars, serveVars, conn, ctxDone, notified, flushFailed, exit>>

Drained ==
    /\ stage = "draining"
    /\ \A c \in Conns : conn[c] \notin {"idle", "active"}
    /\ Return("ok")
    /\ UNCHANGED <<startVars, serveVars, conn, ctxDone, notified, flushFailed, exit>>

\* Mutant: Shutdown is called without a deadline.
NoDrainTimeout == FALSE /\ UNCHANGED vars

\* shutdownTimeout, 30 s, passes.
DrainTimesOut ==
    /\ stage = "draining"
    /\ Return("error")
    /\ UNCHANGED <<startVars, serveVars, conn, ctxDone, notified, flushFailed, exit>>

StopOpa ==
    /\ stage = "stopOpa"
    /\ opa' = IF opa = "ready" THEN "stopped" ELSE opa
    /\ stage' = "stopOtel"
    /\ UNCHANGED <<conf, providers, serveVars, conn, ctxDone, notified, endVars>>

\* All providers are shut down whatever one of them returns.  The deferred
\* function joins the error into the err of the if statement it stands in, not
\* into run's result.
StopOtel ==
    /\ stage = "stopOtel"
    /\ providers' = {}
    /\ flushFailed' \in IF providers = {} THEN {FALSE} ELSE BOOLEAN
    /\ stage' = "return"
    /\ UNCHANGED <<conf, opa, serveVars, conn, ctxDone, notified, result, exit>>

\* What becomes of the connections when the process ends.
Cut == conn' = [c \in Conns |->
    IF conn[c] = "active" THEN "cut"
    ELSE IF conn[c] = "upgraded" THEN "dropped"
    ELSE IF conn[c] = "idle" THEN "closed" ELSE conn[c]]

\* The deferred stop(): from here on a signal kills, as after ReceiveSignal.
StopNotify ==
    /\ stage = "return"
    /\ notified' = FALSE /\ stage' = "main"
    /\ UNCHANGED <<startVars, serveVars, conn, ctxDone, endVars>>

\* main's exit code.
Exit ==
    /\ stage = "main"
    /\ stage' = "exited" /\ exit' = IF result = "ok" THEN "0" ELSE "1"
    /\ Cut
    /\ UNCHANGED <<startVars, serveVars, ctxDone, notified, result, flushFailed>>

\* SIGINT or SIGTERM: the first one cancels the context; one that comes when
\* stop() has been called kills the process.
Signal ==
    /\ exit = "none"
    /\ notified /\ ~ctxDone
    /\ ctxDone' = TRUE
    /\ UNCHANGED <<startVars, stage, serveVars, conn, notified, endVars>>

Kill ==
    /\ exit = "none" /\ ~notified
    /\ stage' = "exited" /\ exit' = "killed"
    /\ Cut
    /\ UNCHANGED <<startVars, serveVars, ctxDone, notified, result, flushFailed>>

-----------------------------------------------------------------------------
(* Specification *)

RunStep ==
    \/ \E p \in Signals : ProviderStarts(p) \/ ProviderFails(p)
    \/ OtelIsUp \/ NoOpa \/ OpaFails \/ OpaStarts \/ OpaReady \/ OpaNotReady
    \/ BuildFails \/ BuildServer
    \/ ServerFails \/ ReceiveSignal \/ Shutdown \/ Drained \/ DrainTimesOut
    \/ StopOpa \/ StopOtel \/ StopNotify \/ Exit

ServerStep ==
    \/ Listen
    \/ ListenFails
    \/ \E c \in Conns : CloseIdle(c)

Gone == exit # "none" /\ UNCHANGED vars

Next ==
    \/ RunStep
    \/ ServerStep
    \/ \E c \in Conns : ClientStep(c)
    \/ Signal
    \/ Kill
    \/ Gone

Spec == Init /\ [][Next]_vars

\* run's goroutine is scheduled, and each call it waits in has a deadline of
\* its own: readiness 30 s, drain 30 s, OPA's stop 10 s, the exporters' own
\* timeouts for the flush.  Nothing is assumed of clients.
FairSpec == Spec /\ WF_vars(RunStep)

-----------------------------------------------------------------------------
(* Properties *)

\* Exit code 0 is a promise: no request was cut off, whatever connections did
\* while the server drained.
CleanExitCutsNobody == exit = "0" => \A c \in Conns : conn[c] # "cut"

\* Only a signal ends NACP without an error: a server that stops by itself is
\* an error however it came to stop.
CleanExitNeedsSignal == exit = "0" => ctxDone

\* However run returns, half way through its start too, what it had started
\* has been stopped ("Handle shutdown properly so nothing leaks", nacp.go:614).
NothingLeaks == exit \in {"0", "1"} => providers = {} /\ opa \in {"none", "stopped"}

\* No request is served before the policies of a bundle are ready, and they are
\* taken from under a request only when run is about to report an error.
PoliciesOutliveRequests ==
    conf.opa /\ (\E c \in Conns : conn[c] = "active") =>
        opa = "ready" \/ (opa = "stopped" /\ result = "error")

\* A signal ends the process, even when requests never end.
SignalEndsRun == ctxDone ~> exit # "none"

\* CHANGELOG.md:132: the server "shuts down with a 30 second deadline, and
\* propagates shutdown failures".
ShutdownFailuresPropagate == exit = "0" => ~flushFailed

-----------------------------------------------------------------------------
(* The inductive invariant behind the safety properties *)

Starting == {"otel", "opa", "opaReady", "build"}
Stopping == {"stopOpa", "stopOtel", "return", "main", "exited"}

\* The server is shut down by a signal only, run's result is nil after a complete
\* drain only, and no connection is opened from Shutdown on.
DrainInv ==
    /\ stage = "signalled" => ctxDone
    /\ stage = "draining" => inShutdown
    /\ inShutdown => ctxDone /\ stage \in {"draining"} \cup Stopping
    /\ srvErr = "closed" => inShutdown
    /\ listener = "listening" => ~inShutdown
    /\ result # "none" => stage \in Stopping
    /\ stage \in Stopping => result # "none" \/ exit = "killed"
    /\ result = "ok" => inShutdown /\ \A c \in Conns : conn[c] \notin {"idle", "active", "cut"}
    /\ exit = "none" => \A c \in Conns : conn[c] # "cut"
    /\ exit # "none" <=> stage = "exited"
    /\ exit = "0" => result = "ok"

\* What has been started and not stopped, by the place run is in; a connection
\* exists only when all of it is up.
StartedInv ==
    /\ stage \in {"otel", "opa"} => opa = "none"
    /\ stage = "opaReady" => opa = "starting" /\ conf.opa
    /\ opa = "starting" => stage = "opaReady"
    /\ stage \in {"build", "serving", "signalled", "draining"} =>
          opa \in {"none", "ready"} /\ (opa = "ready" <=> conf.opa)
    /\ stage \in Starting => listener = "none"
    /\ listener = "none" => \A c \in Conns : conn[c] = "none"
    /\ listener # "none" /\ conf.opa => opa \in {"ready", "stopped"}
    /\ opa = "stopped" => result # "none"
    /\ opa = "ready" => stage \notin {"stopOtel", "return", "main"} /\ exit \notin {"0", "1"}
    /\ stage \in Starting \cup {"serving"} => notified
    /\ stage \in {"return", "main"} \/ exit \in {"0", "1"} => providers = {}

LifecycleInv == LifecycleTypeOK /\ DrainInv /\ StartedInv
=============================================================================
