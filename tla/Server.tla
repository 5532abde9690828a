-------------------------------- MODULE Server --------------------------------
(***************************************************************************)
(* One NACP process and the requests it serves: Lifecycle and Proxy        *)
(* together.  Connection r of the process carries request r.  The server   *)
(* starts a request's goroutine when it has read the request, and waits    *)
(* for it when it drains; the goroutines end with the process, Nomad goes  *)
(* on without it.  Telemetry changes nothing between the two parts and is  *)
(* off; upgraded connections have no answer to wait for and are left out.  *)
(***************************************************************************)
EXTENDS Proxy

VARIABLES conf, stage, providers, opa, listener, inShutdown, srvErr, conn, ctxDone,
          notified, result, flushFailed, exit

Process == INSTANCE Lifecycle WITH Conns <- Requests

processVars == <<conf, stage, providers, opa, listener, inShutdown, srvErr, conn, ctxDone,
                 notified, result, flushFailed, exit>>
serverVars  == <<vars, processVars>>

ServerInit ==
    /\ Init
    /\ Process!Init
    /\ conf = [otel |-> {}, opa |-> TRUE]

-----------------------------------------------------------------------------
(* Steps of the process *)

\* run, the goroutine that listens, and signals leave the requests alone; when
\* the process has gone, so have their goroutines.
ProcessStep ==
    /\ \/ Process!RunStep
       \/ Process!ServerStep
       \/ Process!Signal
       \/ Process!Kill
    /\ UNCHANGED vars

Connect(r) == (Process!Accept(r) \/ Process!HangUp(r)) /\ UNCHANGED vars

\* The server has read a request, also while it drains, and starts the handler.
Arrive(r) == Process!Request(r) /\ \E q \in Incoming : Receive(r, q)

\* Mutant: the handler leaves its work to another goroutine and returns.
RespondBeforeTheEnd(r) == Process!Answer(r) /\ UNCHANGED vars

\* The handler has returned.
Respond(r) == pc[r] = "done" /\ Process!Answer(r) /\ UNCHANGED vars

\* Handlers run on although run may be on its way out.
Running(r) == exit = "none" /\ conn[r] = "active" /\ UNCHANGED processVars
Serve(r)     == Running(r) /\ GoroutineStep(r)
Fail(r)      == Running(r) /\ RoundTripFails(r)
GoAway(r)    == Running(r) /\ Cancelled(r)

\* Nomad does not notice that the process has gone: what was sent is sent.
NomadGoesOn(r) == NomadStep(r) /\ UNCHANGED processVars

ServerQuiet == exit # "none" /\ UNCHANGED serverVars

ServerNext ==
    \/ ProcessStep
    \/ \E r \in Requests :
          \/ Connect(r) \/ Arrive(r) \/ Respond(r)
          \/ Serve(r) \/ Fail(r) \/ GoAway(r) \/ NomadGoesOn(r)
    \/ ServerQuiet

ServerSpec == ServerInit /\ [][ServerNext]_serverVars

\* As in Proxy and Lifecycle; a handler that has returned is noticed by the
\* server.  Nothing is assumed of clients, signals and Nomad.
ServerFairness ==
    /\ WF_serverVars(Process!RunStep /\ UNCHANGED vars)
    /\ \A r \in Requests :
          /\ WF_serverVars(Serve(r))
          /\ WF_serverVars(GoAway(r))
          /\ WF_serverVars(Fail(r) /\ ctx[r] = "cancelled")
          /\ WF_serverVars(Respond(r))

FairServerSpec == ServerSpec /\ ServerFairness

-----------------------------------------------------------------------------
(* Properties *)

\* A clean exit leaves nothing open: the handler of every request has returned,
\* and what Nomad has still to read or to answer belongs to a client that went
\* away or has been told that the gateway failed.
CleanExitSettlesRequests ==
    exit = "0" => \A r \in Requests :
        /\ pc[r] \in {"idle", "done"}
        /\ wire[r] \in {"request", "processing"} => answer[r] \in {"gateway502", "lost"}

\* While a controller may ask the OPA SDK, the SDK is ready; it is stopped
\* under a running call only when run is to return an error.
CallsHaveTheirPolicies ==
    \A r \in Requests :
        pc[r] = "admission" /\ phase[r] \in {"mutators", "mutated", "validators"}
            /\ exit \in {"none", "0"} =>
                opa = "ready" \/ (opa = "stopped" /\ result = "error")

\* The server forgets no request: one whose goroutine runs is on an active
\* connection, which Shutdown waits for, or went down with the process.
RunningRequestsAreCounted ==
    \A r \in Requests : pc[r] \notin {"idle", "done"} =>
        conn[r] = IF exit = "none" THEN "active" ELSE "cut"

\* Whatever Nomad does, no request keeps its connection for ever, signal or not.
NoRequestHangs == \A r \in Requests : conn[r] = "active" ~> conn[r] # "active"
=============================================================================
