---------------------------- MODULE ServerProofs ----------------------------
(***************************************************************************)
(* Proofs about Server: the process does to requests nothing Proxy does    *)
(* not do, requests do to the process nothing Lifecycle does not do, and   *)
(* what a clean exit promises about the requests, for any number of them.  *)
(***************************************************************************)
EXTENDS Server, ProxyAnswerProofs

\* The theorems about the process.
Proved == INSTANCE LifecycleProofs WITH Conns <- Requests

-----------------------------------------------------------------------------
(* The two parts of the server *)

\* Every step of the server is a step of the proxy, or leaves it alone.
LEMMA StepOfProxy == [ServerNext]_serverVars => [Next]_vars
<1> SUFFICES ASSUME [ServerNext]_serverVars PROVE [Next]_vars
  OBVIOUS
<1>1. CASE ProcessStep
  BY <1>1 DEF ProcessStep
<1>2. ASSUME NEW r \in Requests,
             Connect(r) \/ Arrive(r) \/ Respond(r) \/ Serve(r) \/ Fail(r) \/ GoAway(r)
                \/ NomadGoesOn(r)
      PROVE  [Next]_vars
  BY <1>2 DEF Connect, Arrive, Respond, Serve, Fail, GoAway, NomadGoesOn, Next, RequestStep
<1>3. CASE ServerQuiet \/ UNCHANGED serverVars
  BY <1>3 DEF ServerQuiet, serverVars
<1> QED
  BY <1>1, <1>2, <1>3 DEF ServerNext

\* Every step of the server is a step of the process, or leaves it alone.
LEMMA StepOfProcess == [ServerNext]_serverVars => [Process!Next]_(Process!vars)
<1> SUFFICES ASSUME [ServerNext]_serverVars PROVE [Process!Next]_(Process!vars)
  OBVIOUS
<1>0. UNCHANGED processVars => UNCHANGED Process!vars
  BY DEF processVars, Process!vars, Process!startVars, Process!serveVars, Process!endVars
<1>1. CASE ProcessStep
  BY <1>1 DEF ProcessStep, Process!Next
<1>2. ASSUME NEW r \in Requests, Connect(r) \/ Arrive(r) \/ Respond(r)
      PROVE  Process!Next
  BY <1>2 DEF Connect, Arrive, Respond, Process!Next, Process!ClientStep
<1>3. ASSUME NEW r \in Requests, Serve(r) \/ Fail(r) \/ GoAway(r) \/ NomadGoesOn(r)
      PROVE  UNCHANGED Process!vars
  BY <1>0, <1>3 DEF Serve, Fail, GoAway, NomadGoesOn, Running
<1>4. CASE ServerQuiet \/ UNCHANGED serverVars
  BY <1>0, <1>4 DEF ServerQuiet, serverVars
<1> QED
  BY <1>1, <1>2, <1>3, <1>4 DEF ServerNext

\* The server's requests behave as those of the proxy: what is proved of Proxy
\* holds of a process that drains, fails or is killed.
THEOREM ServerIsAProxy == ServerSpec => Spec
<1>1. ServerInit => Init
  BY DEF ServerInit
<1> QED
  BY <1>1, StepOfProxy, PTL DEF ServerSpec, Spec

\* The server's process behaves as that of Lifecycle.
THEOREM ServerIsAProcess == ServerSpec => Process!Spec
<1>1. ServerInit => Process!Init
  BY DEF ServerInit
<1> QED
  BY <1>1, StepOfProcess, PTL DEF ServerSpec, Process!Spec

\* Both instances of Lifecycle are the same specification.
LEMMA SameProcess == Process!Spec => Proved!Spec
<1>1. Process!Init => Proved!Init
  BY DEF Process!Init, Proved!Init, Process!Signals, Proved!Signals
<1>2. Process!Next => Proved!Next
  BY DEF Process!Signals, Proved!Signals, Process!Before, Proved!Before,
      Process!startVars, Proved!startVars, Process!serveVars, Proved!serveVars,
      Process!endVars, Proved!endVars, Process!vars, Proved!vars, Process!Return,
      Proved!Return, Process!Due, Proved!Due, Process!ProviderStarts,
      Proved!ProviderStarts, Process!ProviderFails, Proved!ProviderFails,
      Process!OtelIsUp, Proved!OtelIsUp, Process!NoOpa, Proved!NoOpa,
      Process!OpaFails, Proved!OpaFails, Process!OpaStarts, Proved!OpaStarts,
      Process!OpaReady, Proved!OpaReady, Process!OpaNotReady, Proved!OpaNotReady,
      Process!BuildFails, Proved!BuildFails, Process!BuildServer,
      Proved!BuildServer, Process!Listen, Proved!Listen, Process!ListenFails,
      Proved!ListenFails, Process!Connection, Proved!Connection, Process!Accept,
      Proved!Accept, Process!Request, Proved!Request, Process!Answer,
      Proved!Answer, Process!Upgrade, Proved!Upgrade, Process!HangUp,
      Proved!HangUp, Process!ClientStep, Proved!ClientStep, Process!ServerFails,
      Proved!ServerFails, Process!ReceiveSignal, Proved!ReceiveSignal,
      Process!Shutdown, Proved!Shutdown, Process!CloseIdle, Proved!CloseIdle,
      Process!Drained, Proved!Drained, Process!DrainTimesOut,
      Proved!DrainTimesOut, Process!StopOpa, Proved!StopOpa, Process!StopOtel,
      Proved!StopOtel, Process!Cut, Proved!Cut, Process!StopNotify,
      Proved!StopNotify, Process!Exit, Proved!Exit, Process!Signal, Proved!Signal,
      Process!Kill, Proved!Kill, Process!RunStep, Proved!RunStep,
      Process!ServerStep, Proved!ServerStep, Process!Gone, Proved!Gone,
      Process!Next, Proved!Next
<1>3. UNCHANGED Process!vars <=> UNCHANGED Proved!vars
  BY DEF Process!vars, Proved!vars, Process!startVars, Proved!startVars,
         Process!serveVars, Proved!serveVars, Process!endVars, Proved!endVars
<1> QED
  BY <1>1, <1>2, <1>3, PTL DEF Process!Spec, Proved!Spec

\* The invariant of the process holds in the server.
LEMMA ServerKeepsLifecycle == ServerSpec => []Proved!LifecycleInv
  BY ServerIsAProcess, SameProcess, Proved!LifecycleInvariant, PTL

\* Also in a process that may end at any step, what Nomad registers or plans
\* under an ID without a slash has been approved.
THEOREM ServerPassesApprovedJobs == ServerSpec => []OnlyApprovedJobsReachNomad
  BY ServerIsAProxy, ApprovedJobsOnly, PTL

\* What a client reads of a request keeps its promises to the end of the process:
\* framed as it says, with every warning, and with the objections to a validation.
THEOREM ServerAnswers ==
    ASSUME NomadBasePath = <<>>
    PROVE  ServerSpec => [](/\ AnswersAreWellFramed
                            /\ SuccessCarriesAllWarnings
                            /\ ValidationReportsObjections)
  BY ServerIsAProxy, AnswersAreFramed, WarningsAreCarried, ObjectionsAreReported, PTL

-----------------------------------------------------------------------------
(* Requests and their connections *)

\* run, the listener and signals take a connection from a running request only
\* with the process itself.
LEMMA ProcessSpares ==
    ASSUME Proved!LifecycleInv, ProcessStep, NEW q \in Requests
    PROVE  /\ exit = "none" /\ conn[q] = "active" =>
                conn'[q] = IF exit' = "none" THEN "active" ELSE "cut"
           /\ exit # "none" => exit' # "none" /\ conn'[q] = conn[q]
<1>0. /\ DOMAIN conn = Requests
      /\ conn = [c \in Requests |-> conn[c]]
      /\ exit # "none" => stage = "exited"
      /\ exit \in {"none", "0", "1", "killed"}
  BY DEF Proved!LifecycleInv, Proved!LifecycleTypeOK, Proved!DrainInv
<1> USE DEF Process!startVars, Process!serveVars, Process!endVars, Process!Return
<1>1. CASE Process!Exit \/ Process!Kill
  <2>1. exit = "none" /\ exit' # "none" /\ Process!Cut
    BY <1>0, <1>1 DEF Process!Exit, Process!Kill
  <2> QED
    BY <1>0, <2>1 DEF Process!Cut
<1>2. ASSUME NEW c \in Requests, Process!CloseIdle(c)
      PROVE  exit' = exit /\ exit = "none" /\ (conn[q] = "active" => conn'[q] = "active")
  BY <1>0, <1>2 DEF Process!CloseIdle, Process!Connection
<1>3. ASSUME NEW p \in Process!Signals, Process!ProviderStarts(p) \/ Process!ProviderFails(p)
      PROVE  UNCHANGED <<exit, conn>>
  BY <1>3 DEF Process!ProviderStarts, Process!ProviderFails
<1>4. CASE Process!OtelIsUp \/ Process!NoOpa \/ Process!OpaFails \/ Process!OpaStarts
           \/ Process!OpaReady \/ Process!OpaNotReady \/ Process!BuildFails
           \/ Process!BuildServer
  BY <1>0, <1>4 DEF Process!OtelIsUp, Process!NoOpa, Process!OpaFails, Process!OpaStarts,
     Process!OpaReady, Process!OpaNotReady, Process!BuildFails, Process!BuildServer
<1>5. CASE Process!ServerFails \/ Process!ReceiveSignal \/ Process!Shutdown
           \/ Process!Drained \/ Process!DrainTimesOut \/ Process!StopOpa
           \/ Process!StopOtel \/ Process!StopNotify \/ Process!Listen
           \/ Process!ListenFails \/ Process!Signal
  BY <1>0, <1>5 DEF Process!ServerFails, Process!ReceiveSignal, Process!Shutdown,
     Process!Drained, Process!DrainTimesOut, Process!StopOpa, Process!StopOtel,
     Process!StopNotify, Process!Listen, Process!ListenFails, Process!Signal
<1> QED
  BY <1>1, <1>2, <1>3, <1>4, <1>5 DEF ProcessStep, Process!RunStep, Process!ServerStep

\* A request's goroutine and its connection move together.
LEMMA CountStep ==
    ASSUME TypeOK, Proved!LifecycleInv, RunningRequestsAreCounted, [ServerNext]_serverVars
    PROVE  RunningRequestsAreCounted'
<1> SUFFICES ASSUME NEW q \in Requests, pc'[q] \notin {"idle", "done"}
             PROVE  conn'[q] = IF exit' = "none" THEN "active" ELSE "cut"
  BY DEF RunningRequestsAreCounted
<1>0. /\ pc[q] \notin {"idle", "done"} =>
            conn[q] = IF exit = "none" THEN "active" ELSE "cut"
      /\ conn = [c \in Requests |-> conn[c]]
  BY DEF RunningRequestsAreCounted, Proved!LifecycleInv, Proved!LifecycleTypeOK
<1>1. CASE ProcessStep
  <2>1. pc' = pc
    BY <1>1 DEF ProcessStep, vars, proxyVars
  <2> QED
    BY <1>0, <1>1, <2>1, ProcessSpares
<1>2. ASSUME NEW r \in Requests, Connect(r) \/ Respond(r)
      PROVE  conn'[q] = IF exit' = "none" THEN "active" ELSE "cut"
  <2>1. pc' = pc /\ exit' = exit /\ exit = "none"
    BY <1>2 DEF Connect, Respond, vars, proxyVars, Process!Accept, Process!HangUp,
       Process!Answer, Process!Connection, Process!endVars
  <2>2. q # r
    BY <1>0, <1>2, <2>1 DEF Connect, Respond, Process!Accept, Process!HangUp,
       Process!Connection
  <2>3. conn'[q] = conn[q]
    BY <1>0, <1>2, <2>2 DEF Connect, Respond, Process!Accept, Process!HangUp,
       Process!Answer, Process!Connection
  <2> QED
    BY <1>0, <2>1, <2>3
<1>3. ASSUME NEW r \in Requests, Arrive(r)
      PROVE  conn'[q] = IF exit' = "none" THEN "active" ELSE "cut"
  <2>1. /\ exit = "none" /\ exit' = exit /\ conn' = [conn EXCEPT ![r] = "active"]
        /\ \E x \in Incoming : Receive(r, x)
    BY <1>3 DEF Arrive, Process!Request, Process!Connection, Process!endVars
  <2>2. q # r => pc'[q] = pc[q]
    BY <2>1 DEF Receive, GoTo, TypeOK, ProxyTypeOK
  <2> QED
    BY <1>0, <2>1, <2>2
<1>4. ASSUME NEW r \in Requests, Serve(r) \/ Fail(r) \/ GoAway(r)
      PROVE  conn'[q] = IF exit' = "none" THEN "active" ELSE "cut"
  <2>1. /\ exit = "none" /\ conn[r] = "active" /\ exit' = exit /\ conn' = conn
        /\ RequestStep(r)
    BY <1>4 DEF Serve, Fail, GoAway, Running, processVars, RequestStep
  <2>2. q # r => pc'[q] = pc[q]
    BY <2>1, OthersUntouched DEF PathFrame
  <2> QED
    BY <1>0, <2>1, <2>2
<1>5. ASSUME NEW r \in Requests, NomadGoesOn(r)
      PROVE  UNCHANGED <<pc, conn, exit>>
  BY <1>5 DEF NomadGoesOn, NomadStep, NomadReceives, NomadReplies, processVars
<1>6. CASE ServerQuiet \/ UNCHANGED serverVars
  <2>1. UNCHANGED <<pc, conn, exit>>
    BY <1>6 DEF ServerQuiet, serverVars, vars, proxyVars, processVars
  <2> QED
    BY <1>0, <2>1
<1> QED
  BY <1>0, <1>1, <1>2, <1>3, <1>4, <1>5, <1>6 DEF ServerNext

\* However many requests there are, Shutdown waits for each that runs.
THEOREM RunningIsCounted == ServerSpec => []RunningRequestsAreCounted
<1>1. ServerInit => RunningRequestsAreCounted
  BY DEF ServerInit, Init, ProxyInit, RunningRequestsAreCounted
<1>2. ServerSpec => []TypeOK
  BY ServerIsAProxy, TypeCorrect, PTL
<1> QED
  BY <1>1, <1>2, CountStep, ServerKeepsLifecycle, PTL DEF ServerSpec

\* What the configuration enables does not change.
LEMMA ConfStays == [ServerNext]_serverVars => conf' = conf
<1> SUFFICES ASSUME Process!Next PROVE conf' = conf
  BY StepOfProcess DEF Process!vars, Process!startVars
<1> USE DEF Process!startVars
<1>1. CASE Process!RunStep
  BY <1>1 DEF Process!RunStep, Process!ProviderStarts, Process!ProviderFails,
     Process!OtelIsUp, Process!NoOpa, Process!OpaFails, Process!OpaStarts, Process!OpaReady,
     Process!OpaNotReady, Process!BuildFails, Process!BuildServer, Process!ServerFails,
     Process!ReceiveSignal, Process!Shutdown, Process!Drained, Process!DrainTimesOut,
     Process!StopOpa, Process!StopOtel, Process!StopNotify, Process!Exit
<1>2. CASE Process!ServerStep \/ Process!Signal \/ Process!Kill \/ Process!Gone
  BY <1>2 DEF Process!ServerStep, Process!Listen, Process!ListenFails, Process!CloseIdle,
     Process!Connection, Process!Signal, Process!Kill, Process!Gone, Process!vars
<1>3. ASSUME NEW c \in Requests, Process!ClientStep(c) PROVE conf' = conf
  BY <1>3 DEF Process!ClientStep, Process!Accept, Process!Request, Process!Answer,
     Process!Upgrade, Process!HangUp, Process!Connection
<1> QED
  BY <1>1, <1>2, <1>3 DEF Process!Next

\* While a policy may be asked, the SDK is ready or run is returning an error.
THEOREM CallsKeepTheirPolicies == ServerSpec => []CallsHaveTheirPolicies
<1>1. conf.opa /\ RunningRequestsAreCounted /\ Proved!LifecycleInv => CallsHaveTheirPolicies
  BY DEF RunningRequestsAreCounted, CallsHaveTheirPolicies, Proved!LifecycleInv,
         Proved!LifecycleTypeOK, Proved!DrainInv, Proved!StartedInv
<1>2. ServerInit => conf.opa
  BY DEF ServerInit
<1>3. conf.opa /\ [ServerNext]_serverVars => conf.opa'
  BY ConfStays
<1>4. ServerSpec => []conf.opa
  BY <1>2, <1>3, PTL DEF ServerSpec
<1> QED
  BY <1>1, <1>4, RunningIsCounted, ServerKeepsLifecycle, PTL

\* A clean exit leaves no request open, and no client in doubt whose request
\* Nomad has answered.
THEOREM CleanExitSettles == ServerSpec => []CleanExitSettlesRequests
<1>1. ProxyInv /\ AnswerInv /\ TypeOK /\ RunningRequestsAreCounted /\ Proved!LifecycleInv
         => CleanExitSettlesRequests
  <2> SUFFICES ASSUME ProxyInv, AnswerInv, TypeOK, RunningRequestsAreCounted,
                      Proved!LifecycleInv, exit = "0", NEW r \in Requests
               PROVE  /\ pc[r] \in {"idle", "done"}
                      /\ wire[r] \in {"request", "processing"} =>
                            answer[r] \in {"gateway502", "lost"}
    BY DEF CleanExitSettlesRequests
  <2>1. conn[r] # "cut"
    BY DEF Proved!LifecycleInv, Proved!DrainInv
  <2>2. pc[r] \in {"idle", "done"}
    BY <2>1 DEF RunningRequestsAreCounted
  <2>3. PathInv(r) /\ ContextInv(r)
    BY DEF ProxyInv, AnswerInv
  <2>4. answer[r] \in {"none", "error500", "gateway502", "nomad", "lost"}
    BY DEF TypeOK, ProxyTypeOK
  <2> QED
    BY <2>2, <2>3, <2>4 DEF PathInv, ContextInv
<1> QED
  BY <1>1, ServerIsAProxy, ProxyInvariant, AnswerInvariant, RunningIsCounted,
     ServerKeepsLifecycle, PTL
=============================================================================
