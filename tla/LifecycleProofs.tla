--------------------------- MODULE LifecycleProofs ---------------------------
(***************************************************************************)
(* Proofs about Lifecycle: what exit code 0 promises, and that nothing is  *)
(* left running, for any number of connections.                            *)
(***************************************************************************)
EXTENDS Lifecycle, TLAPS

\* run begins with nothing started and nobody connected.
LEMMA InitLifecycle == Init => LifecycleInv
  BY DEF Init, LifecycleInv, LifecycleTypeOK, DrainInv, StartedInv, Stages, Starting, Stopping

-----------------------------------------------------------------------------
(* Steps of run *)

\* The telemetry providers come and go before anything else exists.
LEMMA ProvidersKeep ==
    ASSUME LifecycleInv, NEW p \in Signals, ProviderStarts(p) \/ ProviderFails(p)
    PROVE  LifecycleInv'
<1>1. CASE ProviderStarts(p)
  BY <1>1 DEF ProviderStarts, Due, serveVars, endVars, LifecycleInv, LifecycleTypeOK,
     DrainInv, StartedInv, Stages, Starting, Stopping
<1>2. CASE ProviderFails(p)
  BY <1>2 DEF ProviderFails, Due, serveVars, LifecycleInv, LifecycleTypeOK,
     DrainInv, StartedInv, Stages, Starting, Stopping
<1> QED
  BY <1>1, <1>2

\* The OPA SDK is started, awaited or given up.
LEMMA StartKeeps ==
    ASSUME LifecycleInv,
           OtelIsUp \/ NoOpa \/ OpaFails \/ OpaStarts \/ OpaReady \/ OpaNotReady
    PROVE  LifecycleInv'
<1> USE DEF startVars, serveVars, endVars, Return, LifecycleInv, LifecycleTypeOK,
     DrainInv, StartedInv, Stages, Starting, Stopping
<1>1. CASE OtelIsUp     BY <1>1 DEF OtelIsUp
<1>2. CASE NoOpa        BY <1>2 DEF NoOpa
<1>3. CASE OpaFails     BY <1>3 DEF OpaFails
<1>4. CASE OpaStarts    BY <1>4 DEF OpaStarts
<1>5. CASE OpaReady     BY <1>5 DEF OpaReady
<1>6. CASE OpaNotReady  BY <1>6 DEF OpaNotReady
<1> QED
  BY <1>1, <1>2, <1>3, <1>4, <1>5, <1>6

\* The server is built, waited for and shut down.
LEMMA ServingKeeps ==
    ASSUME LifecycleInv,
           BuildFails \/ BuildServer \/ ServerFails \/ ReceiveSignal \/ Shutdown
    PROVE  LifecycleInv'
<1> USE DEF startVars, serveVars, endVars, Return, LifecycleInv, LifecycleTypeOK,
     DrainInv, StartedInv, Stages, Starting, Stopping
<1>1. CASE BuildFails     BY <1>1 DEF BuildFails
<1>2. CASE BuildServer    BY <1>2 DEF BuildServer
<1>3. CASE ServerFails    BY <1>3 DEF ServerFails
<1>4. CASE ReceiveSignal  BY <1>4 DEF ReceiveSignal
<1>5. CASE Shutdown       BY <1>5 DEF Shutdown
<1> QED
  BY <1>1, <1>2, <1>3, <1>4, <1>5

\* The end of the process settles every connection and opens none.
LEMMA CutSettles ==
    ASSUME LifecycleTypeOK, Cut
    PROVE  /\ conn' \in [Conns -> {"none", "idle", "active", "upgraded", "closed", "cut", "dropped"}]
           /\ \A c \in Conns : conn'[c] \notin {"idle", "active"}
           /\ \A c \in Conns : conn[c] = "none" => conn'[c] = "none"
           /\ \A c \in Conns : conn[c] \notin {"active", "cut"} => conn'[c] # "cut"
  BY DEF Cut, LifecycleTypeOK

\* The drain, the deferred calls and the exit.
LEMMA StopKeeps ==
    ASSUME LifecycleInv,
           Drained \/ DrainTimesOut \/ StopOpa \/ StopOtel \/ StopNotify \/ Exit
    PROVE  LifecycleInv'
<1> USE DEF startVars, serveVars, endVars, Return, LifecycleInv, LifecycleTypeOK,
     DrainInv, StartedInv, Stages, Starting, Stopping
<1>1. CASE Drained        BY <1>1 DEF Drained
<1>2. CASE DrainTimesOut  BY <1>2 DEF DrainTimesOut
<1>3. CASE StopOpa        BY <1>3 DEF StopOpa
<1>4. CASE StopOtel       BY <1>4 DEF StopOtel
<1>5. CASE StopNotify     BY <1>5 DEF StopNotify
<1>6. CASE Exit           BY <1>6, CutSettles DEF Exit
<1> QED
  BY <1>1, <1>2, <1>3, <1>4, <1>5, <1>6

-----------------------------------------------------------------------------
(* Steps around run *)

\* The listener serves only a server that has not been shut down.
LEMMA ListenerKeeps ==
    ASSUME LifecycleInv, Listen \/ ListenFails
    PROVE  LifecycleInv'
<1> USE DEF startVars, serveVars, endVars, LifecycleInv, LifecycleTypeOK,
     DrainInv, StartedInv, Stages, Starting, Stopping
<1>1. CASE Listen       BY <1>1 DEF Listen
<1>2. CASE ListenFails  BY <1>2 DEF ListenFails
<1> QED
  BY <1>1, <1>2

\* A connection that changes without getting idle or active is none of run's
\* business, except that it must exist when it changes.
LEMMA ConnectionKeeps ==
    ASSUME LifecycleInv, NEW c \in Conns, NEW from, NEW to, Connection(c, from, to),
           to \in {"idle", "active", "upgraded", "closed"},
           from = "none" => listener = "listening",
           to \in {"idle", "active"} => from \in {"idle", "active"} \/ listener = "listening"
    PROVE  LifecycleInv'
<1>1. conn' = [conn EXCEPT ![c] = to] /\ conn[c] = from
  BY DEF Connection
<1>2. LifecycleTypeOK'
  BY <1>1 DEF Connection, startVars, serveVars, endVars, LifecycleInv, LifecycleTypeOK
<1>3. DrainInv'
  BY <1>1 DEF Connection, startVars, serveVars, endVars, LifecycleInv, LifecycleTypeOK,
     DrainInv, Stopping
<1>4. StartedInv'
  BY <1>1 DEF Connection, startVars, serveVars, endVars, LifecycleInv, LifecycleTypeOK,
     StartedInv, Starting, Stopping
<1> QED
  BY <1>2, <1>3, <1>4 DEF LifecycleInv

\* What clients do on their connections keeps the invariant.
LEMMA ClientsKeep ==
    ASSUME LifecycleInv, NEW c \in Conns, ClientStep(c) \/ CloseIdle(c)
    PROVE  LifecycleInv'
<1>1. CASE Accept(c)     BY <1>1, ConnectionKeeps DEF Accept
<1>2. CASE Request(c)    BY <1>2, ConnectionKeeps DEF Request
<1>3. CASE Answer(c)     BY <1>3, ConnectionKeeps DEF Answer
<1>4. CASE Upgrade(c)    BY <1>4, ConnectionKeeps DEF Upgrade
<1>5. CASE HangUp(c)     BY <1>5, ConnectionKeeps DEF HangUp
<1>6. CASE CloseIdle(c)  BY <1>6, ConnectionKeeps DEF CloseIdle
<1> QED
  BY <1>1, <1>2, <1>3, <1>4, <1>5, <1>6 DEF ClientStep

\* So do the signals, and a kill at any place.
LEMMA SignalsKeep ==
    ASSUME LifecycleInv, Signal \/ Kill
    PROVE  LifecycleInv'
<1> USE DEF startVars, serveVars, endVars, LifecycleInv, LifecycleTypeOK,
     DrainInv, StartedInv, Stages, Starting, Stopping
<1>1. CASE Signal  BY <1>1 DEF Signal
<1>2. CASE Kill    BY <1>2, CutSettles DEF Kill
<1> QED
  BY <1>1, <1>2

-----------------------------------------------------------------------------
(* Theorems *)

\* Every step keeps the invariant.
LEMMA NextLifecycle == LifecycleInv /\ [Next]_vars => LifecycleInv'
<1> SUFFICES ASSUME LifecycleInv, [Next]_vars PROVE LifecycleInv'
  OBVIOUS
<1>1. CASE RunStep
  BY <1>1, ProvidersKeep, StartKeeps, ServingKeeps, StopKeeps DEF RunStep
<1>2. CASE ServerStep
  BY <1>2, ListenerKeeps, ClientsKeep DEF ServerStep
<1>3. CASE \E c \in Conns : ClientStep(c)
  BY <1>3, ClientsKeep
<1>4. CASE Signal \/ Kill
  BY <1>4, SignalsKeep
<1>5. CASE UNCHANGED vars
  BY <1>5 DEF vars, startVars, serveVars, endVars, LifecycleInv, LifecycleTypeOK,
     DrainInv, StartedInv, Stages, Starting, Stopping
<1> QED
  BY <1>1, <1>2, <1>3, <1>4, <1>5 DEF Next, Gone

\* run's state is well typed, and its drain and its start are where they seem.
THEOREM LifecycleInvariant == Spec => []LifecycleInv
  BY InitLifecycle, NextLifecycle, PTL DEF Spec

\* Exit code 0 means that no request was cut off.
THEOREM CleanExits == Spec => []CleanExitCutsNobody
<1>1. LifecycleInv => CleanExitCutsNobody
  BY DEF LifecycleInv, DrainInv, CleanExitCutsNobody
<1> QED
  BY <1>1, LifecycleInvariant, PTL

\* Exit code 0 means that a signal asked for it.
THEOREM SignalledExits == Spec => []CleanExitNeedsSignal
<1>1. LifecycleInv => CleanExitNeedsSignal
  BY DEF LifecycleInv, DrainInv, CleanExitNeedsSignal
<1> QED
  BY <1>1, LifecycleInvariant, PTL

\* However run returns, what it started is stopped.
THEOREM StartsAreStopped == Spec => []NothingLeaks
<1>1. LifecycleInv => NothingLeaks
  BY DEF LifecycleInv, LifecycleTypeOK, DrainInv, StartedInv, Stopping, NothingLeaks
<1> QED
  BY <1>1, LifecycleInvariant, PTL

\* Policies are ready as long as requests run, unless run fails.
THEOREM PoliciesStay == Spec => []PoliciesOutliveRequests
<1>1. LifecycleInv => PoliciesOutliveRequests
  BY DEF LifecycleInv, LifecycleTypeOK, DrainInv, StartedInv, PoliciesOutliveRequests
<1> QED
  BY <1>1, LifecycleInvariant, PTL
=============================================================================
