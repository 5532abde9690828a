-------------------------- MODULE ProxyGateProofs ---------------------------
(***************************************************************************)
(* Proof that the proxy implements AdmissionGate.                          *)
(***************************************************************************)
EXTENDS ProxyGate, ProxyProofs

\* The gate's view of request q.
ViewKept(q) ==
    /\ gate'[q] = gate[q] /\ offer'[q] = offer[q]
    /\ accepted'[q] = accepted[q] /\ passed'[q] = passed[q]

\* The view of a request depends on its own entries only.
LEMMA ViewFrame ==
    ASSUME NEW q \in Requests, PathFrame(q)
    PROVE  ViewKept(q)
BY DEF PathFrame, ViewKept, gate, offer, accepted, passed, Guarded

\* A table in which one entry moves is the old table with that entry replaced.
LEMMA OneEntryMoves ==
    ASSUME NEW f, NEW g, NEW r \in Requests,
           f = [q \in Requests |-> f[q]], g = [q \in Requests |-> g[q]],
           \A q \in Requests : q # r => g[q] = f[q]
    PROVE  g = [f EXCEPT ![r] = g[r]]
OBVIOUS

\* What the gate sees of r, which it sees only when r is guarded.
LEMMA ViewOf ==
    ASSUME NEW r \in Requests
    PROVE  /\ ~Guarded(r) => /\ gate[r] = "shut" /\ offer[r] = NoJob
                             /\ accepted[r] = {} /\ passed[r] = NotSent
           /\ Guarded(r) =>
                /\ offer[r] = job[r] /\ passed[r] = nomad[r]
                /\ accepted[r] = {v \in Validators : verdict[r][v].vote = "accepts"}
                /\ pc[r] = "done" /\ wire[r] = "none" => gate[r] = "refused"
                /\ pc[r] \in {"ready", "roundtrip"} \/ wire[r] # "none" => gate[r] = "open"
                /\ pc[r] \notin {"done", "ready", "roundtrip"} /\ wire[r] = "none" =>
                      gate[r] = "shut"
BY DEF gate, offer, accepted, passed

\* The initial states of the proxy are initial states of the gate.
LEMMA GateInit == Init => Gate!Init
<1> SUFFICES ASSUME Init PROVE Gate!Init
  OBVIOUS
<1>1. \A r \in Requests : ~Guarded(r)
  <2>1. ~Writes(NoLine)
    BY DEF NoLine, Writes
  <2> QED
    BY <2>1 DEF Init, ProxyInit, Guarded, isRegister, isCreate, isUpdate, isPlan
<1>2. /\ gate = [r \in Requests |-> "shut"] /\ offer = [r \in Requests |-> NoJob]
      /\ accepted = [r \in Requests |-> {}] /\ passed = [r \in Requests |-> NotSent]
  BY <1>1 DEF gate, offer, accepted, passed
<1> QED
  BY <1>2 DEF Gate!Init

-----------------------------------------------------------------------------
(* Steps *)

\* One request moves in the gate's view.
Moved(r) ==
    /\ gate' = [gate EXCEPT ![r] = gate'[r]] /\ offer' = [offer EXCEPT ![r] = offer'[r]]
    /\ accepted' = [accepted EXCEPT ![r] = accepted'[r]]
    /\ passed' = [passed EXCEPT ![r] = passed'[r]]

\* A step about r moves r only.
LEMMA OneRequestMoves ==
    ASSUME TypeOK, NEW r \in Requests, RequestStep(r)
    PROVE  Moved(r)
<1>1. \A q \in Requests : q # r => ViewKept(q)
  BY OthersUntouched, ViewFrame
<1>2. gate = [q \in Requests |-> gate[q]] /\ gate' = [q \in Requests |-> gate'[q]]
  BY DEF gate
<1>3. offer = [q \in Requests |-> offer[q]] /\ offer' = [q \in Requests |-> offer'[q]]
  BY DEF offer
<1>4. accepted = [q \in Requests |-> accepted[q]] /\ accepted' = [q \in Requests |-> accepted'[q]]
  BY DEF accepted
<1>5. passed = [q \in Requests |-> passed[q]] /\ passed' = [q \in Requests |-> passed'[q]]
  BY DEF passed
<1>6. gate' = [gate EXCEPT ![r] = gate'[r]]
  BY <1>1, <1>2, OneEntryMoves DEF ViewKept
<1>7. offer' = [offer EXCEPT ![r] = offer'[r]]
  BY <1>1, <1>3, OneEntryMoves DEF ViewKept
<1>8. accepted' = [accepted EXCEPT ![r] = accepted'[r]]
  BY <1>1, <1>4, OneEntryMoves DEF ViewKept
<1>9. passed' = [passed EXCEPT ![r] = passed'[r]]
  BY <1>1, <1>5, OneEntryMoves DEF ViewKept
<1> QED
  BY <1>6, <1>7, <1>8, <1>9 DEF Moved

\* A table whose only moving entry does not move either is unchanged.
LEMMA NoEntryMoves ==
    ASSUME NEW f, NEW g, NEW r \in Requests,
           f = [q \in Requests |-> f[q]], g = [f EXCEPT ![r] = g[r]], g[r] = f[r]
    PROVE  g = f
OBVIOUS

\* In a move of r a view that keeps r is unchanged.
LEMMA KeptViews ==
    ASSUME NEW r \in Requests, Moved(r)
    PROVE  /\ gate'[r] = gate[r] => gate' = gate
           /\ offer'[r] = offer[r] => offer' = offer
           /\ accepted'[r] = accepted[r] => accepted' = accepted
           /\ passed'[r] = passed[r] => passed' = passed
<1>1. /\ gate = [q \in Requests |-> gate[q]] /\ offer = [q \in Requests |-> offer[q]]
      /\ accepted = [q \in Requests |-> accepted[q]]
      /\ passed = [q \in Requests |-> passed[q]]
  BY DEF gate, offer, accepted, passed
<1>2. /\ gate' = [gate EXCEPT ![r] = gate'[r]] /\ offer' = [offer EXCEPT ![r] = offer'[r]]
      /\ accepted' = [accepted EXCEPT ![r] = accepted'[r]]
      /\ passed' = [passed EXCEPT ![r] = passed'[r]]
  BY DEF Moved
<1>3. gate'[r] = gate[r] => gate' = gate
  BY <1>1, <1>2, NoEntryMoves
<1>4. offer'[r] = offer[r] => offer' = offer
  BY <1>1, <1>2, NoEntryMoves
<1>5. accepted'[r] = accepted[r] => accepted' = accepted
  BY <1>1, <1>2, NoEntryMoves
<1>6. passed'[r] = passed[r] => passed' = passed
  BY <1>1, <1>2, NoEntryMoves
<1> QED
  BY <1>3, <1>4, <1>5, <1>6

\* What is missing of a gate step once only r is known to move.
GateStep(r) ==
    \/ ViewKept(r)
    \/ \* Render
       /\ gate[r] = "shut" /\ accepted[r] = {} /\ offer'[r] \in JobOrNone
       /\ gate'[r] = gate[r] /\ accepted'[r] = accepted[r] /\ passed'[r] = passed[r]
    \/ \* Accept
       /\ gate[r] = "shut" /\ offer[r] # NoJob
       /\ \E v \in Validators : accepted'[r] = accepted[r] \cup {v}
       /\ gate'[r] = gate[r] /\ offer'[r] = offer[r] /\ passed'[r] = passed[r]
    \/ \* Open
       /\ gate[r] = "shut" /\ offer[r] # NoJob /\ accepted[r] = Validators
       /\ gate'[r] = "open"
       /\ offer'[r] = offer[r] /\ accepted'[r] = accepted[r] /\ passed'[r] = passed[r]
    \/ \* Refuse
       /\ gate[r] \in {"shut", "open"} /\ passed[r] = NotSent /\ gate'[r] = "refused"
       /\ offer'[r] = offer[r] /\ accepted'[r] = accepted[r] /\ passed'[r] = passed[r]
    \/ \* Pass
       /\ gate[r] = "open" /\ passed[r] = NotSent /\ passed'[r] = offer[r]
       /\ gate'[r] = gate[r] /\ offer'[r] = offer[r] /\ accepted'[r] = accepted[r]

\* A move of r that is a gate step for r is a step of the gate.
LEMMA GateStepIsStep ==
    ASSUME NEW r \in Requests, Moved(r), GateStep(r)
    PROVE  [Gate!Next]_<<gate, offer, accepted, passed>>
<1>0. /\ gate'[r] = gate[r] => gate' = gate
      /\ offer'[r] = offer[r] => offer' = offer
      /\ accepted'[r] = accepted[r] => accepted' = accepted
      /\ passed'[r] = passed[r] => passed' = passed
  BY KeptViews
<1>1. CASE ViewKept(r)
  BY <1>0, <1>1 DEF ViewKept
<1>2. CASE /\ gate[r] = "shut" /\ accepted[r] = {} /\ offer'[r] \in JobOrNone
           /\ gate'[r] = gate[r] /\ accepted'[r] = accepted[r] /\ passed'[r] = passed[r]
  <2>1. Gate!Render(r)
    BY <1>0, <1>2 DEF Moved, Gate!Render
  <2> QED
    BY <2>1 DEF Gate!Next
<1>3. CASE /\ gate[r] = "shut" /\ offer[r] # NoJob
           /\ \E v \in Validators : accepted'[r] = accepted[r] \cup {v}
           /\ gate'[r] = gate[r] /\ offer'[r] = offer[r] /\ passed'[r] = passed[r]
  <2>1. Gate!Accept(r)
    BY <1>0, <1>3 DEF Moved, Gate!Accept
  <2> QED
    BY <2>1 DEF Gate!Next
<1>4. CASE /\ gate[r] = "shut" /\ offer[r] # NoJob /\ accepted[r] = Validators
           /\ gate'[r] = "open"
           /\ offer'[r] = offer[r] /\ accepted'[r] = accepted[r] /\ passed'[r] = passed[r]
  <2>1. Gate!Open(r)
    BY <1>0, <1>4 DEF Moved, Gate!Open
  <2> QED
    BY <2>1 DEF Gate!Next
<1>5. CASE /\ gate[r] \in {"shut", "open"} /\ passed[r] = NotSent /\ gate'[r] = "refused"
           /\ offer'[r] = offer[r] /\ accepted'[r] = accepted[r] /\ passed'[r] = passed[r]
  <2>1. Gate!Refuse(r)
    BY <1>0, <1>5 DEF Moved, Gate!Refuse
  <2> QED
    BY <2>1 DEF Gate!Next
<1>6. CASE /\ gate[r] = "open" /\ passed[r] = NotSent /\ passed'[r] = offer[r]
           /\ gate'[r] = gate[r] /\ offer'[r] = offer[r] /\ accepted'[r] = accepted[r]
  <2>1. Gate!Pass(r)
    BY <1>0, <1>6 DEF Moved, Gate!Pass
  <2> QED
    BY <2>1 DEF Gate!Next
<1> QED
  BY <1>1, <1>2, <1>3, <1>4, <1>5, <1>6 DEF GateStep

\* The end of a request off the wire closes the gate, on the wire it changes
\* nothing for the gate.
LEMMA EndIsGateStep ==
    ASSUME TypeOK, NEW r \in Requests, PathInv(r), pc'[r] = "done", pc[r] # "done",
           UNCHANGED <<handlerVars, ctx, requestVars, nomadVars>>
    PROVE  GateStep(r)
<1>1. UNCHANGED <<job, verdict, req, wire, nomad>>
  BY DEF handlerVars, callVars, requestVars, nomadVars
<1>2. Guarded(r)' = Guarded(r)
  BY <1>1 DEF Guarded
<1>3. /\ offer'[r] = offer[r] /\ accepted'[r] = accepted[r] /\ passed'[r] = passed[r]
  BY <1>1, <1>2 DEF offer, accepted, passed
<1>4. CASE ~Guarded(r)
  BY <1>2, <1>3, <1>4 DEF gate, GateStep, ViewKept
<1>5. CASE Guarded(r) /\ wire[r] # "none"
  BY <1>1, <1>2, <1>3, <1>5 DEF gate, GateStep, ViewKept
<1>6. CASE Guarded(r) /\ wire[r] = "none"
  <2>1. nomad[r] = NotSent
    BY <1>6 DEF PathInv
  <2>2. gate'[r] = "refused" /\ passed[r] = NotSent
    BY <1>1, <1>2, <1>6, <2>1 DEF gate, passed
  <2>3. gate[r] \in {"shut", "open"}
    BY <1>6 DEF gate
  <2> QED
    BY <1>3, <2>2, <2>3 DEF GateStep
<1> QED
  BY <1>4, <1>5, <1>6

\* A step of the handler for a guarded request renders the job, votes on it or
\* is invisible.
LEMMA AdmissionIsGateStep ==
    ASSUME TypeOK, NEW r \in Requests, PathInv(r), Admission(r)
    PROVE  GateStep(r)
<1>0. HandlerTypeOK /\ CallInv(r) /\ pc[r] = "admission" /\ wire[r] = "none"
  BY DEF TypeOK, PathInv, Admission
<1>1. HandlerTypeOK'
  BY <1>0, StepType DEF Admission
<1>2. UNCHANGED <<pc, req, wire, nomad>> /\ Guarded(r)' = Guarded(r)
  BY DEF Admission, proxyVars, requestVars, nomadVars, Guarded
<1>3. gate'[r] = gate[r] /\ passed'[r] = passed[r]
  BY <1>2 DEF gate, passed
<1>4. CASE ~Guarded(r)
  BY <1>2, <1>3, <1>4, ViewOf DEF GateStep, ViewKept, offer, accepted
<1>5. CASE Guarded(r)
  <2>0. /\ gate[r] = "shut" /\ offer[r] = job[r] /\ offer'[r] = job'[r]
        /\ accepted[r] = {v \in Validators : verdict[r][v].vote = "accepts"}
        /\ accepted'[r] = {v \in Validators : verdict'[r][v].vote = "accepts"}
    BY <1>0, <1>2, <1>5 DEF gate, offer, accepted
  <2>1. CASE MutatorFails(r) \/ MutatorReturns(r)
    <3>1. phase[r] = "mutators" /\ verdict' = verdict
      BY <2>1 DEF MutatorFails, MutatorReturns, MutatorsDue
    <3>2. \A v \in Validators : verdict[r][v].vote = "none"
      BY <1>0, <3>1 DEF CallInv, ValidatorsSoFar
    <3>3. accepted[r] = {} /\ accepted'[r] = accepted[r]
      BY <2>0, <3>1, <3>2
    <3>4. offer'[r] \in JobOrNone
      BY <1>1, <2>0 DEF HandlerTypeOK
    <3> QED
      BY <1>3, <2>0, <3>3, <3>4 DEF GateStep
  <2>2. CASE MutatorsReturn(r) \/ AdmissionValidators(r) \/ ValidatorsReturn(r)
    <3>1. UNCHANGED <<job, verdict>>
      BY <2>2 DEF MutatorsReturn, AdmissionValidators, ValidatorsReturn
    <3> QED
      BY <1>3, <2>0, <3>1 DEF GateStep, ViewKept
  <2>3. CASE CopyFails(r) \/ ValidatorReturns(r)
    <3>1. /\ phase[r] = "validators" /\ at[r] \in Validators /\ job'[r] = job[r]
      BY <1>0, <2>3 DEF CopyFails, ValidatorReturns, ValidatorsDue, AfterValidator, HandlerTypeOK
    <3>2. job[r] \in Jobs /\ job[r] # NoJob
      BY <1>0, <3>1, HandlerAssumption DEF CallInv, MutatorsSoFar
    <3>3. verdict[r][at[r]].vote = "none"
      <4>1. at[r] >= at[r]
        BY <3>1 DEF Validators
      <4> QED
        BY <1>0, <3>1, <4>1 DEF CallInv, ValidatorsSoFar
    <3>4. /\ \A v \in Validators : v # at[r] => verdict'[r][v] = verdict[r][v]
          /\ verdict'[r][at[r]].vote \in {"accepts", "objects", "copyfailed"}
      <4>0. verdict \in [Requests -> [Validators -> Verdicts]]
        BY <1>0 DEF HandlerTypeOK
      <4>1. CASE CopyFails(r)
        <5>1. verdict' = [verdict EXCEPT ![r][at[r]] =
                              [saw |-> NoJob, said |-> 0, vote |-> "copyfailed"]]
          BY <4>1 DEF CopyFails
        <5> QED
          BY <3>1, <4>0, <5>1
      <4>2. CASE ValidatorReturns(r)
        <5>1. PICK n \in 0 .. MaxWarnings, vote \in {"accepts", "objects"} :
                 verdict' = [verdict EXCEPT ![r][at[r]] =
                                [saw |-> job[r], said |-> n, vote |-> vote]]
          BY <4>2 DEF ValidatorReturns
        <5> QED
          BY <3>1, <4>0, <5>1
      <4> QED
        BY <2>3, <4>1, <4>2
    <3>5. CASE verdict'[r][at[r]].vote = "accepts"
      <4>1. accepted'[r] = accepted[r] \cup {at[r]}
        BY <2>0, <3>1, <3>4, <3>5
      <4> QED
        BY <1>3, <2>0, <3>1, <3>2, <4>1 DEF GateStep
    <3>6. CASE verdict'[r][at[r]].vote # "accepts"
      <4>1. accepted'[r] = accepted[r]
        BY <2>0, <3>1, <3>3, <3>4, <3>6
      <4> QED
        BY <1>3, <2>0, <3>1, <4>1 DEF GateStep, ViewKept
    <3> QED
      BY <3>5, <3>6
  <2> QED
    BY <2>1, <2>2, <2>3 DEF Admission, HandlerStep
<1> QED
  BY <1>4, <1>5

\* Every step about a request is a gate step for it.
LEMMA RequestStepIsGateStep ==
    ASSUME TypeOK, NEW r \in Requests, PathInv(r), RequestStep(r)
    PROVE  GateStep(r)
<1> USE DEF GoTo
<1>0. HandlerTypeOK /\ ProxyTypeOK /\ CallInv(r)
  BY DEF TypeOK, PathInv
<1>1. ASSUME NEW x \in Incoming, Receive(r, x) PROVE GateStep(r)
  <2>1. /\ pc[r] = "idle" /\ pc'[r] = "arrived" /\ UNCHANGED <<job, verdict, wire, nomad>>
    BY <1>0, <1>1 DEF Receive, ProxyTypeOK, nomadVars, handlerVars, callVars
  <2>2. /\ phase[r] = "idle" /\ job[r] = NoJob /\ wire[r] = "none" /\ nomad[r] = NotSent
        /\ \A v \in Validators : verdict[r][v].vote = "none"
    BY <1>0, <2>1 DEF PathInv, CallInv, MutatorsSoFar, ValidatorsSoFar
  <2>3. /\ gate[r] = "shut" /\ gate'[r] = "shut" /\ offer[r] = NoJob /\ offer'[r] = NoJob
        /\ accepted[r] = {} /\ accepted'[r] = {}
        /\ passed[r] = NotSent /\ passed'[r] = NotSent
    BY <2>1, <2>2 DEF gate, offer, accepted, passed
  <2> QED
    BY <2>3 DEF GateStep, ViewKept
<1>k. ASSUME UNCHANGED <<job, verdict, req, wire, nomad>>,
             pc[r] \notin {"done", "ready", "roundtrip"},
             pc'[r] \notin {"done", "ready", "roundtrip"}
      PROVE  GateStep(r)
  BY <1>k DEF GateStep, ViewKept, gate, offer, accepted, passed, Guarded
<1>2. CASE resolveRequestContext(r) \/ TokenResolved(r)
  <2>1. pc[r] \in {"arrived", "resolving"} /\ pc'[r] \in {"resolving", "admitting"}
    BY <1>0, <1>2 DEF resolveRequestContext, TokenResolved, ProxyTypeOK
  <2>2. UNCHANGED <<job, verdict, req, wire, nomad>>
    BY <1>2 DEF resolveRequestContext, TokenResolved, handlerVars, callVars, requestVars, nomadVars
  <2> QED
    BY <1>k, <2>1, <2>2
<1>3. CASE TokenFails(r) \/ DecodeFails(r) \/ MutatorsRefuse(r) \/ ValidatorsRefuse(r)
           \/ EncodeFails(r) \/ SendFails(r) \/ RoundTripFails(r) \/ ReplyArrives(r)
  <2>1. UNCHANGED <<handlerVars, ctx, requestVars, nomadVars>>
    BY <1>3 DEF TokenFails, DecodeFails, MutatorsRefuse, ValidatorsRefuse, EncodeFails,
                SendFails, RoundTripFails, ReplyArrives
  <2>2. pc'[r] = "done" /\ pc[r] # "done"
    BY <1>0, <1>3 DEF TokenFails, DecodeFails, MutatorsRefuse, ValidatorsRefuse, EncodeFails,
                      SendFails, RoundTripFails, ReplyArrives, AdmissionJudged,
                      writeError, badGateway, Finish, ProxyTypeOK
  <2> QED
    BY <2>1, <2>2, EndIsGateStep
<1>4. CASE PassThrough(r)
  <2>1. ~Guarded(r) /\ UNCHANGED req
    BY <1>4 DEF PassThrough, Guarded, isAdmissionActionable
  <2>2. ~Guarded(r)'
    BY <2>1 DEF Guarded
  <2> QED
    BY <2>1, <2>2 DEF GateStep, ViewKept, gate, offer, accepted, passed
<1>5. CASE Decoded(r)
  <2>1. /\ pc[r] = "admitting" /\ pc'[r] = "admission" /\ UNCHANGED <<req, wire, nomad, verdict>>
        /\ job'[r] = req[r].body /\ req[r].body \in JobOrNone
    BY <1>0, <1>5 DEF Decoded, AdmissionMutators, ProxyTypeOK, HandlerTypeOK, Bodies,
                      requestVars, nomadVars
  <2>2. /\ wire[r] = "none" /\ \A v \in Validators : verdict[r][v].vote = "none"
    BY <1>0, <2>1 DEF PathInv, CallInv, ValidatorsSoFar
  <2>3. /\ gate[r] = "shut" /\ gate'[r] = "shut" /\ accepted[r] = {} /\ accepted'[r] = {}
        /\ passed'[r] = passed[r] /\ offer'[r] \in JobOrNone
    BY <2>1, <2>2 DEF gate, offer, accepted, passed, Guarded, JobOrNone
  <2> QED
    BY <2>3 DEF GateStep
<1>6. CASE Admission(r)
  BY <1>6, AdmissionIsGateStep
<1>7. CASE handleRegister(r) \/ handlePlan(r)
  <2>1. /\ pc[r] = "admission" /\ phase[r] = "judged" /\ pc'[r] = "ready" /\ Guarded(r)
        /\ errs[r] = <<>> /\ UNCHANGED <<job, verdict, req, wire, nomad>>
    BY <1>0, <1>7 DEF handleRegister, handlePlan, AdmissionJudged, Rewrite, Guarded,
                      ApplyAdmissionControllers, ProxyTypeOK, handlerVars, callVars, nomadVars
  <2>2. /\ job[r] # NoJob /\ wire[r] = "none"
        /\ \A v \in Validators : verdict[r][v].vote = "accepts"
    BY <1>0, <2>1, HandlerAssumption DEF PathInv, CallInv, MutatorsSoFar, ValidatorsSoFar
  <2>3. Guarded(r)'
    BY <2>1 DEF Guarded
  <2>4. /\ gate[r] = "shut" /\ offer[r] # NoJob /\ accepted[r] = Validators
        /\ gate'[r] = "open" /\ offer'[r] = offer[r] /\ accepted'[r] = accepted[r]
        /\ passed'[r] = passed[r]
    BY <2>1, <2>2, <2>3 DEF gate, offer, accepted, passed
  <2> QED
    BY <2>4 DEF GateStep
<1>8. CASE handleValidate(r)
  <2>1. ~Guarded(r) /\ UNCHANGED req
    BY <1>0, <1>8, RoutesExclude
    DEF handleValidate, Rewrite, Guarded, Validation, ProxyTypeOK
  <2>2. ~Guarded(r)'
    BY <2>1 DEF Guarded
  <2> QED
    BY <2>1, <2>2 DEF GateStep, ViewKept, gate, offer, accepted, passed
<1>9. CASE Send(r)
  <2>1. /\ pc[r] = "ready" /\ pc'[r] = "roundtrip" /\ UNCHANGED <<job, verdict, req, nomad>>
    BY <1>0, <1>9 DEF Send, ProxyTypeOK, handlerVars, callVars, requestVars
  <2> QED
    BY <2>1 DEF GateStep, ViewKept, gate, offer, accepted, passed, Guarded
<1>10. CASE NomadReceives(r)
  <2>1. /\ wire[r] = "request" /\ wire'[r] = "processing" /\ nomad'[r] = out[r]
        /\ UNCHANGED <<job, verdict, req, pc>>
    BY <1>0, <1>10 DEF NomadReceives, ProxyTypeOK, handlerVars, callVars, requestVars
  <2>2. /\ nomad[r] = NotSent /\ pc[r] \in {"roundtrip", "done"}
        /\ (Guarded(r) => out[r] = job[r])
    BY <2>1 DEF PathInv, Guarded, isAdmissionActionable
  <2>3. Guarded(r)' = Guarded(r)
    BY <2>1 DEF Guarded
  <2>4. CASE ~Guarded(r)
    BY <2>1, <2>3, <2>4 DEF GateStep, ViewKept, gate, offer, accepted, passed
  <2>5. CASE Guarded(r)
    <3>1. /\ gate[r] = "open" /\ gate'[r] = "open" /\ passed[r] = NotSent
          /\ passed'[r] = offer[r] /\ offer'[r] = offer[r] /\ accepted'[r] = accepted[r]
      BY <2>1, <2>2, <2>3, <2>5 DEF gate, offer, accepted, passed
    <3> QED
      BY <3>1 DEF GateStep
  <2> QED
    BY <2>4, <2>5
<1>11. ASSUME NEW resp \in NomadResponses(r), NomadReplies(r, resp) PROVE GateStep(r)
  <2>1. /\ wire[r] = "processing" /\ wire'[r] = "reply"
        /\ UNCHANGED <<job, verdict, req, pc, nomad>>
    BY <1>0, <1>11 DEF NomadReplies, ProxyTypeOK, handlerVars, callVars, requestVars
  <2> QED
    BY <2>1 DEF GateStep, ViewKept, gate, offer, accepted, passed, Guarded
<1>12. CASE Cancelled(r)
  <2>1. UNCHANGED <<job, verdict, req, pc, wire, nomad>>
    BY <1>12 DEF Cancelled, handlerVars, callVars, requestVars, nomadVars
  <2> QED
    BY <2>1 DEF GateStep, ViewKept, gate, offer, accepted, passed, Guarded
<1> QED
  BY <1>1, <1>2, <1>3, <1>4, <1>5, <1>6, <1>7, <1>8, <1>9, <1>10, <1>11, <1>12
  DEF RequestStep, GoroutineStep, NomadStep

\* The proxy implements the admission gate: of the requests it takes for
\* registrations and plans, a job is rewritten only before the first vote, passes only with all votes and
\* as voted on, and never after a refusal.
THEOREM ProxyImplementsGate == Spec => ImplementsGate
<1>1. TypeOK /\ ProxyInv /\ [Next]_vars => [Gate!Next]_<<gate, offer, accepted, passed>>
  <2> SUFFICES ASSUME TypeOK, ProxyInv, [Next]_vars
               PROVE  [Gate!Next]_<<gate, offer, accepted, passed>>
    OBVIOUS
  <2>1. ASSUME NEW r \in Requests, RequestStep(r)
        PROVE  [Gate!Next]_<<gate, offer, accepted, passed>>
    <3>1. PathInv(r)
      BY DEF ProxyInv
    <3>2. GateStep(r)
      BY <2>1, <3>1, RequestStepIsGateStep
    <3>3. Moved(r)
      BY <2>1, OneRequestMoves
    <3> QED
      BY <3>2, <3>3, GateStepIsStep
  <2>2. CASE UNCHANGED vars
    <3>1. UNCHANGED <<job, verdict, req, pc, wire, nomad>>
      BY <2>2 DEF vars, handlerVars, callVars, proxyVars, requestVars, nomadVars
    <3> QED
      BY <3>1 DEF gate, offer, accepted, passed, Guarded
  <2> QED
    BY <2>1, <2>2 DEF Next, Quiet
<1> QED
  BY <1>1, GateInit, ProxyInvariant, PTL DEF Spec, ImplementsGate, Gate!Spec, Gate!gateVars
=============================================================================
