-------------------------- MODULE ProxyAnswerProofs --------------------------
(***************************************************************************)
(* Proofs that the proxy runs the handler as HandlerSpec says, and about   *)
(* the context of a request and the answer its client gets.                *)
(***************************************************************************)
EXTENDS ProxyProofs

-----------------------------------------------------------------------------
(* The proxy and the handler *)

\* A step about a request is a call of the handler with the decoded job, one
\* step of the handler for that request, or nothing to the handler.
LEMMA HandlerMoves ==
    ASSUME TypeOK, NEW r \in Requests, RequestStep(r)
    PROVE  \/ \E j \in JobOrNone : AdmissionMutators(r, j)
           \/ HandlerStep(r)
           \/ UNCHANGED handlerVars
<1>1. CASE Decoded(r)
  <2>1. req[r].body \in JobOrNone /\ AdmissionMutators(r, req[r].body)
    BY <1>1 DEF Decoded, TypeOK, ProxyTypeOK, Bodies
  <2> QED
    BY <2>1
<1>2. CASE Admission(r)
  BY <1>2 DEF Admission
<1>3. CASE \/ (\E x \in Incoming : Receive(r, x))
           \/ resolveRequestContext(r) \/ TokenResolved(r) \/ TokenFails(r)
           \/ PassThrough(r) \/ DecodeFails(r) \/ MutatorsRefuse(r) \/ ValidatorsRefuse(r)
           \/ EncodeFails(r)
  BY <1>3 DEF Receive, resolveRequestContext, TokenResolved, TokenFails, PassThrough,
              DecodeFails, MutatorsRefuse, ValidatorsRefuse, EncodeFails
<1>4. CASE \/ handleRegister(r) \/ handlePlan(r) \/ handleValidate(r)
           \/ Send(r) \/ SendFails(r) \/ ReplyArrives(r) \/ NomadStep(r)
           \/ RoundTripFails(r) \/ Cancelled(r)
  BY <1>4 DEF handleRegister, handlePlan, handleValidate, Rewrite, Send, SendFails,
              ReplyArrives, NomadStep, NomadReceives, NomadReplies, RoundTripFails, Cancelled
<1> QED
  BY <1>1, <1>2, <1>3, <1>4 DEF RequestStep, GoroutineStep

\* The proxy uses the handler as it is meant to be used: what it does to it is
\* a behaviour of HandlerSpec, whatever clients and Nomad do.
THEOREM ProxyRunsTheHandler == Spec => HandlerSpec
<1>1. Init => HandlerInit
  BY DEF Init
<1>2. TypeOK /\ [Next]_vars => [HandlerNext]_handlerVars
  <2> SUFFICES ASSUME TypeOK, [Next]_vars PROVE [HandlerNext]_handlerVars
    OBVIOUS
  <2>1. ASSUME NEW r \in Requests, RequestStep(r) PROVE [HandlerNext]_handlerVars
    BY <2>1, HandlerMoves DEF HandlerNext
  <2>2. CASE UNCHANGED vars
    BY <2>2 DEF vars
  <2> QED
    BY <2>1, <2>2 DEF Next, Quiet
<1> QED
  BY <1>1, <1>2, TypeCorrect, PTL DEF Spec, HandlerSpec

-----------------------------------------------------------------------------
(* The context of a request *)

\* The entries of request q that ContextInv speaks of.
ContextFrame(q) ==
    /\ PathFrame(q)
    /\ mutWarnings'[q] = mutWarnings[q] /\ valWarnings'[q] = valWarnings[q]
    /\ tokenInfo'[q] = tokenInfo[q] /\ ctxWarnings'[q] = ctxWarnings[q]
    /\ ctxError'[q] = ctxError[q] /\ reply'[q] = reply[q] /\ final'[q] = final[q]

\* ContextInv speaks of the request's own entries only.
LEMMA ContextFrameKeeps ==
    ASSUME NEW q \in Requests, ContextInv(q), ContextFrame(q)
    PROVE  ContextInv(q)'
BY DEF ContextInv, ContextFrame, PathFrame, MustResolve, isAdmissionActionable, Guarded,
       Validation, Modified, RouteOnTheWayBack, PolicyWarnings

\* Nobody touches the context of another request.
LEMMA OtherContexts ==
    ASSUME TypeOK, NEW r \in Requests, NEW q \in Requests, q # r, RequestStep(r)
    PROVE  ContextFrame(q)
<1>0. PathFrame(q)
  BY OthersUntouched
<1>00. mutWarnings'[q] = mutWarnings[q] /\ valWarnings'[q] = valWarnings[q]
  <2>1. HandlerTypeOK
    BY DEF TypeOK
  <2>2. ASSUME NEW j \in JobOrNone, AdmissionMutators(r, j)
        PROVE  mutWarnings' = mutWarnings /\ valWarnings' = valWarnings
    BY <2>2 DEF AdmissionMutators
  <2>3. ASSUME UNCHANGED handlerVars
        PROVE  mutWarnings' = mutWarnings /\ valWarnings' = valWarnings
    BY <2>3 DEF handlerVars, callVars
  <2> QED
    BY <2>1, <2>2, <2>3, HandlerMoves, StepFrame
<1> SUFFICES /\ tokenInfo'[q] = tokenInfo[q] /\ ctxWarnings'[q] = ctxWarnings[q]
             /\ ctxError'[q] = ctxError[q] /\ reply'[q] = reply[q] /\ final'[q] = final[q]
  BY <1>0, <1>00 DEF ContextFrame
<1> USE DEF TypeOK, ProxyTypeOK, writeError, badGateway,
            requestVars, contextVars, nomadVars, answerVars
<1>1. ASSUME NEW x \in Incoming, Receive(r, x)
      PROVE  UNCHANGED <<tokenInfo, ctxWarnings, ctxError, reply, final>>
  BY <1>1 DEF Receive
<1>2. CASE resolveRequestContext(r) \/ TokenResolved(r)
  BY <1>2 DEF resolveRequestContext, TokenResolved
<1>3. CASE TokenFails(r) \/ DecodeFails(r) \/ MutatorsRefuse(r) \/ ValidatorsRefuse(r)
           \/ EncodeFails(r) \/ SendFails(r) \/ RoundTripFails(r)
  BY <1>3 DEF TokenFails, DecodeFails, MutatorsRefuse, ValidatorsRefuse, EncodeFails,
              SendFails, RoundTripFails
<1>4. CASE PassThrough(r) \/ Decoded(r)
  BY <1>4 DEF PassThrough, Decoded
<1>5. CASE Admission(r)
  BY <1>5 DEF Admission, proxyVars
<1>6. CASE handleRegister(r) \/ handlePlan(r) \/ handleValidate(r)
  BY <1>6 DEF handleRegister, handlePlan, handleValidate, Rewrite
<1>7. CASE Send(r) \/ NomadReceives(r) \/ Cancelled(r)
  BY <1>7 DEF Send, NomadReceives, Cancelled
<1>8. CASE ReplyArrives(r)
  BY <1>8 DEF ReplyArrives
<1>9. ASSUME NEW resp \in NomadResponses(r), NomadReplies(r, resp)
      PROVE  reply'[q] = reply[q] /\ UNCHANGED <<tokenInfo, ctxWarnings, ctxError, final>>
  BY <1>9 DEF NomadReplies
<1> QED
  BY <1>1, <1>2, <1>3, <1>4, <1>5, <1>6, <1>7, <1>8, <1>9
  DEF RequestStep, GoroutineStep, NomadStep

\* Nomad frames its answers as they are.
LEMMA NomadFrames ==
    ASSUME NEW r \in Requests, NEW resp \in NomadResponses(r) PROVE WellFramed(resp)
<1>1. PICK ok \in BOOLEAN,
           b \in [coding : {"plain", "gzip"}, json : BOOLEAN,
                  warnings : {<<>>, <<[by |-> "nomad", at |-> 0]>>},
                  errors : IF Validation(r) THEN {<<>>, <<[by |-> "nomad", at |-> 0]>>}
                           ELSE {<<>>}] :
         resp = [success |-> ok, gzip |-> b.coding = "gzip", body |-> b, length |-> b]
  BY DEF NomadResponses
<1>2. /\ resp.body = b /\ resp.length = b
      /\ resp.gzip = (b.coding = "gzip")
  BY <1>1, Zenon
<1> QED
  BY <1>2, Zenon DEF WellFramed

-----------------------------------------------------------------------------
(* Steps about a request *)

\* A request that ends without Nomad's answer keeps its context.
LEMMA EndKeepsContext ==
    ASSUME TypeOK, NEW r \in Requests, ContextInv(r),
           NEW kind \in {"error500", "gateway502"}, Finish(r, kind), UNCHANGED final,
           UNCHANGED <<handlerVars, ctx, requestVars, nomadVars>>
    PROVE  ContextInv(r)'
<1>1. /\ phase' = phase /\ errs' = errs /\ req' = req /\ tokenInfo' = tokenInfo
      /\ ctxError' = ctxError /\ ctxWarnings' = ctxWarnings /\ out' = out
      /\ wire' = wire /\ reply' = reply
      /\ mutWarnings' = mutWarnings /\ valWarnings' = valWarnings
  BY DEF handlerVars, callVars, requestVars, contextVars, nomadVars
<1>2. pc'[r] = "done" /\ answer'[r] \in {kind, "lost"}
  BY DEF Finish, TypeOK, ProxyTypeOK
<1>3. PolicyWarnings(r)' = PolicyWarnings(r)
  BY <1>1 DEF PolicyWarnings, Validation
<1> QED
  BY <1>1, <1>2, <1>3 DEF ContextInv, MustResolve, isAdmissionActionable, Guarded, Validation

\* Up to the moment the request is sent.
LEMMA RequestKeepsContext ==
    ASSUME TypeOK, NEW r \in Requests, PathInv(r), ContextInv(r),
           \/ \E x \in Incoming : Receive(r, x)
           \/ resolveRequestContext(r) \/ TokenResolved(r) \/ PassThrough(r) \/ Decoded(r)
           \/ Admission(r)
    PROVE  ContextInv(r)'
<1> USE DEF TypeOK, HandlerTypeOK, ProxyTypeOK, GoTo, MustResolve, isAdmissionActionable,
            Guarded, Validation
<1>0. answer[r] # "none" => pc[r] = "done"
  BY DEF PathInv
<1>00. pc[r] \in {"idle", "arrived", "resolving", "admitting"} =>
          phase[r] = "idle" /\ wire[r] = "none"
  BY DEF PathInv
<1>1. ASSUME NEW x \in Incoming, Receive(r, x) PROVE ContextInv(r)'
  <2>1. /\ pc[r] = "idle" /\ pc'[r] = "arrived" /\ UNCHANGED handlerVars
        /\ UNCHANGED <<tokenInfo, ctxWarnings, ctxError, wire, answer>>
    BY <1>1 DEF Receive, contextVars, nomadVars, answerVars
  <2>2. phase'[r] = "idle" /\ phase[r] = "idle"
    BY <1>00, <2>1 DEF handlerVars, callVars
  <2> QED
    BY <1>0, <1>00, <2>1, <2>2 DEF ContextInv
<1>2. CASE resolveRequestContext(r)
  <2>1. /\ pc[r] = "arrived" /\ pc'[r] = IF MustResolve(r) THEN "resolving" ELSE "admitting"
        /\ phase' = phase /\ UNCHANGED <<req, tokenInfo, ctxWarnings, ctxError, wire, answer>>
    BY <1>2 DEF resolveRequestContext, requestVars, contextVars, nomadVars, answerVars,
                handlerVars, callVars
  <2> QED
    BY <1>0, <1>00, <2>1 DEF ContextInv
<1>3. CASE TokenResolved(r)
  <2>1. /\ pc[r] = "resolving" /\ pc'[r] = "admitting" /\ tokenInfo'[r] = "resolved"
        /\ phase' = phase /\ UNCHANGED <<req, ctxWarnings, ctxError, wire, answer>>
    BY <1>3 DEF TokenResolved, nomadVars, answerVars, handlerVars, callVars
  <2> QED
    BY <1>0, <1>00, <2>1 DEF ContextInv
<1>4. CASE PassThrough(r)
  <2>1. /\ pc[r] = "admitting" /\ pc'[r] = "ready" /\ ~isAdmissionActionable(r)
        /\ out'[r] = req[r].body
        /\ phase' = phase /\ UNCHANGED <<req, tokenInfo, ctxWarnings, ctxError, wire, answer>>
    BY <1>4 DEF PassThrough, contextVars, nomadVars, answerVars, handlerVars, callVars
  <2> QED
    BY <1>0, <1>00, <2>1 DEF ContextInv
<1>5. CASE Decoded(r)
  <2>1. /\ pc[r] = "admitting" /\ pc'[r] = "admission" /\ isAdmissionActionable(r)
        /\ UNCHANGED <<req, tokenInfo, ctxWarnings, ctxError, wire, answer>>
    BY <1>5 DEF Decoded, requestVars, contextVars, nomadVars, answerVars
  <2> QED
    BY <1>0, <1>00, <2>1 DEF ContextInv
<1>6. CASE Admission(r)
  <2>1. /\ pc[r] = "admission" /\ pc' = pc /\ HandlerStep(r)
        /\ UNCHANGED <<req, tokenInfo, ctxWarnings, ctxError, wire, answer>>
    BY <1>6 DEF Admission, proxyVars, requestVars, contextVars, nomadVars, answerVars
  <2>2. phase[r] \in {"mutators", "mutated", "validators"}
    BY <2>1 DEF HandlerStep, MutatorFails, MutatorReturns, MutatorsReturn, AdmissionValidators,
                CopyFails, ValidatorReturns, ValidatorsReturn, MutatorsDue, ValidatorsDue
  <2>3. wire[r] = "none"
    BY <2>1 DEF PathInv
  <2> QED
    BY <1>0, <2>1, <2>2, <2>3 DEF ContextInv
<1> QED
  BY <1>1, <1>2, <1>3, <1>4, <1>5, <1>6

\* The admitted request is rewritten, sent and answered by Nomad.
LEMMA ExchangeKeepsContext ==
    ASSUME TypeOK, NEW r \in Requests, PathInv(r), ContextInv(r),
           \/ handleRegister(r) \/ handlePlan(r) \/ handleValidate(r)
           \/ Send(r) \/ NomadStep(r) \/ Cancelled(r)
    PROVE  ContextInv(r)'
<1> USE DEF TypeOK, HandlerTypeOK, ProxyTypeOK, GoTo, MustResolve, isAdmissionActionable,
            Guarded, Validation
<1>0. /\ answer[r] # "none" => pc[r] = "done"
      /\ wire[r] # "none" => pc[r] \in {"roundtrip", "done"}
  BY DEF PathInv
<1>r. Validation(r) => ~isRegister(req[r].line) /\ ~isPlan(req[r].line)
  BY RoutesExclude
<1>p. ASSUME UNCHANGED handlerVars, UNCHANGED req
      PROVE  /\ phase' = phase /\ errs' = errs /\ PolicyWarnings(r)' = PolicyWarnings(r)
  BY <1>p DEF handlerVars, callVars, PolicyWarnings
<1>1. CASE handleRegister(r) \/ handlePlan(r) \/ handleValidate(r)
  <2>1. /\ pc[r] = "admission" /\ pc'[r] = "ready" /\ phase[r] = "judged"
        /\ UNCHANGED handlerVars /\ UNCHANGED <<req, tokenInfo, wire, answer>>
        /\ isAdmissionActionable(r)
    BY <1>1 DEF handleRegister, handlePlan, handleValidate, AdmissionJudged, Rewrite,
                nomadVars, answerVars
  <2>2. Validation(r) => ctxError'[r] = errs[r]
    BY <1>1, <1>r DEF handleRegister, handlePlan, handleValidate
  <2>3. ctxWarnings'[r] = PolicyWarnings(r)
    BY <1>1, <1>r DEF handleRegister, handlePlan, handleValidate, Rewrite,
                      ApplyAdmissionControllers, PolicyWarnings
  <2> QED
    BY <1>0, <1>p, <2>1, <2>2, <2>3 DEF ContextInv
<1>2. CASE Send(r)
  <2>1. /\ pc[r] = "ready" /\ pc'[r] = "roundtrip" /\ wire'[r] = "request"
        /\ UNCHANGED handlerVars
        /\ UNCHANGED <<req, tokenInfo, ctxError, ctxWarnings, out, answer>>
    BY <1>2 DEF Send, requestVars, contextVars, answerVars
  <2> QED
    BY <1>0, <1>p, <2>1 DEF ContextInv
<1>3. CASE NomadReceives(r)
  <2>1. /\ wire[r] = "request" /\ wire'[r] = "processing"
        /\ UNCHANGED handlerVars
        /\ UNCHANGED <<pc, req, tokenInfo, ctxError, ctxWarnings, out, answer>>
    BY <1>3 DEF NomadReceives, requestVars, contextVars, answerVars
  <2> QED
    BY <1>p, <2>1 DEF ContextInv
<1>4. ASSUME NEW resp \in NomadResponses(r), NomadReplies(r, resp) PROVE ContextInv(r)'
  <2>1. /\ wire[r] = "processing" /\ wire'[r] = "reply" /\ reply'[r] = resp
        /\ UNCHANGED handlerVars
        /\ UNCHANGED <<pc, req, tokenInfo, ctxError, ctxWarnings, out, answer>>
    BY <1>4 DEF NomadReplies, requestVars, contextVars, answerVars
  <2>2. WellFramed(reply'[r])
    BY <2>1, NomadFrames
  <2> QED
    BY <1>p, <2>1, <2>2 DEF ContextInv, WellFramed
<1>5. CASE Cancelled(r)
  <2>1. ContextFrame(r)
    BY <1>5 DEF Cancelled, ContextFrame, PathFrame, requestVars, contextVars, nomadVars,
                answerVars, handlerVars, callVars
  <2> QED
    BY <2>1, ContextFrameKeeps
<1> QED
  BY <1>1, <1>2, <1>3, <1>4, <1>5 DEF NomadStep

\* Nomad's answer is rewritten and passed on, or the request ends with a 502.
LEMMA ReplyKeepsContext ==
    ASSUME TypeOK, NEW r \in Requests, PathInv(r), ContextInv(r), ReplyArrives(r)
    PROVE  ContextInv(r)'
<1>1. /\ phase' = phase /\ errs' = errs /\ req' = req /\ tokenInfo' = tokenInfo
      /\ ctxError' = ctxError /\ ctxWarnings' = ctxWarnings /\ out' = out
      /\ wire' = wire /\ reply' = reply
      /\ mutWarnings' = mutWarnings /\ valWarnings' = valWarnings
  BY DEF ReplyArrives, handlerVars, callVars, requestVars, contextVars, nomadVars
<1>2. CASE Modified(r).err
  BY <1>2, EndKeepsContext DEF ReplyArrives, badGateway
<1>3. CASE ~Modified(r).err
  <2>1. /\ pc'[r] = "done" /\ answer'[r] \in {"nomad", "lost"} /\ final'[r] = Modified(r).resp
        /\ wire[r] = "reply"
    BY <1>3 DEF ReplyArrives, Finish, TypeOK, ProxyTypeOK
  <2>2. Modified(r)' = Modified(r)
    BY <1>1 DEF Modified, RouteOnTheWayBack
  <2>3. PolicyWarnings(r)' = PolicyWarnings(r)
    BY <1>1 DEF PolicyWarnings, Validation
  <2> QED
    BY <1>1, <1>3, <2>1, <2>2, <2>3
    DEF ContextInv, MustResolve, isAdmissionActionable, Guarded, Validation
<1> QED
  BY <1>2, <1>3

\* Every step about a request keeps its context.
LEMMA ContextStep ==
    ASSUME TypeOK, NEW r \in Requests, PathInv(r), ContextInv(r), RequestStep(r)
    PROVE  ContextInv(r)'
<1>1. CASE TokenFails(r) \/ DecodeFails(r) \/ MutatorsRefuse(r) \/ ValidatorsRefuse(r)
           \/ EncodeFails(r) \/ SendFails(r) \/ RoundTripFails(r)
  BY <1>1, EndKeepsContext
  DEF TokenFails, DecodeFails, MutatorsRefuse, ValidatorsRefuse, EncodeFails, SendFails,
      RoundTripFails, AdmissionJudged, writeError, badGateway
<1> QED
  BY <1>1, RequestKeepsContext, ExchangeKeepsContext, ReplyKeepsContext
  DEF RequestStep, GoroutineStep

\* The contexts of all requests are as they should be, and what a client gets
\* from Nomad is what modifyProxyResponse made of it.
THEOREM AnswerInvariant == Spec => []AnswerInv
<1>1. Init => AnswerInv
  BY DEF Init, HandlerInit, ProxyInit, AnswerInv, ContextInv
<1>2. TypeOK /\ ProxyInv /\ AnswerInv /\ [Next]_vars => AnswerInv'
  <2> SUFFICES ASSUME TypeOK, ProxyInv, AnswerInv, [Next]_vars, NEW q \in Requests
               PROVE  ContextInv(q)'
    BY DEF AnswerInv
  <2>0. PathInv(q) /\ ContextInv(q)
    BY DEF ProxyInv, AnswerInv
  <2>1. ASSUME NEW r \in Requests, RequestStep(r) PROVE ContextInv(q)'
    BY <2>0, <2>1, ContextStep, OtherContexts, ContextFrameKeeps
  <2>2. CASE UNCHANGED vars
    <3>1. ContextFrame(q)
      BY <2>2 DEF vars, handlerVars, callVars, proxyVars, requestVars, contextVars,
                  nomadVars, answerVars, ContextFrame, PathFrame
    <3> QED
      BY <2>0, <3>1, ContextFrameKeeps
  <2> QED
    BY <2>1, <2>2 DEF Next, Quiet
<1> QED
  BY <1>1, <1>2, ProxyInvariant, PTL DEF Spec
-----------------------------------------------------------------------------
(* What the answers are *)

\* No controller judges without the token's owner, and only admission asks.
THEOREM PoliciesAreToldTheToken == Spec => []PoliciesKnowTheToken
<1>1. AnswerInv => PoliciesKnowTheToken
  BY DEF AnswerInv, ContextInv, PoliciesKnowTheToken, MustResolve
<1> QED
  BY <1>1, AnswerInvariant, PTL

\* A rewritten answer is framed as its header says.
LEMMA RewriteFrames ==
    ASSUME NEW resp \in Response, NEW w, NEW e
    PROVE  WellFramed(rewriteResponse(resp, w, e))
<1> DEFINE body == [coding |-> CodingOf(resp), json |-> TRUE, warnings |-> w, errors |-> e]
           new == [resp EXCEPT !.body = body, !.length = body]
<1>1. rewriteResponse(resp, w, e) = new
  BY DEF rewriteResponse, LengthOf
<1>2. new.body = body /\ new.length = body /\ new.gzip = resp.gzip
  BY DEF Response
<1>3. body.coding = "gzip" <=> resp.gzip
  BY DEF CodingOf, Response
<1> QED
  BY <1>1, <1>2, <1>3 DEF WellFramed

\* modifyProxyResponse leaves every answer framed.
LEMMA ModifyFrames ==
    ASSUME NEW route, NEW resp \in Response, NEW w, NEW e, WellFramed(resp)
    PROVE  WellFramed(modifyProxyResponse(route, resp, w, e).resp)
<1>1. \A x : Unmodified(x).resp = x /\ Failed(x).resp = x
  BY DEF Unmodified, Failed
<1>2. WellFramed(WithWarnings(resp, w).resp)
  BY <1>1, RewriteFrames DEF WithWarnings
<1>3. WellFramed(handleJobValdidateResponse(resp, w, e).resp)
  BY <1>1, RewriteFrames DEF handleJobValdidateResponse
<1> QED
  BY <1>1, <1>2, <1>3 DEF modifyProxyResponse, handRegisterResponse, handleJobPlanResponse

\* Whatever Nomad and the controllers said, the client can decode the answer.
THEOREM AnswersAreFramed == Spec => []AnswersAreWellFramed
<1>1. TypeOK /\ AnswerInv => AnswersAreWellFramed
  <2> SUFFICES ASSUME TypeOK, AnswerInv, NEW r \in Requests, answer[r] = "nomad"
               PROVE  WellFramed(final[r])
    BY DEF AnswersAreWellFramed
  <2>1. WellFramed(reply[r]) /\ final[r] = Modified(r).resp
    BY DEF AnswerInv, ContextInv
  <2>2. reply[r] \in Response
    BY DEF TypeOK, ProxyTypeOK
  <2> QED
    BY <2>1, <2>2, ModifyFrames DEF Modified
<1> QED
  BY <1>1, AnswerInvariant, TypeCorrect, PTL

\* What is not a success, or has nothing waiting for it, is not rewritten.
LEMMA Untouched ==
    ASSUME NEW route, NEW resp \in Response, NEW w, NEW e,
           ~resp.success \/ (w = <<>> /\ e = <<>>)
    PROVE  modifyProxyResponse(route, resp, w, e).resp = resp
<1>1. \A x : Unmodified(x).resp = x
  BY DEF Unmodified
<1>2. ~isSuccessfulResponse(resp) \/ (w = <<>> /\ e = <<>>)
  BY DEF isSuccessfulResponse
<1>3. /\ WithWarnings(resp, w) = Unmodified(resp)
      /\ handleJobValdidateResponse(resp, w, e) = Unmodified(resp)
  BY <1>2 DEF WithWarnings, handleJobValdidateResponse
<1> QED
  BY <1>1, <1>2, <1>3 DEF modifyProxyResponse, handRegisterResponse, handleJobPlanResponse

\* What is not taken for admission, and Nomad's failures on every route, are
\* passed on as they are.
THEOREM OthersAreUntouched == Spec => []OtherTrafficIsUntouched
<1>1. TypeOK /\ ProxyInv /\ AnswerInv => OtherTrafficIsUntouched
  <2> SUFFICES ASSUME TypeOK, ProxyInv, AnswerInv, NEW r \in Requests
               PROVE  /\ ~isAdmissionActionable(r) =>
                            phase[r] = "idle" /\ nomad[r] \in {NotSent, req[r].body}
                      /\ answer[r] = "nomad" /\ (~isAdmissionActionable(r) \/ ~reply[r].success)
                            => final[r] = reply[r]
    BY DEF OtherTrafficIsUntouched
  <2>1. PathInv(r) /\ ContextInv(r)
    BY DEF ProxyInv, AnswerInv
  <2>2. ~isAdmissionActionable(r) => phase[r] = "idle" /\ nomad[r] \in {NotSent, req[r].body}
    BY <2>1 DEF PathInv, ContextInv
  <2>3. ~isAdmissionActionable(r) => ctxWarnings[r] = <<>> /\ ctxError[r] = <<>>
    BY <2>1 DEF ContextInv
  <2>4. answer[r] = "nomad" => final[r] = Modified(r).resp
    BY <2>1 DEF ContextInv
  <2>5. reply[r] \in Response
    BY DEF TypeOK, ProxyTypeOK
  <2> QED
    BY <2>2, <2>3, <2>4, <2>5, Untouched DEF Modified
<1> QED
  BY <1>1, AnswerInvariant, ProxyInvariant, PTL

\* A successful validation answer shows the errors that were found, unless
\* rewriting it failed.
LEMMA ErrorsAreShown ==
    ASSUME NEW resp \in Response, NEW w, NEW e, resp.success, e # <<>>,
           ~modifyProxyResponse("validate", resp, w, e).err
    PROVE  modifyProxyResponse("validate", resp, w, e).resp.body.errors = e
<1> DEFINE ws == IF w # <<>> THEN buildFullWarningMsg(resp.body.warnings, w)
                 ELSE resp.body.warnings
           new == rewriteResponse(resp, ws, e)
<1>1. modifyProxyResponse("validate", resp, w, e) \in {Failed(resp), Unmodified(new)}
  BY DEF modifyProxyResponse, handleJobValdidateResponse, ValidationErrors, isSuccessfulResponse
<1>2. new.body.errors = e
  <2> DEFINE body == [coding |-> CodingOf(resp), json |-> TRUE, warnings |-> ws, errors |-> e]
  <2>1. new = [resp EXCEPT !.body = body, !.length = body]
    BY DEF rewriteResponse, LengthOf
  <2>2. body.errors = e
    OBVIOUS
  <2> HIDE DEF body, new
  <2>3. new.body = body
    BY <2>1 DEF Response
  <2> QED
    BY <2>2, <2>3
<1> HIDE DEF new
<1>3. \A x : Failed(x).err = TRUE
  BY DEF Failed
<1>4. \A x : Unmodified(x).resp = x
  BY DEF Unmodified
<1> QED
  BY <1>1, <1>2, <1>3, <1>4

\* With a Nomad address without a path, a client of /v1/validate/job learns
\* what a registration would be refused for.
THEOREM ObjectionsAreReported ==
    ASSUME NomadBasePath = <<>> PROVE Spec => []ValidationReportsObjections
<1>1. TypeOK /\ ProxyInv /\ AnswerInv => ValidationReportsObjections
  <2> SUFFICES ASSUME TypeOK, ProxyInv, AnswerInv,
                      NEW r \in Requests, Validation(r), Succeeded(r),
                      ~UnanimouslyAccepted(r, Rendered(r))
               PROVE  final[r].body.errors # <<>> /\ final[r].body.errors = errs[r]
    BY DEF ValidationReportsObjections
  <2>1. /\ PathInv(r) /\ CallInv(r) /\ ContextInv(r)
        /\ answer[r] = "nomad" /\ reply[r].success /\ reply[r] \in Response
    BY DEF ProxyInv, AnswerInv, PathInv, Succeeded, TypeOK, ProxyTypeOK
  <2>2. /\ wire[r] = "reply" /\ ~Modified(r).err /\ final[r] = Modified(r).resp
        /\ ctxError[r] = errs[r]
    BY <2>1 DEF ContextInv
  <2>3. phase[r] = "judged"
    BY <2>1, <2>2 DEF PathInv, isAdmissionActionable
  <2>4. errs[r] # <<>>
    BY <2>1, <2>3 DEF CallInv, MutatorsSoFar, ValidatorsSoFar, UnanimouslyAccepted
  <2>5. RouteOnTheWayBack(r) = "validate"
    <3>1. req[r].line \in Line
      BY DEF TypeOK, ProxyTypeOK
    <3> QED
      BY <3>1, RouteKept, RoutesExclude DEF Route, Validation
  <2> QED
    BY <2>1, <2>2, <2>4, <2>5, ErrorsAreShown DEF Modified
<1> QED
  BY <1>1, AnswerInvariant, ProxyInvariant, PTL

\* An answer that is not turned into a 502 has the warnings w behind its own.
Shown(route, resp, w, e) ==
    LET m == modifyProxyResponse(route, resp, w, e)
    IN  ~m.err => m.resp.body.warnings = resp.body.warnings \o w

\* A successful answer shows the warnings of the controllers after Nomad's own,
\* unless rewriting it failed.
LEMMA WarningsAreShown ==
    ASSUME NEW route \in {"register", "plan", "validate"},
           NEW resp \in Response, NEW w \in Seq(Notice), NEW e, resp.success
    PROVE  Shown(route, resp, w, e)
<1> SUFFICES ASSUME ~modifyProxyResponse(route, resp, w, e).err
             PROVE  modifyProxyResponse(route, resp, w, e).resp.body.warnings
                       = resp.body.warnings \o w
  BY DEF Shown
<1> DEFINE given == resp.body.warnings
           new(ws, es) == rewriteResponse(resp, ws, es)
<1>1. given \in Seq(Notice) /\ given \o <<>> = given
  BY DEF Response, Payloads
<1>2. \A ws, es : new(ws, es).body.warnings = ws
  <2> TAKE ws, es
  <2> DEFINE body == [coding |-> CodingOf(resp), json |-> TRUE, warnings |-> ws, errors |-> es]
  <2>1. new(ws, es) = [resp EXCEPT !.body = body, !.length = body]
    BY DEF rewriteResponse, LengthOf
  <2>2. body.warnings = ws
    OBVIOUS
  <2> HIDE DEF body, new
  <2>3. new(ws, es).body = body
    BY <2>1 DEF Response
  <2> QED
    BY <2>2, <2>3
<1>3. \A x : Failed(x).err = TRUE /\ Unmodified(x).resp = x
  BY DEF Failed, Unmodified
<1>4. CASE route \in {"register", "plan"}
  <2>1. modifyProxyResponse(route, resp, w, e) = WithWarnings(resp, w)
    BY <1>4 DEF modifyProxyResponse, handRegisterResponse, handleJobPlanResponse
  <2>2. CASE w = <<>>
    <3>1. WithWarnings(resp, w) = Unmodified(resp)
      BY <2>2 DEF WithWarnings
    <3> QED
      BY <1>1, <1>3, <2>1, <2>2, <3>1
  <2>3. CASE w # <<>>
    <3>1. WithWarnings(resp, w) \in {Failed(resp), Unmodified(new(given \o w, resp.body.errors))}
      BY <2>3 DEF WithWarnings, isSuccessfulResponse, buildFullWarningMsg
    <3> HIDE DEF new
    <3>2. new(given \o w, resp.body.errors).body.warnings = given \o w
      BY <1>2
    <3> QED
      BY <1>3, <2>1, <3>1, <3>2
  <2> QED
    BY <2>2, <2>3
<1>5. CASE route = "validate"
  <2>1. modifyProxyResponse(route, resp, w, e) = handleJobValdidateResponse(resp, w, e)
    BY <1>5 DEF modifyProxyResponse
  <2> DEFINE es == ValidationErrors(resp.body.errors, e)
  <2>2. CASE w = <<>>
    <3>1. handleJobValdidateResponse(resp, w, e)
             \in {Unmodified(resp), Failed(resp), Unmodified(new(given, es))}
      BY <2>2 DEF handleJobValdidateResponse
    <3> HIDE DEF new, es
    <3>2. new(given, es).body.warnings = given
      BY <1>2
    <3> QED
      BY <1>1, <1>3, <2>1, <2>2, <3>1, <3>2
  <2>3. CASE w # <<>>
    <3>1. handleJobValdidateResponse(resp, w, e)
             \in {Failed(resp), Unmodified(new(given \o w, es))}
      BY <2>3 DEF handleJobValdidateResponse, isSuccessfulResponse, buildFullWarningMsg
    <3> HIDE DEF new, es
    <3>2. new(given \o w, es).body.warnings = given \o w
      BY <1>2
    <3> QED
      BY <1>3, <2>1, <3>1, <3>2
  <2> QED
    BY <2>2, <2>3
<1> QED
  BY <1>4, <1>5

\* With a Nomad address without a path, a client whose request succeeds reads
\* every warning of every controller, as often as it was given.
THEOREM WarningsAreCarried ==
    ASSUME NomadBasePath = <<>> PROVE Spec => []SuccessCarriesAllWarnings
<1>1. TypeOK /\ ProxyInv /\ AnswerInv /\ ReportInv => SuccessCarriesAllWarnings
  <2> SUFFICES ASSUME TypeOK, ProxyInv, AnswerInv, ReportInv, NEW r \in Requests,
                      isAdmissionActionable(r), Succeeded(r)
               PROVE  /\ final[r].body.warnings = reply[r].body.warnings \o PolicyWarnings(r)
                      /\ NamesWarnings(mutWarnings[r], "mutator", mutation[r])
                      /\ NamesWarnings(valWarnings[r], "validator", verdict[r])
    BY DEF SuccessCarriesAllWarnings
  <2>1. /\ PathInv(r) /\ ContextInv(r) /\ NoticesInv(r)
        /\ answer[r] = "nomad" /\ reply[r].success
        /\ reply[r] \in Response /\ ctxWarnings[r] \in Seq(Notice)
    BY DEF ProxyInv, AnswerInv, ReportInv, Succeeded, TypeOK, ProxyTypeOK
  <2>2. /\ wire[r] = "reply" /\ ~Modified(r).err /\ final[r] = Modified(r).resp
        /\ ctxWarnings[r] = PolicyWarnings(r)
    BY <2>1 DEF ContextInv
  <2>3. phase[r] = "judged"
    BY <2>1, <2>2 DEF PathInv
  <2>4. RouteOnTheWayBack(r) \in {"register", "plan", "validate"}
    BY RouteKept DEF Route, isAdmissionActionable, Guarded, Validation
  <2>5. final[r].body.warnings = reply[r].body.warnings \o PolicyWarnings(r)
    <3> DEFINE m == modifyProxyResponse(RouteOnTheWayBack(r), reply[r], ctxWarnings[r], ctxError[r])
    <3>1. m = Modified(r)
      BY DEF Modified
    <3>2. ~m.err
      BY <2>2, <3>1
    <3>3. m.resp.body.warnings = reply[r].body.warnings \o ctxWarnings[r]
      <4>1. Shown(RouteOnTheWayBack(r), reply[r], ctxWarnings[r], ctxError[r])
        BY <2>1, <2>4, WarningsAreShown
      <4> QED
        BY <3>2, <4>1 DEF Shown
    <3> HIDE DEF m
    <3> QED
      BY <2>2, <3>1, <3>3
  <2> QED
    BY <2>1, <2>3, <2>5 DEF NoticesInv
<1> QED
  BY <1>1, AnswerInvariant, ProxyInvariant, ProxyRunsTheHandler, HandlerReports, PTL
=============================================================================
