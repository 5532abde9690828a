----------------------------- MODULE ProxyProofs -----------------------------
(***************************************************************************)
(* Proofs about Proxy: types, routes, and that of the jobs whose ID has no  *)
(* slash Nomad registers and plans only what every validator has accepted. *)
(***************************************************************************)
EXTENDS Proxy, JobHandlerProofs

-----------------------------------------------------------------------------
(* Types *)

\* Rewriting an answer yields an answer, whatever warnings and errors go in.
LEMMA RewriteType ==
    ASSUME NEW resp \in Response, NEW w \in Seq(Notice), NEW e \in Seq(Notice)
    PROVE  rewriteResponse(resp, w, e) \in Response
<1> DEFINE body == [coding |-> CodingOf(resp), json |-> TRUE, warnings |-> w, errors |-> e]
<1>1. CodingOf(resp) \in {"plain", "gzip"}
  BY DEF CodingOf
<1>2. body \in Payloads
  BY <1>1 DEF Payloads
<1> HIDE DEF body
<1>3. rewriteResponse(resp, w, e) = [resp EXCEPT !.body = body, !.length = body]
  BY DEF rewriteResponse, LengthOf, body
<1>4. \A b \in Payloads : [resp EXCEPT !.body = b, !.length = b] \in Response
  BY DEF Response
<1> QED
  BY <1>2, <1>3, <1>4

\* The response handlers return an answer (beside their error flag).
LEMMA ModifyType ==
    ASSUME NEW route, NEW resp \in Response, NEW w \in Seq(Notice), NEW e \in Seq(Notice)
    PROVE  modifyProxyResponse(route, resp, w, e).resp \in Response
<1>0. resp.body.warnings \in Seq(Notice) /\ resp.body.errors \in Seq(Notice)
  BY DEF Response, Payloads
<1>1. buildFullWarningMsg(resp.body.warnings, w) \in Seq(Notice)
  BY <1>0, ConcatProperties DEF buildFullWarningMsg
<1>2. ValidationErrors(resp.body.errors, e) \in Seq(Notice)
  BY <1>0 DEF ValidationErrors
<1>3. \A x : Unmodified(x).resp = x /\ Failed(x).resp = x
  BY DEF Unmodified, Failed
<1>4. WithWarnings(resp, w).resp \in Response
  <2> DEFINE r1 == rewriteResponse(resp,
                     buildFullWarningMsg(resp.body.warnings, w), resp.body.errors)
  <2>1. r1 \in Response
    BY <1>0, <1>1, RewriteType
  <2> HIDE DEF r1
  <2>2. WithWarnings(resp, w) \in {Unmodified(resp), Failed(resp), Unmodified(r1)}
    BY DEF WithWarnings, r1
  <2> QED
    BY <1>3, <2>1, <2>2
<1>5. handleJobValdidateResponse(resp, w, e).resp \in Response
  <2> DEFINE ws == IF w # <<>> THEN buildFullWarningMsg(resp.body.warnings, w)
                   ELSE resp.body.warnings
             r2 == rewriteResponse(resp, ws, ValidationErrors(resp.body.errors, e))
  <2>1. ws \in Seq(Notice)
    BY <1>0, <1>1
  <2>2. r2 \in Response
    BY <2>1, <1>2, RewriteType
  <2> HIDE DEF r2
  <2>3. handleJobValdidateResponse(resp, w, e)
           \in {Unmodified(resp), Failed(resp), Unmodified(r2)}
    BY DEF handleJobValdidateResponse, r2
  <2> QED
    BY <1>3, <2>2, <2>3
<1>6. modifyProxyResponse(route, resp, w, e) \in
         {WithWarnings(resp, w), handleJobValdidateResponse(resp, w, e), Unmodified(resp)}
  BY DEF modifyProxyResponse, handRegisterResponse, handleJobPlanResponse
<1> QED
  BY <1>3, <1>4, <1>5, <1>6

\* The initial state is well typed.
LEMMA InitType == Init => TypeOK
<1> SUFFICES ASSUME Init PROVE TypeOK
  OBVIOUS
<1>1. HandlerTypeOK
  BY HandlerInitType DEF Init
<1>2. NoResponse \in Response
  <2>1. NoPayload \in Payloads
    BY DEF NoPayload, Payloads
  <2> QED
    BY <2>1 DEF NoResponse, Response
<1>3. ProxyTypeOK
  <2>1. NoLine \in Line
    BY DEF NoLine, Line, Path, Methods
  <2> QED
    BY <1>2, <2>1 DEF Init, ProxyInit, ProxyTypeOK, Places, Bodies, JobOrNone
<1> QED
  BY <1>1, <1>3 DEF TypeOK

\* What a handler writes and where it goes next is well typed.
LEMMA FinishType ==
    ASSUME ProxyTypeOK, NEW r \in Requests,
           NEW kind \in {"error500", "gateway502", "nomad"}, Finish(r, kind)
    PROVE  /\ pc' \in [Requests -> Places]
           /\ answer' \in [Requests -> {"none", "error500", "gateway502", "nomad", "lost"}]
BY DEF Finish, ProxyTypeOK, Places

\* A step that only ends the request keeps the types.
LEMMA EndType ==
    ASSUME TypeOK, NEW r \in Requests, writeError(r) \/ badGateway(r),
           UNCHANGED <<handlerVars, ctx, requestVars, nomadVars>>
    PROVE  TypeOK'
<1>1. UNCHANGED <<phase, payload, job, at, mutWarnings, valWarnings, errs, mutation, verdict, metrics>>
  BY DEF handlerVars, callVars
<1>2. HandlerTypeOK'
  BY <1>1 DEF TypeOK, HandlerTypeOK
<1>3. UNCHANGED <<ctx, req, tokenInfo, ctxWarnings, ctxError, out, wire, nomad, reply, final>>
  BY DEF requestVars, contextVars, nomadVars, writeError, badGateway
<1>4. /\ pc' \in [Requests -> Places]
      /\ answer' \in [Requests -> {"none", "error500", "gateway502", "nomad", "lost"}]
  BY FinishType DEF writeError, badGateway, TypeOK
<1>5. ProxyTypeOK'
  BY <1>3, <1>4 DEF TypeOK, ProxyTypeOK
<1> QED
  BY <1>2, <1>5 DEF TypeOK

\* The handler's own types do not depend on what the proxy does.
LEMMA HandlerUntouched == ASSUME HandlerTypeOK, UNCHANGED handlerVars PROVE HandlerTypeOK'
BY DEF handlerVars, callVars, HandlerTypeOK

\* Nomad's answers are answers.
LEMMA NomadResponsesType ==
    ASSUME NEW r \in Requests, NEW resp \in NomadResponses(r) PROVE resp \in Response
<1>1. <<>> \in Seq(Notice) /\ <<[by |-> "nomad", at |-> 0]>> \in Seq(Notice)
  <2>1. [by |-> "nomad", at |-> 0] \in Notice
    BY DEF Notice
  <2> QED
    BY <2>1
<1>2. PICK ok \in BOOLEAN,
           b \in [coding : {"plain", "gzip"}, json : BOOLEAN,
                  warnings : {<<>>, <<[by |-> "nomad", at |-> 0]>>},
                  errors : IF Validation(r) THEN {<<>>, <<[by |-> "nomad", at |-> 0]>>}
                           ELSE {<<>>}] :
         resp = [success |-> ok, gzip |-> b.coding = "gzip", body |-> b, length |-> b]
  BY DEF NomadResponses
<1>3. b \in Payloads
  BY <1>1 DEF Payloads
<1>4. (b.coding = "gzip") \in BOOLEAN
  OBVIOUS
<1> QED
  BY <1>2, <1>3, <1>4, Zenon DEF Response

\* A step of a request's goroutine keeps the types.
LEMMA GoroutineType ==
    ASSUME TypeOK, NEW r \in Requests, GoroutineStep(r)
    PROVE  TypeOK'
<1> USE DEF GoTo
<1>0. HandlerTypeOK /\ ProxyTypeOK
  BY DEF TypeOK
<1>1. CASE resolveRequestContext(r)
  <2>1. HandlerTypeOK'
    BY <1>0, <1>1, HandlerUntouched DEF resolveRequestContext
  <2>2. ProxyTypeOK'
    BY <1>0, <1>1 DEF resolveRequestContext, ProxyTypeOK, Places,
                      requestVars, contextVars, nomadVars, answerVars
  <2> QED
    BY <2>1, <2>2 DEF TypeOK
<1>2. CASE TokenResolved(r)
  <2>1. HandlerTypeOK'
    BY <1>0, <1>2, HandlerUntouched DEF TokenResolved
  <2>2. ProxyTypeOK'
    BY <1>0, <1>2 DEF TokenResolved, ProxyTypeOK, Places, nomadVars, answerVars
  <2> QED
    BY <2>1, <2>2 DEF TypeOK
<1>3. CASE TokenFails(r) \/ DecodeFails(r) \/ MutatorsRefuse(r) \/ ValidatorsRefuse(r)
           \/ EncodeFails(r) \/ SendFails(r)
  BY <1>3, EndType
  DEF TokenFails, DecodeFails, MutatorsRefuse, ValidatorsRefuse, EncodeFails, SendFails
<1>4. CASE PassThrough(r)
  <2>1. HandlerTypeOK'
    BY <1>0, <1>4, HandlerUntouched DEF PassThrough
  <2>2. ProxyTypeOK'
    BY <1>0, <1>4 DEF PassThrough, ProxyTypeOK, Places, contextVars, nomadVars, answerVars
  <2> QED
    BY <2>1, <2>2 DEF TypeOK
<1>5. CASE Decoded(r)
  <2>1. req[r].body \in JobOrNone
    BY <1>0, <1>5 DEF Decoded, ProxyTypeOK, Bodies
  <2>2. HandlerTypeOK'
    BY <1>0, <1>5, <2>1, CallType DEF Decoded
  <2>3. ProxyTypeOK'
    BY <1>0, <1>5 DEF Decoded, ProxyTypeOK, Places,
                      requestVars, contextVars, nomadVars, answerVars
  <2> QED
    BY <2>2, <2>3 DEF TypeOK
<1>6. CASE Admission(r)
  <2>1. HandlerTypeOK'
    BY <1>0, <1>6, StepType DEF Admission
  <2>2. ProxyTypeOK'
    BY <1>0, <1>6 DEF Admission, ProxyTypeOK, proxyVars,
                      requestVars, contextVars, nomadVars, answerVars
  <2> QED
    BY <2>1, <2>2 DEF TypeOK
<1>7. ASSUME NEW j \in JobOrNone, NEW w \in Seq(Notice), Rewrite(r, j, w),
             ctxError' \in [Requests -> Seq(Notice)]
      PROVE  TypeOK'
  <2>1. HandlerTypeOK'
    BY <1>0, <1>7, HandlerUntouched DEF Rewrite
  <2>2. out' \in [Requests -> Bodies] /\ ctxWarnings' \in [Requests -> Seq(Notice)]
        /\ pc' \in [Requests -> Places]
    BY <1>0, <1>7 DEF Rewrite, ProxyTypeOK, Places, Bodies
  <2>3. ProxyTypeOK'
    BY <1>0, <1>7, <2>2 DEF Rewrite, ProxyTypeOK, nomadVars, answerVars
  <2> QED
    BY <2>1, <2>3 DEF TypeOK
<1>8. /\ mutWarnings[r] \o valWarnings[r] \in Seq(Notice)
      /\ valWarnings[r] \o mutWarnings[r] \in Seq(Notice)
      /\ errs[r] \in Seq(Notice) /\ job[r] \in JobOrNone
      /\ ctxError \in [Requests -> Seq(Notice)]
  BY <1>0, ConcatProperties DEF HandlerTypeOK, ProxyTypeOK
<1>9. /\ ApplyAdmissionControllers(r).out \in JobOrNone
      /\ ApplyAdmissionControllers(r).warnings \in Seq(Notice)
  BY <1>8 DEF ApplyAdmissionControllers, JobOrNone
<1>10. CASE handleRegister(r) \/ handlePlan(r)
  BY <1>7, <1>8, <1>9, <1>10 DEF handleRegister, handlePlan
<1>11. CASE handleValidate(r)
  BY <1>7, <1>8, <1>11 DEF handleValidate
<1>12. CASE Send(r)
  <2>1. HandlerTypeOK'
    BY <1>0, <1>12, HandlerUntouched DEF Send
  <2>2. ProxyTypeOK'
    BY <1>0, <1>12 DEF Send, ProxyTypeOK, Places, requestVars, contextVars, answerVars
  <2> QED
    BY <2>1, <2>2 DEF TypeOK
<1>13. CASE ReplyArrives(r)
  <2>1. Modified(r).resp \in Response
    BY <1>0, ModifyType DEF ProxyTypeOK, Modified
  <2>2. \/ badGateway(r)
        \/ Finish(r, "nomad") /\ final' = [final EXCEPT ![r] = Modified(r).resp]
    BY <1>13 DEF ReplyArrives
  <2>3. UNCHANGED <<handlerVars, ctx, requestVars, nomadVars>>
    BY <1>13 DEF ReplyArrives
  <2>4. CASE badGateway(r)
    BY <2>3, <2>4, EndType
  <2>5. CASE Finish(r, "nomad") /\ final' = [final EXCEPT ![r] = Modified(r).resp]
    <3>1. HandlerTypeOK'
      BY <1>0, <2>3, HandlerUntouched
    <3>2. final' \in [Requests -> Response]
      BY <1>0, <2>1, <2>5 DEF ProxyTypeOK
    <3>3. ProxyTypeOK'
      BY <1>0, <2>3, <2>5, <3>2, FinishType
      DEF ProxyTypeOK, requestVars, contextVars, nomadVars
    <3> QED
      BY <3>1, <3>3 DEF TypeOK
  <2> QED
    BY <2>2, <2>4, <2>5
<1> QED
  BY <1>1, <1>2, <1>3, <1>4, <1>5, <1>6, <1>10, <1>11, <1>12, <1>13 DEF GoroutineStep

\* A step of anybody keeps the types.
LEMMA RequestStepType ==
    ASSUME TypeOK, NEW r \in Requests, RequestStep(r)
    PROVE  TypeOK'
<1>0. HandlerTypeOK /\ ProxyTypeOK
  BY DEF TypeOK
<1>1. ASSUME NEW q \in Incoming, Receive(r, q) PROVE TypeOK'
  <2>1. HandlerTypeOK'
    BY <1>0, <1>1, HandlerUntouched DEF Receive
  <2>2. q \in [line : Line, token : BOOLEAN, body : Bodies]
    BY ProxyAssumption DEF Incoming
  <2>3. ProxyTypeOK'
    BY <1>0, <1>1, <2>2 DEF Receive, GoTo, ProxyTypeOK, Places,
                            contextVars, nomadVars, answerVars
  <2> QED
    BY <2>1, <2>3 DEF TypeOK
<1>2. CASE GoroutineStep(r)
  BY <1>2, GoroutineType
<1>3. CASE NomadReceives(r)
  <2>1. HandlerTypeOK'
    BY <1>0, <1>3, HandlerUntouched DEF NomadReceives
  <2>2. ProxyTypeOK'
    BY <1>0, <1>3 DEF NomadReceives, ProxyTypeOK, requestVars, contextVars, answerVars
  <2> QED
    BY <2>1, <2>2 DEF TypeOK
<1>4. ASSUME NEW resp \in NomadResponses(r), NomadReplies(r, resp) PROVE TypeOK'
  <2>1. HandlerTypeOK'
    BY <1>0, <1>4, HandlerUntouched DEF NomadReplies
  <2>2. resp \in Response
    BY NomadResponsesType
  <2>3. ProxyTypeOK'
    BY <1>0, <1>4, <2>2 DEF NomadReplies, ProxyTypeOK, requestVars, contextVars, answerVars
  <2> QED
    BY <2>1, <2>3 DEF TypeOK
<1>5. CASE RoundTripFails(r)
  BY <1>5, EndType DEF RoundTripFails
<1>6. CASE Cancelled(r)
  <2>1. HandlerTypeOK'
    BY <1>0, <1>6, HandlerUntouched DEF Cancelled
  <2>2. ProxyTypeOK'
    BY <1>0, <1>6 DEF Cancelled, ProxyTypeOK, requestVars, contextVars, nomadVars, answerVars
  <2> QED
    BY <2>1, <2>2 DEF TypeOK
<1> QED
  BY <1>1, <1>2, <1>3, <1>4, <1>5, <1>6 DEF RequestStep, NomadStep

\* The proxy keeps its types.
THEOREM TypeCorrect == Spec => []TypeOK
<1>1. TypeOK /\ [Next]_vars => TypeOK'
  <2> SUFFICES ASSUME TypeOK, [Next]_vars PROVE TypeOK'
    OBVIOUS
  <2>1. ASSUME NEW r \in Requests, RequestStep(r) PROVE TypeOK'
    BY <2>1, RequestStepType
  <2>2. CASE UNCHANGED vars
    BY <2>2 DEF vars, handlerVars, callVars, proxyVars, requestVars, contextVars, nomadVars,
                answerVars, TypeOK, HandlerTypeOK, ProxyTypeOK
  <2> QED
    BY <2>1, <2>2 DEF Next, Quiet
<1> QED
  BY <1>1, InitType, PTL DEF Spec

-----------------------------------------------------------------------------
(* Routes *)

\* No request is validated and registered or planned.
LEMMA RoutesExclude ==
    ASSUME NEW line \in Line, isValidate(line)
    PROVE  ~isRegister(line) /\ ~isPlan(line)
<1>1. line.path = <<"v1", "validate", "job">>
  BY DEF isValidate, ValidatePath
<1>2. line.path[2] = "validate"
  BY <1>1
<1>3. Len(line.path) = 3
  BY <1>1
<1>4. Len(<<"v1", "jobs">>) = 2
  OBVIOUS
<1> QED
  BY <1>1, <1>2, <1>3, <1>4 DEF isRegister, isCreate, isUpdate, isPlan, jobPathRegex,
                           jobPlanPathRegex, UnderJob, JobsPath

\* The segments NACP's patterns name may occur in paths.
LEMMA SegmentsOfRoutes == "v1" \in Segments /\ "job" \in Segments /\ "plan" \in Segments
<1>1. {"v1", "job", "jobs", "plan", "validate"} \subseteq Segments
  BY ProxyAssumption
<1> QED
  BY <1>1

\* The path of a job whose ID is one segment, segment by segment.
LEMMA JobPathOfPlainID ==
    ASSUME NEW id \in Path, Len(id) = 1
    PROVE  /\ JobPath(id) \in Path /\ Len(JobPath(id)) = 3
           /\ JobPath(id)[1] = "v1" /\ JobPath(id)[2] = "job" /\ JobPath(id)[3] = id[1]
<1> DEFINE p == <<"v1", "job">>
<1>1. p \in Seq(Segments) /\ Len(p) = 2 /\ p[1] = "v1" /\ p[2] = "job"
  BY SegmentsOfRoutes
<1> HIDE DEF p
<1>2. /\ p \o id \in Seq(Segments)
      /\ Len(p \o id) = Len(p) + Len(id)
      /\ \A i \in 1 .. Len(p) + Len(id) :
            (p \o id)[i] = IF i <= Len(p) THEN p[i] ELSE id[i - Len(p)]
  BY <1>1, ConcatProperties DEF Path
<1>3. Len(p \o id) = 3
  BY <1>1, <1>2
<1>4. /\ \A i \in 1 .. 2 : (p \o id)[i] = p[i]
      /\ \A i \in {3} : (p \o id)[i] = id[i - 2]
  BY <1>1, <1>2
<1>5. 1 \in 1 .. 2 /\ 2 \in 1 .. 2 /\ 3 \in {3} /\ 3 - 2 = 1
  OBVIOUS
<1>6. (p \o id)[1] = "v1" /\ (p \o id)[2] = "job"
  BY <1>1, <1>4, <1>5
<1>7. (p \o id)[3] = id[1]
  <2>1. (p \o id)[3] = id[3 - 2]
    BY <1>4, <1>5
  <2> QED
    BY <2>1, <1>5
<1> QED
  BY <1>2, <1>3, <1>6, <1>7 DEF JobPath, Path, p

\* The two patterns match the paths of every job ID that is one segment.
LEMMA PatternsMatchPlainIDs ==
    ASSUME NEW id \in PlainIDs
    PROVE  jobPathRegex(JobPath(id)) /\ jobPlanPathRegex(PlanPath(id))
<1> DEFINE q == JobPath(id)
<1>1. id \in Path /\ Len(id) = 1
  BY ProxyAssumption DEF PlainIDs
<1>2. id[1] # ""
  <2>1. \A i \in DOMAIN id : id[i] # ""
    BY ProxyAssumption DEF PlainIDs
  <2>2. 1 \in DOMAIN id
    BY <1>1 DEF Path
  <2> QED
    BY <2>1, <2>2
<1>3. /\ q \in Seq(Segments) /\ Len(q) = 3
      /\ q[1] = "v1" /\ q[2] = "job" /\ q[3] # ""
  BY <1>1, <1>2, JobPathOfPlainID DEF Path
<1>4. jobPathRegex(q)
  BY <1>3 DEF jobPathRegex, UnderJob
<1> HIDE DEF q
<1>5. /\ Len(q \o <<"plan">>) = 4
      /\ \A i \in 1 .. 3 : (q \o <<"plan">>)[i] = q[i]
      /\ (q \o <<"plan">>)[4] = "plan"
  <2> DEFINE t == <<"plan">>
  <2>1. t \in Seq(Segments) /\ Len(t) = 1 /\ t[1] = "plan"
    BY SegmentsOfRoutes
  <2> HIDE DEF t
  <2>0. Len(q) = 3
    BY <1>3
  <2>2. /\ Len(q \o t) = Len(q) + Len(t)
        /\ \A i \in 1 .. Len(q) + Len(t) :
              (q \o t)[i] = IF i <= Len(q) THEN q[i] ELSE t[i - Len(q)]
    BY <1>3, <2>1, ConcatProperties
  <2>3. Len(q \o t) = 4
    BY <2>0, <2>1, <2>2
  <2>4. \A i \in 1 .. 3 : (q \o t)[i] = q[i]
    BY <2>0, <2>1, <2>2
  <2>5. \A i \in {4} : (q \o t)[i] = t[i - 3]
    BY <2>0, <2>1, <2>2
  <2>6. (q \o t)[4] = t[4 - 3]
    BY <2>5
  <2>7. 4 - 3 = 1
    OBVIOUS
  <2> QED
    BY <2>1, <2>3, <2>4, <2>6, <2>7 DEF t
<1>6. jobPlanPathRegex(q \o <<"plan">>)
  <2> DEFINE path == q \o <<"plan">>
  <2>1. Len(path) = 4 /\ path[4] = "plan" /\ \A i \in 1 .. 3 : path[i] = q[i]
    BY <1>5
  <2>2. 1 \in 1 .. 3 /\ 2 \in 1 .. 3 /\ 3 \in 1 .. 3
    OBVIOUS
  <2> HIDE DEF path
  <2>3. path[1] = q[1] /\ path[2] = q[2] /\ path[3] = q[3]
    BY <2>1, <2>2
  <2>4. jobPlanPathRegex(path)
    BY <1>3, <2>1, <2>3 DEF jobPlanPathRegex, UnderJob
  <2> QED
    BY <2>4 DEF path
<1> QED
  BY <1>4, <1>6 DEF PlanPath, q

\* NACP takes for a registration or a plan whatever the client asks for as
\* that, when the job's ID is one segment.
LEMMA PlainIDsAreGuarded ==
    ASSUME NEW line, AsksForJob(line, PlainIDs)
    PROVE  isRegister(line) \/ isPlan(line)
BY PatternsMatchPlainIDs DEF AsksForJob, isRegister, isCreate, isUpdate, isPlan

\* Behind a Nomad address without a path the answer is found on the route the
\* request came on.
LEMMA RouteKept ==
    ASSUME TypeOK, NomadBasePath = <<>>, NEW r \in Requests
    PROVE  RouteOnTheWayBack(r) = Route(req[r].line)
<1>1. req[r].line \in Line
  BY DEF TypeOK, ProxyTypeOK
<1>2. req[r].line.path \in Seq(Segments)
  BY <1>1 DEF Line, Path
<1>3. <<>> \o req[r].line.path = req[r].line.path
  BY <1>2, ConcatEmptySeq
<1>4. [req[r].line EXCEPT !.path = req[r].line.path] = req[r].line
  BY <1>1 DEF Line
<1> QED
  BY <1>3, <1>4 DEF RouteOnTheWayBack

-----------------------------------------------------------------------------
(* The path of a request *)

\* The entries of request q that PathInv speaks of.
PathFrame(q) ==
    /\ phase'[q] = phase[q] /\ payload'[q] = payload[q] /\ job'[q] = job[q]
    /\ at'[q] = at[q] /\ errs'[q] = errs[q]
    /\ mutation'[q] = mutation[q] /\ verdict'[q] = verdict[q]
    /\ pc'[q] = pc[q] /\ req'[q] = req[q] /\ out'[q] = out[q]
    /\ wire'[q] = wire[q] /\ nomad'[q] = nomad[q] /\ answer'[q] = answer[q]

\* PathInv speaks of the request's own entries only.
LEMMA PathFrameKeeps ==
    ASSUME NEW q \in Requests, PathInv(q), PathFrame(q)
    PROVE  PathInv(q)'
<1>1. CallInv(q)'
  BY CallFrame DEF PathInv, PathFrame
<1> QED
  BY <1>1 DEF PathInv, PathFrame, isAdmissionActionable, Guarded, Validation

\* Whatever a request's goroutine, its client and Nomad do about it, the
\* other requests stay as they are.
LEMMA OthersUntouched ==
    ASSUME TypeOK, NEW r \in Requests, NEW q \in Requests, q # r, RequestStep(r)
    PROVE  PathFrame(q)
<1> USE DEF TypeOK, HandlerTypeOK, ProxyTypeOK, PathFrame, GoTo, Finish, writeError, badGateway,
            handlerVars, callVars, requestVars, contextVars, nomadVars, answerVars
<1>1. ASSUME NEW x \in Incoming, Receive(r, x) PROVE PathFrame(q)
  BY <1>1 DEF Receive
<1>2. CASE resolveRequestContext(r)
  BY <1>2 DEF resolveRequestContext
<1>3. CASE TokenResolved(r)
  BY <1>3 DEF TokenResolved
<1>4. CASE TokenFails(r) \/ DecodeFails(r) \/ MutatorsRefuse(r) \/ ValidatorsRefuse(r)
           \/ EncodeFails(r) \/ SendFails(r) \/ RoundTripFails(r)
  BY <1>4 DEF TokenFails, DecodeFails, MutatorsRefuse, ValidatorsRefuse, EncodeFails,
              SendFails, RoundTripFails
<1>5. CASE PassThrough(r)
  BY <1>5 DEF PassThrough
<1>6. CASE Decoded(r)
  BY <1>6 DEF Decoded, AdmissionMutators
<1>7. CASE Admission(r)
  <2>1. HandlerTypeOK /\ HandlerStep(r) /\ UNCHANGED proxyVars
    BY <1>7 DEF Admission
  <2>2. /\ phase'[q] = phase[q] /\ payload'[q] = payload[q] /\ job'[q] = job[q]
        /\ at'[q] = at[q] /\ errs'[q] = errs[q]
        /\ mutation'[q] = mutation[q] /\ verdict'[q] = verdict[q]
    BY <2>1, StepFrame
  <2> QED
    BY <2>1, <2>2 DEF proxyVars
<1>8. CASE handleRegister(r) \/ handlePlan(r) \/ handleValidate(r)
  BY <1>8 DEF handleRegister, handlePlan, handleValidate, Rewrite
<1>9. CASE Send(r)
  BY <1>9 DEF Send
<1>10. CASE ReplyArrives(r)
  BY <1>10 DEF ReplyArrives
<1>11. CASE NomadReceives(r)
  BY <1>11 DEF NomadReceives
<1>12. ASSUME NEW resp \in NomadResponses(r), NomadReplies(r, resp) PROVE PathFrame(q)
  BY <1>12 DEF NomadReplies
<1>13. CASE Cancelled(r)
  BY <1>13 DEF Cancelled
<1> QED
  BY <1>1, <1>2, <1>3, <1>4, <1>5, <1>6, <1>7, <1>8, <1>9, <1>10, <1>11, <1>12, <1>13
  DEF RequestStep, GoroutineStep, NomadStep

\* The end of a request that is not on the wire, or ends with a 502, keeps
\* the invariant.
LEMMA EndKeepsPath ==
    ASSUME TypeOK, NEW r \in Requests, PathInv(r),
           NEW kind \in {"error500", "gateway502", "nomad"}, Finish(r, kind),
           kind = "error500" => wire[r] = "none",
           UNCHANGED <<handlerVars, ctx, requestVars, nomadVars>>
    PROVE  PathInv(r)'
<1>1. /\ phase' = phase /\ payload' = payload /\ job' = job /\ at' = at /\ errs' = errs
      /\ mutation' = mutation /\ verdict' = verdict /\ req' = req /\ out' = out
      /\ wire' = wire /\ nomad' = nomad
  BY DEF handlerVars, callVars, requestVars, nomadVars
<1>2. pc'[r] = "done" /\ answer'[r] \in {kind, "lost"}
  BY DEF Finish, TypeOK, ProxyTypeOK
<1>3. CallInv(r)'
  BY <1>1, CallFrame DEF PathInv
<1> QED
  BY <1>1, <1>2, <1>3
  DEF PathInv, isAdmissionActionable, Guarded, Validation

\* Every step about a request keeps the invariant of its path.
LEMMA PathStep ==
    ASSUME TypeOK, NEW r \in Requests, PathInv(r), RequestStep(r)
    PROVE  PathInv(r)'
<1> USE DEF GoTo, isAdmissionActionable, Guarded, Validation
<1>0. HandlerTypeOK /\ ProxyTypeOK /\ CallInv(r)
  BY DEF TypeOK, PathInv
<1>u. ASSUME UNCHANGED handlerVars
      PROVE  /\ phase' = phase /\ payload' = payload /\ job' = job /\ errs' = errs
             /\ CallInv(r)'
  BY <1>0, <1>u, CallFrame DEF handlerVars, callVars
<1>1. ASSUME NEW x \in Incoming, Receive(r, x) PROVE PathInv(r)'
  <2>1. /\ pc[r] = "idle" /\ pc'[r] = "arrived" /\ UNCHANGED handlerVars
        /\ UNCHANGED <<wire, nomad, answer, out>>
    BY <1>0, <1>1 DEF Receive, ProxyTypeOK, nomadVars, answerVars
  <2> QED
    BY <2>1, <1>u DEF PathInv
<1>2. CASE resolveRequestContext(r) \/ TokenResolved(r)
  <2>1. /\ pc[r] \in {"arrived", "resolving"} /\ pc'[r] \in {"resolving", "admitting"}
        /\ UNCHANGED handlerVars /\ UNCHANGED <<wire, nomad, answer, out, req>>
    BY <1>0, <1>2 DEF resolveRequestContext, TokenResolved, ProxyTypeOK,
                      requestVars, contextVars, nomadVars, answerVars
  <2> QED
    BY <2>1, <1>u DEF PathInv
<1>3. CASE TokenFails(r) \/ DecodeFails(r) \/ MutatorsRefuse(r) \/ ValidatorsRefuse(r)
           \/ EncodeFails(r)
  <2>1. Finish(r, "error500") /\ UNCHANGED <<handlerVars, ctx, requestVars, nomadVars>>
    BY <1>3 DEF TokenFails, DecodeFails, MutatorsRefuse, ValidatorsRefuse, EncodeFails,
                AdmissionJudged, writeError
  <2>2. pc[r] \in {"resolving", "admitting", "admission"}
    BY <1>3 DEF TokenFails, DecodeFails, MutatorsRefuse, ValidatorsRefuse, EncodeFails,
                AdmissionJudged
  <2>3. wire[r] = "none"
    BY <2>2 DEF PathInv
  <2> QED
    BY <2>1, <2>3, EndKeepsPath
<1>4. CASE PassThrough(r)
  <2>1. /\ pc[r] = "admitting" /\ pc'[r] = "ready" /\ ~isAdmissionActionable(r)
        /\ UNCHANGED handlerVars /\ UNCHANGED <<wire, nomad, answer, req>>
    BY <1>0, <1>4 DEF PassThrough, ProxyTypeOK, contextVars, nomadVars, answerVars
  <2>2. wire[r] = "none" /\ nomad[r] = NotSent /\ phase[r] = "idle" /\ answer[r] = "none"
    BY <2>1 DEF PathInv
  <2> QED
    BY <2>1, <2>2, <1>u DEF PathInv
<1>5. CASE Decoded(r)
  <2>1. /\ pc[r] = "admitting" /\ pc'[r] = "admission" /\ AdmissionMutators(r, req[r].body)
        /\ req[r].body \in JobOrNone
        /\ UNCHANGED <<wire, nomad, answer, req, out>>
    BY <1>0, <1>5 DEF Decoded, ProxyTypeOK, Bodies, requestVars, contextVars, nomadVars, answerVars
  <2>2. CallInv(r)'
    BY <1>0, <2>1, CallStarts
  <2>3. payload'[r] = req'[r].body
    BY <1>0, <2>1 DEF AdmissionMutators, HandlerTypeOK
  <2> QED
    BY <2>1, <2>2, <2>3 DEF PathInv
<1>6. CASE Admission(r)
  <2>1. /\ pc[r] = "admission" /\ HandlerStep(r)
        /\ UNCHANGED <<pc, wire, nomad, answer, req, out>>
    BY <1>6 DEF Admission, proxyVars, requestVars, contextVars, nomadVars, answerVars
  <2>2. CallInv(r)'
    BY <1>0, <2>1, CallStep
  <2>3. payload' = payload /\ phase[r] # "idle"
    BY <2>1 DEF HandlerStep, MutatorFails, MutatorReturns, MutatorsReturn, AdmissionValidators,
                CopyFails, ValidatorReturns, ValidatorsReturn, MutatorsDue, ValidatorsDue
  <2> QED
    BY <2>1, <2>2, <2>3 DEF PathInv
<1>7. CASE handleRegister(r) \/ handlePlan(r) \/ handleValidate(r)
  <2>1. /\ pc[r] = "admission" /\ phase[r] = "judged" /\ pc'[r] = "ready"
        /\ UNCHANGED handlerVars /\ UNCHANGED <<wire, nomad, answer, req>>
    BY <1>0, <1>7 DEF handleRegister, handlePlan, handleValidate, AdmissionJudged, Rewrite,
                      ProxyTypeOK, nomadVars, answerVars
  <2>0. req[r].line \in Line
    BY <1>0 DEF ProxyTypeOK
  <2>2. out'[r] = job[r] /\ (Guarded(r) => errs[r] = <<>>)
    BY <1>0, <1>7, <2>0, RoutesExclude DEF handleRegister, handlePlan, handleValidate, Rewrite, ProxyTypeOK,
                      ApplyAdmissionControllers
  <2>3. wire[r] = "none" /\ nomad[r] = NotSent /\ answer[r] = "none"
    BY <2>1 DEF PathInv
  <2> QED
    BY <2>1, <2>2, <2>3, <1>u DEF PathInv
<1>8. CASE Send(r)
  <2>1. /\ pc[r] = "ready" /\ pc'[r] = "roundtrip" /\ wire'[r] = "request"
        /\ UNCHANGED handlerVars /\ UNCHANGED <<nomad, answer, req, out>>
    BY <1>0, <1>8 DEF Send, ProxyTypeOK, requestVars, contextVars, answerVars
  <2>2. wire[r] = "none" /\ nomad[r] = NotSent /\ answer[r] = "none"
    BY <2>1 DEF PathInv
  <2> QED
    BY <2>1, <2>2, <1>u DEF PathInv
<1>9. CASE SendFails(r) \/ RoundTripFails(r)
  BY <1>9, EndKeepsPath DEF SendFails, RoundTripFails, badGateway
<1>10. CASE ReplyArrives(r)
  <2>1. \E kind \in {"gateway502", "nomad"} : Finish(r, kind)
    BY <1>10 DEF ReplyArrives, badGateway
  <2>2. UNCHANGED <<handlerVars, ctx, requestVars, nomadVars>>
    BY <1>10 DEF ReplyArrives
  <2> QED
    BY <2>1, <2>2, EndKeepsPath
<1>11. CASE NomadReceives(r)
  <2>1. /\ wire[r] = "request" /\ wire'[r] = "processing" /\ nomad'[r] = out[r]
        /\ UNCHANGED handlerVars /\ UNCHANGED <<pc, answer, req, out>>
    BY <1>0, <1>11 DEF NomadReceives, ProxyTypeOK, requestVars, answerVars
  <2> QED
    BY <2>1, <1>u DEF PathInv
<1>12. ASSUME NEW resp \in NomadResponses(r), NomadReplies(r, resp) PROVE PathInv(r)'
  <2>1. /\ wire[r] = "processing" /\ wire'[r] = "reply"
        /\ UNCHANGED handlerVars /\ UNCHANGED <<pc, nomad, answer, req, out>>
    BY <1>0, <1>12 DEF NomadReplies, ProxyTypeOK, requestVars, answerVars
  <2> QED
    BY <2>1, <1>u DEF PathInv
<1>13. CASE Cancelled(r)
  <2>1. UNCHANGED handlerVars /\ UNCHANGED <<pc, wire, nomad, answer, req, out>>
    BY <1>13 DEF Cancelled, requestVars, nomadVars, answerVars
  <2> QED
    BY <2>1, <1>u DEF PathInv
<1> QED
  BY <1>1, <1>2, <1>3, <1>4, <1>5, <1>6, <1>7, <1>8, <1>9, <1>10, <1>11, <1>12, <1>13
  DEF RequestStep, GoroutineStep, NomadStep

\* In every reachable state every request satisfies the invariant of its path.
THEOREM ProxyInvariant == Spec => [](TypeOK /\ ProxyInv)
<1>1. Init => ProxyInv
  <2> SUFFICES ASSUME Init, NEW r \in Requests PROVE PathInv(r)
    BY DEF ProxyInv
  <2>1. /\ \A m \in Mutators : mutation[r][m].outcome = "none"
        /\ \A v \in Validators : verdict[r][v].vote = "none"
        /\ phase[r] = "idle" /\ at[r] = 1 /\ job[r] = NoJob
    BY DEF Init, HandlerInit, NotMutated, NotJudged
  <2>2. CallInv(r)
    BY <2>1 DEF CallInv, ChainOf, MutatorsSoFar, ValidatorsSoFar
  <2> QED
    BY <2>1, <2>2 DEF Init, ProxyInit, PathInv
<1>2. TypeOK /\ ProxyInv /\ [Next]_vars => ProxyInv'
  <2> SUFFICES ASSUME TypeOK, ProxyInv, [Next]_vars, NEW q \in Requests PROVE PathInv(q)'
    BY DEF ProxyInv
  <2>0. PathInv(q)
    BY DEF ProxyInv
  <2>1. ASSUME NEW r \in Requests, RequestStep(r) PROVE PathInv(q)'
    <3>1. CASE q = r
      BY <2>0, <2>1, <3>1, PathStep
    <3>2. CASE q # r
      BY <2>0, <2>1, <3>2, OthersUntouched, PathFrameKeeps
    <3> QED
      BY <3>1, <3>2
  <2>2. CASE UNCHANGED vars
    <3>1. PathFrame(q)
      BY <2>2 DEF vars, handlerVars, callVars, proxyVars, requestVars, contextVars,
                  nomadVars, answerVars, PathFrame
    <3> QED
      BY <2>0, <3>1, PathFrameKeeps
  <2> QED
    BY <2>1, <2>2 DEF Next, Quiet
<1> QED
  BY <1>1, <1>2, TypeCorrect, PTL DEF Spec

\* What Nomad receives to register or to plan, for a job whose ID has no slash,
\* is the client's job as the whole chain rendered it, and every validator has
\* accepted exactly that.
THEOREM ApprovedJobsOnly == Spec => []OnlyApprovedJobsReachNomad
<1>1. TypeOK /\ ProxyInv => OnlyApprovedJobsReachNomad
  <2> SUFFICES ASSUME TypeOK, ProxyInv, NEW r \in Requests,
                      AsksForJob(req[r].line, PlainIDs), nomad[r] # NotSent
               PROVE  Admitted(r)
    BY DEF OnlyApprovedJobsReachNomad
  <2>0. Guarded(r)
    BY PlainIDsAreGuarded DEF Guarded
  <2>1. PathInv(r) /\ CallInv(r)
    BY DEF ProxyInv, PathInv
  <2>2. wire[r] \in {"processing", "reply"} /\ nomad[r] = out[r]
    BY <2>1 DEF PathInv
  <2>3. /\ phase[r] = "judged" /\ out[r] = job[r] /\ errs[r] = <<>>
        /\ payload[r] = req[r].body
    BY <2>0, <2>1, <2>2 DEF PathInv, isAdmissionActionable
  <2>4. job[r] = Rendered(r) /\ job[r] \in Jobs
    BY <2>1, <2>3 DEF CallInv, MutatorsSoFar
  <2>5. UnanimouslyAccepted(r, job[r])
    BY <2>1, <2>3 DEF CallInv, ValidatorsSoFar, UnanimouslyAccepted
  <2> QED
    BY <2>2, <2>3, <2>4, <2>5 DEF Admitted
<1> QED
  BY <1>1, ProxyInvariant, PTL

\* NACP's own 500 is definite: Nomad has not seen the request and never will.
THEOREM RefusalsAreDefinite == Spec => []ErrorMeansNeverSent
<1>1. ProxyInv => ErrorMeansNeverSent
  BY DEF ProxyInv, PathInv, ErrorMeansNeverSent
<1> QED
  BY <1>1, ProxyInvariant, PTL

\* A validation reaches Nomad as rendered, after every validator has spoken.
THEOREM ValidationIsRendered == Spec => []ValidationSeesTheRenderedJob
<1>1. TypeOK /\ ProxyInv => ValidationSeesTheRenderedJob
  <2> SUFFICES ASSUME TypeOK, ProxyInv, NEW r \in Requests, Validation(r), nomad[r] # NotSent
               PROVE  /\ nomad[r] = Rendered(r) /\ nomad[r] \in Jobs
                      /\ \A v \in Validators : verdict[r][v].vote # "none"
    BY DEF ValidationSeesTheRenderedJob
  <2>1. PathInv(r) /\ CallInv(r)
    BY DEF ProxyInv, PathInv
  <2>2. wire[r] \in {"processing", "reply"} /\ nomad[r] = out[r]
    BY <2>1 DEF PathInv
  <2>3. phase[r] = "judged" /\ out[r] = job[r]
    BY <2>1, <2>2 DEF PathInv, isAdmissionActionable
  <2> QED
    BY <2>1, <2>2, <2>3 DEF CallInv, MutatorsSoFar, ValidatorsSoFar
<1> QED
  BY <1>1, ProxyInvariant, PTL
=============================================================================
