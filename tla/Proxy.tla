-------------------------------- MODULE Proxy --------------------------------
(***************************************************************************)
(* The request path of cmd/nacp/nacp.go: NACP stands between the clients   *)
(* and Nomad.  The goroutine of a request resolves its ACL token, decodes  *)
(* the job, runs the JobHandler, rewrites the request, sends it to Nomad   *)
(* and rewrites the answer.  Around it move the client (which may go away) *)
(* the HTTP server's deadlines, the connection to Nomad and Nomad itself,  *)
(* which this module models only by what the proxy can observe of it.      *)
(***************************************************************************)
EXTENDS JobHandler, Responses

CONSTANTS
    Garbled,        \* a request body that does not decode, or exceeds 32 MiB
    NotSent,        \* Nomad has not received the request
    Segments,       \* what stands between two slashes of a path
    RequestLines,   \* method and path of the requests clients send
    JobIDs,         \* IDs of the clients' jobs, each split at its slashes
    ResolveToken,   \* JobHandler.ResolveToken(): a controller wants the token
    NomadBasePath   \* path of the configured Nomad address

\* r.Method and r.URL.Path.  A path is the sequence of its segments after the
\* server has decoded it: a slash that the client escaped divides segments
\* like any other.
Path    == Seq(Segments)
Methods == {"GET", "PUT", "POST", "DELETE"}
Line    == [method : Methods, path : Path]

ASSUME ProxyAssumption ==
    /\ Garbled \notin JobOrNone
    /\ NotSent \notin JobOrNone \cup {Garbled}
    /\ {"v1", "job", "jobs", "plan", "validate"} \subseteq Segments
    /\ RequestLines \subseteq Line
    /\ \A id \in JobIDs : id \in Path /\ id # <<>> /\ \A i \in DOMAIN id : id[i] # ""
    /\ ResolveToken \in BOOLEAN
    /\ NomadBasePath \in Path

Bodies   == JobOrNone \cup {Garbled}
Incoming == [line : RequestLines, token : BOOLEAN, body : Bodies]

NoLine   == [method |-> "GET", path |-> <<>>]

Payloads == [coding : {"plain", "gzip"}, json : BOOLEAN,
             warnings : Seq(Notice), errors : Seq(Notice)]
Response == [success : BOOLEAN, gzip : BOOLEAN, body : Payloads, length : Payloads]

NoPayload  == [coding |-> "plain", json |-> FALSE, warnings |-> <<>>, errors |-> <<>>]
NoResponse == [success |-> FALSE, gzip |-> FALSE, body |-> NoPayload, length |-> NoPayload]

VARIABLES
    pc,           \* pc[r]: where the goroutine of request r is
    req,          \* req[r]: the request as it arrived
    ctx,          \* ctx[r]: "live", or "cancelled" with the client out of reach
    tokenInfo,    \* tokenInfo[r]: RequestContext.TokenInfo, "none" or "resolved"
    ctxWarnings,  \* ctxWarnings[r]: context value ctxWarnings
    ctxError,     \* ctxError[r]: context value ctxValidationError
    out,          \* out[r]: body of the request that goes to Nomad
    wire,         \* wire[r]: the exchange with Nomad
    nomad,        \* nomad[r]: the body Nomad received, or NotSent
    reply,        \* reply[r]: Nomad's answer
    answer,       \* answer[r]: what the client was answered
    final         \* final[r]: Nomad's answer as the client gets it

contextVars == <<tokenInfo, ctxWarnings, ctxError>>
requestVars == <<req, contextVars, out>>
nomadVars   == <<wire, nomad, reply>>
answerVars  == <<answer, final>>
proxyVars   == <<pc, ctx, requestVars, nomadVars, answerVars>>
vars        == <<handlerVars, proxyVars>>

Places == {"idle", "arrived", "resolving", "admitting", "admission", "ready",
           "roundtrip", "done"}

ProxyTypeOK ==
    /\ pc \in [Requests -> Places]
    /\ req \in [Requests -> [line : Line, token : BOOLEAN, body : Bodies]]
    /\ ctx \in [Requests -> {"live", "cancelled"}]
    /\ tokenInfo \in [Requests -> {"none", "resolved"}]
    /\ ctxWarnings \in [Requests -> Seq(Notice)]
    /\ ctxError \in [Requests -> Seq(Notice)]
    /\ out \in [Requests -> Bodies]
    /\ wire \in [Requests -> {"none", "request", "processing", "reply"}]
    /\ nomad \in [Requests -> Bodies \cup {NotSent}]
    /\ reply \in [Requests -> Response]
    /\ answer \in [Requests -> {"none", "error500", "gateway502", "nomad", "lost"}]
    /\ final \in [Requests -> Response]

TypeOK == HandlerTypeOK /\ ProxyTypeOK

ProxyInit ==
    /\ pc = [r \in Requests |-> "idle"]
    /\ req = [r \in Requests |-> [line |-> NoLine, token |-> FALSE, body |-> NoJob]]
    /\ ctx = [r \in Requests |-> "live"]
    /\ tokenInfo = [r \in Requests |-> "none"]
    /\ ctxWarnings = [r \in Requests |-> <<>>]
    /\ ctxError = [r \in Requests |-> <<>>]
    /\ out = [r \in Requests |-> NoJob]
    /\ wire = [r \in Requests |-> "none"]
    /\ nomad = [r \in Requests |-> NotSent]
    /\ reply = [r \in Requests |-> NoResponse]
    /\ answer = [r \in Requests |-> "none"]
    /\ final = [r \in Requests |-> NoResponse]

Init == HandlerInit /\ ProxyInit

-----------------------------------------------------------------------------
(* Helpers *)

Writes(line) == line.method \in {"PUT", "POST"}

JobsPath     == <<"v1", "jobs">>
ValidatePath == <<"v1", "validate", "job">>
JobPath(id)  == <<"v1", "job">> \o id
PlanPath(id) == JobPath(id) \o <<"plan">>

\* ^/v1/job/[^/]+$ and ^/v1/job/[^/]+/plan$ : the job ID is one segment.
UnderJob(path)         == path[1] = "v1" /\ path[2] = "job" /\ path[3] # ""
jobPathRegex(path)     == Len(path) = 3 /\ UnderJob(path)
jobPlanPathRegex(path) == Len(path) = 4 /\ UnderJob(path) /\ path[4] = "plan"

isCreate(line) == Writes(line) /\ line.path = JobsPath

\* Mutant: only what the CLI sends is recognised.
isUpdateByPut(line) == line.method = "PUT" /\ jobPathRegex(line.path)

isUpdate(line)   == Writes(line) /\ jobPathRegex(line.path)
isRegister(line) == isCreate(line) \/ isUpdate(line)
isPlan(line)     == Writes(line) /\ jobPlanPathRegex(line.path)
isValidate(line) == Writes(line) /\ line.path = ValidatePath

Guarded(r)    == isRegister(req[r].line) \/ isPlan(req[r].line)
Validation(r) == isValidate(req[r].line)
isAdmissionActionable(r) == Guarded(r) \/ Validation(r)

\* The route modifyProxyResponse finds a request on.
Route(line) ==
    IF isRegister(line) THEN "register"
    ELSE IF isPlan(line) THEN "plan"
    ELSE IF isValidate(line) THEN "validate"
    ELSE "other"

\* resp.Request is the request as it went out: the reverse proxy has put the
\* path of the Nomad address before its own.
RouteOnTheWayBack(r) == Route([req[r].line EXCEPT !.path = NomadBasePath \o @])

\* The handler writes `kind` and returns; nobody reads what is written after
\* the client has gone or the write deadline has passed.
Finish(r, kind) ==
    /\ pc' = [pc EXCEPT ![r] = "done"]
    /\ answer' = [answer EXCEPT ![r] = IF ctx[r] = "live" THEN kind ELSE "lost"]

GoTo(r, place) == pc' = [pc EXCEPT ![r] = place]

\* Mutant: the return after writeError is missing.
WriteErrorGoesOn(r) ==
    /\ GoTo(r, "ready")
    /\ answer' = [answer EXCEPT ![r] = "error500"]
    /\ UNCHANGED final

writeError(r) == Finish(r, "error500") /\ UNCHANGED final
badGateway(r) == Finish(r, "gateway502") /\ UNCHANGED final

-----------------------------------------------------------------------------
(* The request *)

Receive(r, q) ==
    /\ pc[r] = "idle"
    /\ GoTo(r, "arrived")
    /\ req' = [req EXCEPT ![r] = q]
    /\ UNCHANGED <<handlerVars, ctx, contextVars, out, nomadVars, answerVars>>

\* A request without X-Nomad-Token is not looked up.
MustResolve(r) == isAdmissionActionable(r) /\ ResolveToken /\ req[r].token

resolveRequestContext(r) ==
    /\ pc[r] = "arrived"
    /\ GoTo(r, IF MustResolve(r) THEN "resolving" ELSE "admitting")
    /\ UNCHANGED <<handlerVars, ctx, requestVars, nomadVars, answerVars>>

\* Nomad's /v1/acl/token/self answers 200 with a token.
TokenResolved(r) ==
    /\ pc[r] = "resolving"
    /\ tokenInfo' = [tokenInfo EXCEPT ![r] = "resolved"]
    /\ GoTo(r, "admitting")
    /\ UNCHANGED <<handlerVars, ctx, req, ctxWarnings, ctxError, out, nomadVars, answerVars>>

\* Mutant: the failure is logged and the request goes on without a token.
TokenFailureIgnored(r) ==
    /\ pc[r] = "resolving"
    /\ GoTo(r, "admitting")
    /\ UNCHANGED <<handlerVars, ctx, requestVars, nomadVars, answerVars>>

\* It answers anything else, or not within tokenResolveTimeout.
TokenFails(r) ==
    /\ pc[r] = "resolving"
    /\ writeError(r)
    /\ UNCHANGED <<handlerVars, ctx, requestVars, nomadVars>>

PassThrough(r) ==
    /\ pc[r] = "admitting" /\ ~isAdmissionActionable(r)
    /\ out' = [out EXCEPT ![r] = req[r].body]
    /\ GoTo(r, "ready")
    /\ UNCHANGED <<handlerVars, ctx, req, contextVars, nomadVars, answerVars>>

DecodeFails(r) ==
    /\ pc[r] = "admitting" /\ isAdmissionActionable(r) /\ req[r].body = Garbled
    /\ writeError(r)
    /\ UNCHANGED <<handlerVars, ctx, requestVars, nomadVars>>

Decoded(r) ==
    /\ pc[r] = "admitting" /\ isAdmissionActionable(r) /\ req[r].body # Garbled
    /\ AdmissionMutators(r, req[r].body)
    /\ GoTo(r, "admission")
    /\ UNCHANGED <<ctx, requestVars, nomadVars, answerVars>>

Admission(r) ==
    /\ pc[r] = "admission"
    /\ HandlerStep(r)
    /\ UNCHANGED proxyVars

\* A mutator failed, or the payload had no job.
MutatorsRefuse(r) ==
    /\ pc[r] = "admission" /\ phase[r] = "refused"
    /\ writeError(r)
    /\ UNCHANGED <<handlerVars, ctx, requestVars, nomadVars>>

AdmissionJudged(r) == pc[r] = "admission" /\ phase[r] = "judged"

\* Register and plan: a validator objected.
ValidatorsRefuse(r) ==
    /\ AdmissionJudged(r) /\ Guarded(r)
    /\ ApplyAdmissionControllers(r).err # <<>>
    /\ writeError(r)
    /\ UNCHANGED <<handlerVars, ctx, requestVars, nomadVars>>

\* The admitted job cannot be marshalled.
EncodeFails(r) ==
    /\ AdmissionJudged(r)
    /\ writeError(r)
    /\ UNCHANGED <<handlerVars, ctx, requestVars, nomadVars>>

\* The request goes on with the job and with the warnings in its context.
Rewrite(r, j, warnings) ==
    /\ out' = [out EXCEPT ![r] = j]
    /\ ctxWarnings' = [ctxWarnings EXCEPT ![r] = warnings]
    /\ GoTo(r, "ready")
    /\ UNCHANGED <<handlerVars, ctx, req, tokenInfo, nomadVars, answerVars>>

handleRegister(r) ==
    /\ AdmissionJudged(r) /\ isRegister(req[r].line)
    /\ ApplyAdmissionControllers(r).err = <<>>
    /\ Rewrite(r, ApplyAdmissionControllers(r).out, ApplyAdmissionControllers(r).warnings)
    /\ UNCHANGED ctxError

handlePlan(r) ==
    /\ AdmissionJudged(r) /\ isPlan(req[r].line)
    /\ ApplyAdmissionControllers(r).err = <<>>
    /\ Rewrite(r, ApplyAdmissionControllers(r).out, ApplyAdmissionControllers(r).warnings)
    /\ UNCHANGED ctxError

\* Mutant: Nomad validates the job as the client submitted it.
ValidateSubmitted(r) ==
    /\ AdmissionJudged(r) /\ Validation(r)
    /\ Rewrite(r, payload[r], valWarnings[r] \o mutWarnings[r])
    /\ ctxError' = [ctxError EXCEPT ![r] = errs[r]]

\* Validation goes on to Nomad whatever the validators said; their errors and
\* the warnings (validators' first here) wait in the context for the answer.
handleValidate(r) ==
    /\ AdmissionJudged(r) /\ Validation(r)
    /\ Rewrite(r, job[r], valWarnings[r] \o mutWarnings[r])
    /\ ctxError' = [ctxError EXCEPT ![r] = errs[r]]

-----------------------------------------------------------------------------
(* The round trip to Nomad (httputil.ReverseProxy) *)

Send(r) ==
    /\ pc[r] = "ready" /\ ctx[r] = "live"
    /\ GoTo(r, "roundtrip")
    /\ wire' = [wire EXCEPT ![r] = "request"]
    /\ UNCHANGED <<handlerVars, ctx, requestVars, nomad, reply, answerVars>>

\* Nomad cannot be dialled, or the context was cancelled before.
SendFails(r) ==
    /\ pc[r] = "ready"
    /\ badGateway(r)
    /\ UNCHANGED <<handlerVars, ctx, requestVars, nomadVars>>

\* Nomad reads the request, even when the proxy has stopped waiting for it.
NomadReceives(r) ==
    /\ wire[r] = "request"
    /\ wire' = [wire EXCEPT ![r] = "processing"]
    /\ nomad' = [nomad EXCEPT ![r] = out[r]]
    /\ UNCHANGED <<handlerVars, pc, ctx, requestVars, reply, answerVars>>

\* Nomad, or what stands before it, answers.
NomadReplies(r, resp) ==
    /\ wire[r] = "processing"
    /\ wire' = [wire EXCEPT ![r] = "reply"]
    /\ reply' = [reply EXCEPT ![r] = resp]
    /\ UNCHANGED <<handlerVars, pc, ctx, requestVars, nomad, answerVars>>

\* The connection breaks or the context is cancelled while the proxy waits;
\* the request may be on its way, processed or answered already.
RoundTripFails(r) ==
    /\ pc[r] = "roundtrip"
    /\ badGateway(r)
    /\ UNCHANGED <<handlerVars, ctx, requestVars, nomadVars>>

\* What modifyProxyResponse makes of the answer Nomad gave to request r.
Modified(r) == modifyProxyResponse(RouteOnTheWayBack(r), reply[r], ctxWarnings[r], ctxError[r])

\* ModifyResponse runs on the answer; its error becomes a 502 although Nomad
\* has processed the request.
ReplyArrives(r) ==
    /\ pc[r] = "roundtrip" /\ wire[r] = "reply"
    /\ IF Modified(r).err
       THEN badGateway(r)
       ELSE Finish(r, "nomad") /\ final' = [final EXCEPT ![r] = Modified(r).resp]
    /\ UNCHANGED <<handlerVars, ctx, requestVars, nomadVars>>

\* Mutant: the outgoing request is detached from the client's context.
CancelledBeforeRoundTrip(r) ==
    /\ pc[r] \notin {"idle", "roundtrip", "done"} /\ ctx[r] = "live"
    /\ ctx' = [ctx EXCEPT ![r] = "cancelled"]
    /\ UNCHANGED <<handlerVars, pc, requestVars, nomadVars, answerVars>>

\* The client disconnects, or the server's deadlines (310 s) strike: over
\* HTTP/1 ReadTimeout ends the connection's background read, over HTTP/2
\* WriteTimeout resets the stream, and each of them cancels the context.
Cancelled(r) ==
    /\ pc[r] \notin {"idle", "done"} /\ ctx[r] = "live"
    /\ ctx' = [ctx EXCEPT ![r] = "cancelled"]
    /\ UNCHANGED <<handlerVars, pc, requestVars, nomadVars, answerVars>>

-----------------------------------------------------------------------------
(* Specification *)

\* The steps the request's goroutine takes by itself, policy calls and the
\* token lookup among them.
GoroutineStep(r) ==
    \/ resolveRequestContext(r)
    \/ TokenResolved(r)
    \/ TokenFails(r)
    \/ PassThrough(r)
    \/ DecodeFails(r)
    \/ Decoded(r)
    \/ Admission(r)
    \/ MutatorsRefuse(r)
    \/ ValidatorsRefuse(r)
    \/ EncodeFails(r)
    \/ handleRegister(r)
    \/ handlePlan(r)
    \/ handleValidate(r)
    \/ Send(r)
    \/ SendFails(r)
    \/ ReplyArrives(r)

\* What Nomad may answer: validation answers carry errors, others warnings
\* only; json FALSE is an answer whose body does not decode.
NomadResponses(r) ==
    {[success |-> ok, gzip |-> b.coding = "gzip", body |-> b, length |-> b] :
        ok \in BOOLEAN,
        b \in [coding : {"plain", "gzip"}, json : BOOLEAN,
               warnings : {<<>>, <<[by |-> "nomad", at |-> 0]>>},
               errors : IF Validation(r) THEN {<<>>, <<[by |-> "nomad", at |-> 0]>>}
                        ELSE {<<>>}]}

NomadStep(r) ==
    \/ NomadReceives(r)
    \/ \E resp \in NomadResponses(r) : NomadReplies(r, resp)

\* Every request has been answered; clients need not send any.
Quiet == (\A r \in Requests : pc[r] \in {"idle", "done"}) /\ UNCHANGED vars

RequestStep(r) ==
    \/ \E q \in Incoming : Receive(r, q)
    \/ GoroutineStep(r)
    \/ NomadStep(r)
    \/ RoundTripFails(r)
    \/ Cancelled(r)

Next == (\E r \in Requests : RequestStep(r)) \/ Quiet

Spec == Init /\ [][Next]_vars

\* The goroutine is scheduled; a webhook and the token endpoint are called with
\* a 30 s timeout and an embedded policy under the request's context, so that
\* their calls return; the server's deadlines strike at last, and a cancelled
\* context ends the round trip.  Nothing is assumed of Nomad.
Fairness ==
    \A r \in Requests :
        /\ WF_vars(GoroutineStep(r))
        /\ WF_vars(Cancelled(r))
        /\ WF_vars(RoundTripFails(r) /\ ctx[r] = "cancelled")

FairSpec == Spec /\ Fairness

-----------------------------------------------------------------------------
(* Properties *)

\* What the client asks of Nomad, whatever NACP takes it for: to register or
\* to plan a job, one of those with an ID in ids where the path names it.
\* Nomad takes for the ID all that follows v1/job, but for its own suffixes.
AsksForJob(line, ids) ==
    /\ Writes(line)
    /\ line.path \in {JobsPath} \cup {JobPath(id) : id \in ids} \cup {PlanPath(id) : id \in ids}

\* Job IDs without a slash.
PlainIDs == {id \in JobIDs : Len(id) = 1}

UnanimouslyAccepted(r, j) ==
    \A v \in Validators : verdict[r][v].vote = "accepts" /\ verdict[r][v].saw = j

\* What Nomad has is the client's job as the whole chain of mutators rendered
\* it, and every validator has accepted exactly that content: no validator was
\* left out, failed, or was shown (or made) another job.
Admitted(r) ==
    /\ nomad[r] = Rendered(r) /\ nomad[r] \in Jobs
    /\ payload[r] = req[r].body
    /\ UnanimouslyAccepted(r, nomad[r])

\* Whoever asks Nomad to register or to plan a job whose ID has no slash, with
\* either method and on any path for it, is taken for that by NACP, and Nomad
\* gets no other job than the admitted one.
OnlyApprovedJobsReachNomad ==
    \A r \in Requests :
        AsksForJob(req[r].line, PlainIDs) /\ nomad[r] # NotSent => Admitted(r)

\* README.md: "Admission runs for `PUT` and `POST` requests to" v1/jobs,
\* v1/job/<id> and v1/job/<id>/plan.  Nomad's job IDs may have a slash, and
\* CHANGELOG.md says of the patterns that "only matched a subset of legal Nomad
\* job IDs" that their requests "now go through the full admission pipeline".
EveryJobIDIsAdmitted ==
    \A r \in Requests :
        AsksForJob(req[r].line, JobIDs) /\ nomad[r] # NotSent => Admitted(r)

\* A validation that reaches Nomad carries the rendered job, and no validator
\* was left out although objections do not stop it.
ValidationSeesTheRenderedJob ==
    \A r \in Requests : Validation(r) /\ nomad[r] # NotSent =>
        /\ nomad[r] = Rendered(r) /\ nomad[r] \in Jobs
        /\ \A v \in Validators : verdict[r][v].vote # "none"

\* A client that reads NACP's own 500 knows that Nomad has not seen the
\* request and will not: it is never on the wire, not even later.
ErrorMeansNeverSent ==
    \A r \in Requests : answer[r] = "error500" => wire[r] = "none" /\ nomad[r] = NotSent

\* No controller judges a request whose token could not be resolved, and a
\* token is looked up for the admission routes only.
PoliciesKnowTheToken ==
    \A r \in Requests :
        /\ ResolveToken /\ req[r].token /\ phase[r] # "idle" => tokenInfo[r] = "resolved"
        /\ tokenInfo[r] = "resolved" => isAdmissionActionable(r)

PolicyWarnings(r) ==
    IF Validation(r) THEN valWarnings[r] \o mutWarnings[r] ELSE mutWarnings[r] \o valWarnings[r]

Succeeded(r) == answer[r] = "nomad" /\ reply[r].success

\* A successful answer tells the client every warning of every controller, as
\* often as it was given, after Nomad's own, whatever the route and the coding
\* of the answer.
SuccessCarriesAllWarnings ==
    \A r \in Requests : isAdmissionActionable(r) /\ Succeeded(r) =>
        /\ final[r].body.warnings = reply[r].body.warnings \o PolicyWarnings(r)
        /\ NamesWarnings(mutWarnings[r], "mutator", mutation[r])
        /\ NamesWarnings(valWarnings[r], "validator", verdict[r])

\* A successful validation answer that shows no errors means that every
\* validator accepted the rendered job, and one that was objected to names
\* every objection: the client of /v1/validate/job learns what a registration
\* would be refused for.
ValidationReportsObjections ==
    \A r \in Requests : Validation(r) /\ Succeeded(r) =>
        \/ UnanimouslyAccepted(r, Rendered(r))
        \/ final[r].body.errors # <<>> /\ final[r].body.errors = errs[r]

WellFramed(resp) ==
    /\ resp.length = resp.body
    /\ resp.gzip <=> resp.body.coding = "gzip"

\* The answer a client gets is framed as it says: the body is coded as
\* Content-Encoding tells and as long as Content-Length tells.
AnswersAreWellFramed == \A r \in Requests : answer[r] = "nomad" => WellFramed(final[r])

\* What NACP takes for another route is proxied as it is, without asking a
\* policy, and failures Nomad reports reach the client unchanged on every route.
OtherTrafficIsUntouched ==
    \A r \in Requests :
        /\ ~isAdmissionActionable(r) =>
              phase[r] = "idle" /\ nomad[r] \in {NotSent, req[r].body}
        /\ answer[r] = "nomad" /\ (~isAdmissionActionable(r) \/ ~reply[r].success) =>
              final[r] = reply[r]

\* Every request a client sends comes to an end, even when Nomad never answers.
EveryRequestEnds == \A r \in Requests : pc[r] = "arrived" ~> pc[r] = "done"

\* README.md: "for Nomad's validation endpoint they [validation errors] are
\* merged into the Nomad-compatible validation response".  Merged, they would
\* stand beside the errors Nomad has found itself.
ValidationErrorsAreMerged ==
    \A r \in Requests : Validation(r) /\ Succeeded(r) =>
        \A i \in DOMAIN reply[r].body.errors : \E k \in DOMAIN final[r].body.errors :
            final[r].body.errors[k] = reply[r].body.errors[i]

-----------------------------------------------------------------------------
(* The inductive invariant behind OnlyApprovedJobsReachNomad *)

\* What a request in place pc[r] has behind it.
PathInv(r) ==
    /\ CallInv(r)
    /\ pc[r] \in {"idle", "arrived", "resolving", "admitting"} => phase[r] = "idle"
    /\ phase[r] # "idle" => payload[r] = req[r].body
    /\ wire[r] # "none" => pc[r] \in {"roundtrip", "done"}
    /\ pc[r] = "roundtrip" => wire[r] # "none"
    /\ pc[r] \in {"ready", "roundtrip"} \/ wire[r] # "none" =>
          /\ isAdmissionActionable(r) => phase[r] = "judged" /\ out[r] = job[r]
          /\ Guarded(r) => errs[r] = <<>>
    /\ nomad[r] = IF wire[r] \in {"processing", "reply"} THEN out[r] ELSE NotSent
    /\ answer[r] # "none" => pc[r] = "done"
    /\ answer[r] = "error500" => wire[r] = "none"

ProxyInv == \A r \in Requests : PathInv(r)

\* What the context of a request holds and what became of Nomad's answer.
ContextInv(r) ==
    /\ pc[r] \in {"idle", "arrived"} => tokenInfo[r] = "none"
    /\ pc[r] = "resolving" \/ tokenInfo[r] = "resolved" => MustResolve(r)
    /\ pc[r] = "admitting" \/ phase[r] # "idle" =>
          (MustResolve(r) => tokenInfo[r] = "resolved")
    /\ phase[r] # "idle" => isAdmissionActionable(r)
    /\ ctxWarnings[r] # <<>> \/ ctxError[r] # <<>> =>
          isAdmissionActionable(r) /\ phase[r] = "judged"
    /\ pc[r] \in {"ready", "roundtrip"} \/ wire[r] # "none" =>
          /\ ~isAdmissionActionable(r) => out[r] = req[r].body
          /\ Validation(r) => ctxError[r] = errs[r]
          /\ isAdmissionActionable(r) => ctxWarnings[r] = PolicyWarnings(r)
    /\ pc[r] = "done" => answer[r] # "none"
    /\ wire[r] = "reply" => WellFramed(reply[r])
    /\ answer[r] = "nomad" =>
          wire[r] = "reply" /\ ~Modified(r).err /\ final[r] = Modified(r).resp

AnswerInv == \A r \in Requests : ContextInv(r)
=============================================================================
