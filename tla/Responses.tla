------------------------------ MODULE Responses ------------------------------
(***************************************************************************)
(* What the proxy of cmd/nacp/nacp.go does to Nomad's answer               *)
(* (httputil.ReverseProxy.ModifyResponse): the handlers for register, plan *)
(* and validate answers as functions of the answer and of what the         *)
(* admission step left in the request's context.                           *)
(*                                                                         *)
(* A response is                                                           *)
(*   success   StatusCode is 2xx                                           *)
(*   gzip      the header says Content-Encoding: gzip                      *)
(*   body      coding: how the bytes are coded; json: whether they decode  *)
(*             into the answer's type; warnings, errors: the notices of    *)
(*             Warnings and of ValidationErrors and Error                  *)
(*   length    the body Content-Length was computed for                    *)
(* Nomad's Warnings string is <<>> when empty and one notice otherwise.    *)
(***************************************************************************)
EXTENDS Sequences

\* What a handler leaves of a response: an error makes ReverseProxy drop the
\* response and answer 502 itself.
Unmodified(resp) == [err |-> FALSE, resp |-> resp]
Failed(resp)     == [err |-> TRUE, resp |-> resp]

\* Mutant: a failure Nomad reports is rewritten like a success.
AnyResponse(resp) == TRUE

isSuccessfulResponse(resp) == resp.success

\* gzip.NewReader on a body that is not gzip fails, and so does decoding
\* anything but the JSON of the answer.
Readable(resp) == resp.body.json /\ (resp.gzip <=> resp.body.coding = "gzip")

\* Mutant: a gzip answer is replaced by a plain one.
CodingPlain(resp) == "plain"

\* rewriteResponseGzip when the answer came compressed, rewriteResponse else.
CodingOf(resp) == IF resp.gzip THEN "gzip" ELSE "plain"

\* Mutant: Content-Length is left as Nomad set it.
LengthKept(resp, body) == resp.length

LengthOf(resp, body) == body

rewriteResponse(resp, warnings, errors) ==
    LET body == [coding |-> CodingOf(resp), json |-> TRUE,
                 warnings |-> warnings, errors |-> errors]
    IN  [resp EXCEPT !.body = body, !.length = LengthOf(resp, body)]

\* Mutant: Nomad's own warning is replaced.
WarningsReplaced(upstream, warnings) == warnings

\* Nomad's own warning first, then the controllers'.
buildFullWarningMsg(upstream, warnings) == upstream \o warnings

\* handRegisterResponse and handleJobPlanResponse: without warnings of our own
\* and on failures Nomad's answer passes untouched.
WithWarnings(resp, warnings) ==
    IF warnings = <<>> \/ ~isSuccessfulResponse(resp) THEN Unmodified(resp)
    ELSE IF ~Readable(resp) THEN Failed(resp)
    ELSE Unmodified(rewriteResponse(resp,
             buildFullWarningMsg(resp.body.warnings, warnings), resp.body.errors))

handRegisterResponse(resp, warnings)  == WithWarnings(resp, warnings)
handleJobPlanResponse(resp, warnings) == WithWarnings(resp, warnings)

\* The validators' errors replace the errors Nomad found itself.
ValidationErrors(upstream, errors) == IF errors # <<>> THEN errors ELSE upstream

handleJobValdidateResponse(resp, warnings, errors) ==
    IF (errors = <<>> /\ warnings = <<>>) \/ ~isSuccessfulResponse(resp) THEN Unmodified(resp)
    ELSE IF ~Readable(resp) THEN Failed(resp)
    ELSE Unmodified(rewriteResponse(resp,
             IF warnings # <<>> THEN buildFullWarningMsg(resp.body.warnings, warnings)
             ELSE resp.body.warnings,
             ValidationErrors(resp.body.errors, errors)))

\* Mutant: validation answers are not handled.
WithoutValidate(route, resp, warnings, errors) ==
    CASE route = "register" -> handRegisterResponse(resp, warnings)
      [] route = "plan"     -> handleJobPlanResponse(resp, warnings)
      [] OTHER              -> Unmodified(resp)

\* route is what isRegister, isPlan and isValidate make of resp.Request.
modifyProxyResponse(route, resp, warnings, errors) ==
    CASE route = "register" -> handRegisterResponse(resp, warnings)
      [] route = "plan"     -> handleJobPlanResponse(resp, warnings)
      [] route = "validate" -> handleJobValdidateResponse(resp, warnings, errors)
      [] OTHER              -> Unmodified(resp)
=============================================================================
