# NACP in TLA+

NACP (`cmd/nacp`) is a proxy in front of the Nomad HTTP API. It decodes the
jobs that clients register, plan or validate, lets the configured *mutators*
rewrite them, shows the result to the configured *validators*, and sends what
was approved on to Nomad. Policy warnings, and for `/v1/validate/job` policy
errors too, are merged into Nomad's answer on the way back.

This directory holds a specification of that program: modules translated from
the Go source, instances of them that TLC explores, and theorems that TLAPS
checks for every value of the constants. Line numbers refer to the sources this
directory stands beside.

1. [The system](#1-the-system): components, state, operations, hazards
2. [Modules and how they correspond to the code](#2-modules-and-code)
3. [Runs: what TLC checks](#3-runs)
4. [Theorems: what TLAPS proves](#4-theorems)
5. [Disagreements between documents and code](#5-disagreements)
6. [What is not modelled](#6-what-is-not-modelled)
7. [Plan](#7-plan)

## 1. The system

| component | source | state it keeps | operations |
|---|---|---|---|
| Admission pipeline | `pkg/admissionctrl/controller.go` | the lists of controllers (fixed after `NewJobHandler`), five counters shared by all calls; per call: the job, the warnings, the multierror | `ApplyAdmissionControllers`, `AdmissionMutators`, `AdmissionValidators`, `ResolveToken` |
| Proxy request path | `cmd/nacp/nacp.go` 80-235, 406-561 | per request: where its goroutine is, the context values `ctxWarnings`, `ctxValidationError`, the request context, the outgoing body | `newProxyHandler`, `resolveRequestContext`, `applyAdmission`, `handleRegister`, `handlePlan`, `handleValidate` |
| Response rewriting | `cmd/nacp/nacp.go` 168-185, 233-405 | none: a function of Nomad's answer and the request's context | `modifyProxyResponse` and its three handlers, gzip and `Content-Length` |
| Process lifecycle | `cmd/nacp/nacp.go` 576-670, 922-976, `pkg/otel/otel.go` | telemetry providers, the OPA SDK, the server and its goroutine, the channel `srvErr`, the signal context | `run`, `SetupOTelSDK`, `setupOpaSDK`, `main` |
| Server | `cmd/nacp/nacp.go` 576-670, 735-744, with the handlers above | what of one process its requests share: the deadline of the drain, the OPA SDK, the listener, the end | reading a request starts a handler, its return frees the connection, the exit ends it anywhere |
| Policy adapters | `pkg/admissionctrl/{mutator,validator,opa,remoteutil}` | a prepared query or a client; none that changes | `Mutate` or `Validate` of each configured type |
| Image verifier | `pkg/admissionctrl/notation`, `opa/opa.go` 33-65 | trust policy, store and limit of attempts, read at start | `VerifyImage`, the builtin `notation_verify_image` |
| Configuration and wiring | `pkg/config`, `cmd/nacp/nacp.go` 672-920 | the `Config` of the process | defaults, `Validate`, `createMutators`, `createValidators`, `buildServer` |
| Logging factory | `pkg/logutil` | the handlers built at start | `NewLoggerFactoryFromConfig` |
| Metric wrappers, warning formatter | `pkg/o11y`, `pkg/admissionctrl/helper` | none of their own | generated or formatting only |

How they interact. `net/http` runs one goroutine per request. It calls, one after
the other, Nomad's token endpoint (when a controller wants the token), the
`JobHandler`, whose controllers call webhooks, an embedded or a bundled OPA, or
a registry, and at last the reverse proxy, which exchanges one request with Nomad
and calls `modifyProxyResponse` on the answer. Between the request and the answer
the two halves of a handler communicate through values of the request's context.
Requests share the `JobHandler`, of which only the counters change, and the OPA
SDK, which `run` stops when it returns.

What is hard here, and the properties that face it:

* *A job is an object behind a pointer.* A mutator returns a new or the old one;
  a validator could change the one it is shown. `copyJob` gives each validator
  its own (controller.go:203). What Nomad receives must be what everybody
  accepted: `MutatorsChain`, `ValidatorsSeeTheFinalJob`, `NoErrorMeansUnanimous`,
  `OnlyApprovedJobsReachNomad`, `ValidationSeesTheRenderedJob`, `ImplementsGate`.
* *Loops that stop half way, or that do not stop.* A mutator's failure ends its
  loop, a validator's does not: `EveryObjectionReported`, `EveryWarningReturned`,
  `MetricsCountCalls`.
* *Who is a registration?* NACP decides it with a method and a pattern on the
  decoded path (nacp.go:60-61, 541-561), Nomad with its own routes:
  `OnlyApprovedJobsReachNomad` for job IDs without a slash, `EveryJobIDIsAdmitted`
  for all.
* *Errors, cancellation and deadlines around a round trip.* The client may go
  away at any moment, Nomad may have processed what the proxy reports as failed:
  `ErrorMeansNeverSent`, `PoliciesKnowTheToken`, `EveryRequestEnds`.
* *An answer that is rebuilt.* Three handlers, two codings, warnings from three
  sources, and Nomad's own failures that must pass unchanged:
  `SuccessCarriesAllWarnings`, `ValidationReportsObjections`,
  `AnswersAreWellFramed`, `OtherTrafficIsUntouched`.
* *Start and stop.* Several things are started one after the other, each may fail,
  and signals come at any time: `NothingLeaks`, `CleanExitCutsNobody`,
  `CleanExitNeedsSignal`, `PoliciesOutliveRequests`, `SignalEndsRun`.
* *Requests in a process that ends.* Draining, deadlines and a kill meet a request
  at any step, and Nomad goes on without NACP: `CleanExitSettlesRequests`,
  `RunningRequestsAreCounted`, `NoRequestHangs`, `CallsHaveTheirPolicies`.
* *Seven adapters that read untyped answers*, each in its own way, and two ways to
  look at an image: `PoliciesFailClosed`, `MalformedAnswersRefuse`,
  `MutatorsKeepTheContract`, `WarningsReachTheHandler`, `SilenceMeansVerified`,
  `ImageRuleRefuses`.
* *A configuration is checked in one place and used in another*, over nested blocks
  that may be absent or null: `OnlyWellFormedStarts`, `WellFormedIsNotRefused`,
  `AcceptedConfigBuilds`, `ServerIsTheConfigured`, `VerifiersTry`,
  `EnabledLogsAreOpen`.

`PROJECT.json` lists every hazard at its line.

## 2. Modules and code

```
 AdmissionGate <--refines-- ProxyGate      Responses           Adapters   Config
                                |              |
              JobHandler <--- Proxy -----------+    Lifecycle
                                |                       |
                                +------- Server --------+

 proofs:  JobHandlerProofs <- ProxyProofs <- ProxyGateProofs
                                   ^
                          ProxyAnswerProofs <- ServerProofs -> LifecycleProofs
          AdaptersProofs      ConfigProofs
```

**JobHandler** is `controller.go`. A call belongs to a request `r`; its local
variables are functions of `r`. `phase[r]` says which loop it is in, `at[r]` the
index of the controller to come. One action is one controller's call and what
the loop does with the result: `MutatorReturns`, `MutatorFails`, `CopyFails`,
`ValidatorReturns`; `AdmissionMutators`, `MutatorsReturn`, `AdmissionValidators`,
`ValidatorsReturn` are entry and exit of the loops, and the operator
`ApplyAdmissionControllers` the three values the function returns. Controllers
are an environment: they answer anything their Go interface allows, the nil job
without an error included. `mutation` and `verdict` are history: they record what
a controller was given and said, so that properties can speak of it. An error or
a warning is reduced to who raised it.

**Responses** is `modifyProxyResponse` as operators over records. The body of an
answer keeps its coding, whether it decodes, and its notices; `Content-Length`
is represented by the body it was computed for.

**Proxy** extends both. A request arrives with a `line`, its method and its path
as `r.URL.Path` has it: a sequence of segments, in which a slash the client
escaped has been decoded and divides segments like any other. `isCreate`,
`isUpdate`, `isPlan` and `isValidate` decide on lines as the code's predicates do,
and `AsksForJob` says what Nomad takes for a registration or a plan, independently
of them. The path of the configured Nomad address is `NomadBasePath`, which stands
before the request's own when the answer comes back (`RouteOnTheWayBack`).

`pc[r]` follows the goroutine: `arrived`, `resolving`
(the token lookup), `admitting` (body decoded next), `admission` (inside the
JobHandler), `ready` (handed to the reverse proxy), `roundtrip`, `done`. The
actions have the names of the Go functions. A mutator that fails, a refusal and
a body that does not decode or exceeds 32 MiB end in `writeError`, NACP's own 500.
`wire[r]` and `nomad[r]` are the exchange as Nomad sees it: Nomad may receive a
request, or answer it, after the proxy stopped waiting. `Cancelled` is a client
that disconnects or a deadline of the server; the code finds out only at
the round trip, so the actions before it go on under a cancelled context, and the
policies may return an error or not.

**AdmissionGate** is what NACP promises, in five actions over `gate`, `offer`,
`accepted` and `passed`: what is on offer is rewritten only until the first
acceptance, the gate opens when all have accepted, what passes is what they
accepted, and what was refused never passes. **ProxyGate** maps the proxy's state
to it.

**Lifecycle** is `run` with its deferred calls, the goroutine that serves,
signals, and the connections as `net/http` moves them. `stage` is `run`'s place.
Every return is followed by the deferred calls in reverse order (`StopOpa`,
`StopOtel`, `StopNotify`, `Exit`). A signal before `stop()` cancels a context, a
second one after it kills the process (`Kill`); `stop()` is called when the
signal is taken and, on the other ways out, as the last deferred call.

**Server** is a process with its requests: Proxy extended, Lifecycle as the
instance `Process` with a connection for each request. `Arrive` is the request
read from the connection *and* the handler started, `Respond` the handler's
return *and* the connection's release. `Serve`, `Fail` and `GoAway` are the
proxy's own steps, possible while the process lives; `NomadGoesOn` are Nomad's,
possible for ever. The configuration is fixed to "OPA SDK, no telemetry", since
telemetry shares no state with a request, and a connection is never upgraded.

**Adapters** gives each configurable type the operator that computes what its
`Mutate` or `Validate` returns from the policy's answer, in the order the Go code
checks it. Its state machine makes one call, so that TLC enumerates all
answers. They do differ: embedded OPA takes a binding that is not a list for an
empty one, bundles refuse it; the bundle mutator skips null messages, the
bundle validator refuses them; the webhook validator drops warnings that come
beside errors, the OPA validators return both; the notation validator warns and
never refuses. `VerifyImage` asks the registry and tries the signatures of an
image in order, up to the limit, unless the trust policy exempts the image (level
`skip`, for which `notation.Verify` asks no registry); `notation_verify_image` turns each of its errors,
and an argument that is no string, into FALSE; `ImageRule` is the rule of
example/notation/notation.rego that uses it, so that the whole way from a bad
image to a refusal is one call of an adapter. A text is told from a null and from
anything else, and not from another text: `Texts` counts those of a list.
`Trusted` says what an image is worth without the verifier's order: exempt, or
with a good signature behind fewer bad ones than there are attempts.

**Config** is what comes before `run` listens. A file is a record as an operator
writes it; a pointer of the Go structs is a set with at most one member, absent
attributes keep the default and `null` empties the set. `stage` follows `main`:
decoding with its defaults (`buildConfig`, `CheckOuts`), `Validate`
(`ValidateSettings`, then one `ValidateBlock` per mutator and validator), the
logger factory, the SDK, and `buildServer`, which validates again and runs the two
construction loops with one `createMutator` or `createValidator` a round. What a
file on disk holds (rules, certificates, trust policies) is `readable` or not.
`WellFormed` says what a good configuration is by what each type needs, without
the code's order and its two lists of checks. A mutator block has no `notation` of
its own, as in config.go:43-50; a block may carry parts its type does not use, and
a type that does not use a part ignores it. `validateControllers` is modelled over
positions: `BlockAt(k)` is the k-th block, mutators first, and `Key(k)` what its
name must not share.

`MC*` modules add the lines and job IDs of Proxy's and Server's instances and the
files of Config's; the others extend their module. Operators marked *Mutant* in a comment
are wrong variants of the definition after them, kept to show that the
properties notice.

## 3. Runs

| run | instance | distinct states | question |
|---|---|---|---|
| handler_loops | 1 call, 2 mutators, 2 validators, 2 job contents, at most 1 warning a call | 7 480 | Are the two loops and the counters right, for every outcome of every controller? |
| proxy_path | 1 request with any of 7 lines, 1 mutator, 2 validators, token lookup, 2 job contents, fair | 212 569 | What reaches Nomad, what may the client conclude, does the proxy implement `AdmissionGate`, and does every request end when Nomad may be silent? |
| lifecycle_stops | 2 connections, fair | 22 176 | What does exit code 0 promise, what is left running, does a signal end the process? |
| server_drains | 1 request with any of 4 lines, 1 + 1 controllers, fair | 359 890 | What becomes of a request in a process that drains, fails or is killed at any step? |
| adapter_answers | lists of up to 2 entries, 2 job contents, images exempt or with up to 2 signatures, 1 attempt | 115 108 | Do adapters fail closed and keep the handler's contract? |
| config_builds | 3 227 files: every block in detail alone or beside another, parts a type does not use, up to 3 plain blocks, every listener, Nomad and logging setting | 51 174 | What starts, what is refused, and is the server that is built the configured one? |
| proxy_job_ids, proxy_merged, proxy_base_path, lifecycle_flush, config_notation, config_panics | small | | the six disagreements of section 5 |

Why the bounds are enough. Two job contents let a controller change a job or
leave it; a third adds nothing that a property compares. Two mutators make a
chain (one that gets another's result), two validators make one answer after
another's objection or tampering. Warnings are bounded by 1 a call, so that
their absence and their order across controllers show. Calls share only the
counters, to which each adds atomically: one call shows what it adds, and
`HandlerCounts` proves the sums for any number. The 7 lines of proxy_path are
both methods, every path NACP looks for, the path of an ID with a slash, a GET and
another operation on a job; server_drains has one of each kind of route.
The proxy is run with one request on purpose: an instance with two has 2.3
million states and checks nothing one request does not. The server is run with one
request because two need more than six million states; its requests meet in the
drain only, which lifecycle_stops explores with two connections, one idle or
hijacked while the other is in a request. The theorems of section 4 hold for any
number of requests. Two entries make a list with a good entry before or after a bad
one, and two signatures exceed one attempt. A configuration's blocks are checked
one by one, so every detail of one block is combined with one other, and names,
order and the token flag with up to three.

No run declares a symmetry set.

`CHECK_DEADLOCK` is never switched off: a finished call, process or start
stutters explicitly.

**Fairness.** `Proxy!FairSpec` assumes: the request's goroutine is scheduled, and
calls it makes return. Webhooks and the token lookup have timeouts of 30 s
(`remoteutil`, nacp.go:85-124); embedded policies run under the request's
context. The deadlines of the server (310 s, nacp.go:735-744) eventually strike
(`Cancelled`), and a cancelled context ends the round trip. Nothing is assumed
of Nomad, or of the network. `Lifecycle!FairSpec` assumes that `run` goes on: each call
it waits in has a deadline of its own (30 s for OPA's readiness, 30 s for the
drain, 10 s to stop OPA). Nothing is assumed of clients and connections.
`Server!FairServerSpec` assumes both, and that `net/http` notices a handler's
return (`Respond`); nothing of clients, signals or Nomad.

## 4. Theorems

For any sets of requests, connections and jobs, any number of controllers and
warnings, any answers of policies and any configuration files:

| theorem | module | says |
|---|---|---|
| `HandlerTypeCorrect`, `HandlerInvariant` | JobHandlerProofs | the types and the loop invariant `HandlerInv` |
| `HandlerIsUnanimous` | JobHandlerProofs | no error means that all validators accepted the job that is returned |
| `HandlerChains`, `HandlerShowsTheFinalJob` | JobHandlerProofs | `MutatorsChain`, `ValidatorsSeeTheFinalJob` |
| `HandlerReports` | JobHandlerProofs | the reports and counters at every step, `ReportInv` |
| `HandlerReportsObjections`, `HandlerReturnsWarnings` | JobHandlerProofs | `EveryObjectionReported`, `EveryWarningReturned` |
| `HandlerCounts` | JobHandlerProofs | `MetricsCountCalls`, for any number of calls in flight |
| `TypeCorrect`, `ProxyInvariant` | ProxyProofs | the types and the path invariant `ProxyInv` |
| `ApprovedJobsOnly` | ProxyProofs | `OnlyApprovedJobsReachNomad`: of job IDs without a slash |
| `ValidationIsRendered`, `RefusalsAreDefinite` | ProxyProofs | `ValidationSeesTheRenderedJob`, `ErrorMeansNeverSent` |
| `ProxyImplementsGate` | ProxyGateProofs | `Spec => Gate!Spec` under the mapping of ProxyGate, which shows the gate the requests NACP takes for registrations and plans |
| `PoliciesAreToldTheToken` | ProxyAnswerProofs | `PoliciesKnowTheToken` |
| `AnswersAreFramed`, `OthersAreUntouched` | ProxyAnswerProofs | `AnswersAreWellFramed`, `OtherTrafficIsUntouched` |
| `ObjectionsAreReported` | ProxyAnswerProofs | `ValidationReportsObjections`, for a Nomad address without a path |
| `ProxyRunsTheHandler` | ProxyAnswerProofs | `Spec => HandlerSpec`: the proxy calls the handler as it may be called |
| `WarningsAreCarried` | ProxyAnswerProofs | `SuccessCarriesAllWarnings`, for a Nomad address without a path |
| `LifecycleInvariant` | LifecycleProofs | the types and the invariant over `run`'s places, `LifecycleInv` |
| `CleanExits`, `SignalledExits` | LifecycleProofs | `CleanExitCutsNobody`, `CleanExitNeedsSignal` |
| `StartsAreStopped`, `PoliciesStay` | LifecycleProofs | `NothingLeaks`, `PoliciesOutliveRequests` |
| `ServerIsAProxy`, `ServerIsAProcess` | ServerProofs | `ServerSpec` implies `Proxy!Spec` and `Lifecycle!Spec` |
| `ServerPassesApprovedJobs` | ServerProofs | `OnlyApprovedJobsReachNomad` (job IDs without a slash) in a process that may end at any step |
| `ServerAnswers` | ServerProofs | framing, warnings and objections of the answers of such a process |
| `RunningIsCounted`, `CallsKeepTheirPolicies` | ServerProofs | `RunningRequestsAreCounted`, `CallsHaveTheirPolicies` |
| `CleanExitSettles` | ServerProofs | `CleanExitSettlesRequests` |
| `AdaptersFailClosed`, `AdaptersAreStrict` | AdaptersProofs | `PoliciesFailClosed`, `MalformedAnswersRefuse` |
| `MutatorsAreHonest`, `AdaptersKeepWarnings` | AdaptersProofs | `MutatorsKeepTheContract`, `WarningsReachTheHandler` |
| `SilenceIsVerified`, `ImageRuleIsExact` | AdaptersProofs | `SilenceMeansVerified`, `ImageRuleRefuses` |
| `ConfigInvariant`, `ConfigIsTypeCorrect` | ConfigProofs | the invariant over main's places, `ConfigInv`, and the types |
| `ChecksAreStrictEnough`, `ChecksAreNotTooStrict` | ConfigProofs | `OnlyWellFormedStarts`, `WellFormedIsNotRefused` |
| `ChecksAreEnough`, `ServerIsAsConfigured` | ConfigProofs | `AcceptedConfigBuilds`, `ServerIsTheConfigured` |
| `EveryVerifierTries`, `LogsAreNotDropped` | ConfigProofs | `VerifiersTry`, `EnabledLogsAreOpen` |

The assumptions are `HandlerAssumption` (the nil job is not a job, lengths are
natural numbers), `ProxyAssumption` (bodies that do not decode and "nothing
sent" differ from jobs; lines and job IDs are made of segments, and no segment of
an ID is empty), `AdapterAssumption` (the limit of
attempts is positive, which `VerifiersTry` shows of every built verifier) and
`ConfigAssumption` (a file holds a configuration of the HCL schema). TLC evaluates
them in every run of the modules that declare them.

*The argument.* `NoErrorMeansUnanimous` speaks of a call that has returned and is
not inductive: it says nothing of a loop half way. `CallInv(r)` therefore says
what holds at index `at[r]`: mutators before it have succeeded and `job[r]` is
what the last of them made (`MutatorsSoFar`); validators before it have been asked
about exactly `job[r]`, those from it on have not, and without an error so far all
asked have accepted (`ValidatorsSoFar`). `PathInv(r)` adds what a place `pc[r]`
has behind it: whatever is on the wire and guarded (taken for a registration or a plan) was
judged without an error, and the outgoing body is the judged job; Nomad's copy is the outgoing
body; NACP's own error excludes the wire. Both invariants are checked by TLC
(`HandlerInv`, `ProxyInv`) before they are proved. A request's part of the state
is changed by its own steps only (`StepFrame`, `OneRequestMoves`), so the proofs are about
one request. For the refinement each step of one request is either a stutter or
one gate action of that request: controllers' answers are `Render` or `Accept`,
the two rewrites (`handleRegister`, `handlePlan`) `Open`, `NomadReceives` is `Pass`, and an end without the wire
is `Refuse`. That the guarded requests are all there are, for IDs of one segment,
is a matter of paths: `PatternsMatchPlainIDs` compares the two patterns with
`JobPath` and `PlanPath` segment by segment, and `PlainIDsAreGuarded` gives
`ApprovedJobsOnly` from `ProxyInv`. `EveryJobIDIsAdmitted` has no such lemma; it is
false.

*Answers.* What the client receives depends on what the request's context was
given before the round trip, many steps earlier. `ContextInv(r)` keeps that: no
controller is asked before the token is resolved where it has to be; from `ready`
on, the error in the context of a validation is the error of its call, and
a request without admission has its own body and nothing in its context; what is on the wire back
is well framed, and what the client has is `Modified(r)` of it. From there
`AnswersAreFramed` and `OthersAreUntouched` are about that one operator, and
`ObjectionsAreReported` is contraposition: an answer without the objections was
rewritten without an error in the context, which `PathInv` turns into acceptance
by all.

*Reports and counters.* What a call reports is known at its end only, and what a
counter must show is a number of occasions spread over calls. `NoticesInv(q)`
says of a call half way that each notice so far names a controller that spoke,
in order, and as often as it spoke, and that who has not been asked is not named.
The properties state "as often" with cardinalities (`NamesWarnings`, `Counts`)
and not with sums, so that one more call adds one element to a finite set
(`ObjectionAppended`, `CallerCounted`, `WarningsCounted`): no induction over
operators is needed. For the client, `ProxyRunsTheHandler` brings `ReportInv`
into the proxy, and `ContextInv` has kept, from `ready` on, that the context's
warnings are those of the call; what `modifyProxyResponse` appends is therefore
what the controllers said.

*The process.* None of the lifecycle's properties is inductive: each speaks of the
exit. `DrainInv` relates the places of `run` to the shutdown (the server is
shut down after a signal only, the result is nil after a complete drain only, and
from the shutdown on no connection is opened), `StartedInv` to what is up
(connections exist only after the SDK is ready, what is not yet deferred is not
yet started, the providers are down when the deferred calls are behind).
`LifecycleInv` is both with the types.

*The composition.* A step of Server is, seen from each of its parts, a step of
that part or a stutter (`ServerIsAProxy`, `ServerIsAProcess`). All that is proved of
requests and of processes therefore holds in it; `SameProcess` identifies the
instance in the model with the one the proofs are about. What remains is
the relation between the two: `RunningRequestsAreCounted` is inductive with
`LifecycleInv`, since a connection becomes active where the handler starts
and is let go where it has returned. With `CleanExitCutsNobody` it follows that
at a clean exit no handler is under way, and with the proxy's invariant what the
client of each request was told.

*The adapters.* A call is one step, so `AdapterInv` says only that the inputs stay and
that the result is `Returned`. The work is in the lemmas `...Approves`, one per
type: an approval implies an answer without texts among its errors, with a patch
that applies and with its warnings passed on, for lists of any length
(`Shaped`; the bound `MaxEntries` does not enter). Images go the same way: `ImageRuleAnswers`
counts the refused tasks, `ImageRuleDecides` turns none into approval, and
`VerifiedIsTrusted` shows by a count of bad signatures that trying the first
`MaxSigAttempts` confirms the trusted images and no others.

*The configuration.* `Loaded` keeps that the configuration in use is the written
one with its defaults, `Phases` how often it has been validated at each place of
`main`, and `Checked` what the checks have established by then: the settings, and
of the first n blocks that they are valid and share no name. `BlocksAreExact` and
`ChecksAreExact` prove the checks equal to `WellFormed`: what all of them accept
is well formed and the reverse, defaults included (`NotationDefaults`). This gives
both directions, `OnlyWellFormedStarts` and `WellFormedIsNotRefused`. A valid
block is complete for its constructor (`ValidMutatorIsComplete`,
`ValidValidatorIsComplete`), hence `AcceptedConfigBuilds`; `BuiltFrom` says that
the controllers so far are the blocks so far, which at `built` is
`ServerIsTheConfigured`.

*Only model-checked:* liveness (`EveryRequestEnds`, `SignalEndsRun`,
`NoRequestHangs`), which is out of the prover's reach: TLAPS has no rules for
fairness and ENABLED. Every other property of a passing run is stated by a
theorem. The properties of the violated runs are false and have none;
`SuccessCarriesAllWarnings` and `ValidationReportsObjections` are proved for a
Nomad address without a path, which proxy_base_path shows to be needed for
the first.

## 5. Disagreements

* **A job ID with a slash bypasses admission** (`proxy_job_ids`). README.md:43-48
  says that admission runs for `PUT` and `POST` requests to `/v1/job/<id>` and its
  `/plan`, and CHANGELOG.md:74-75 that the patterns no longer match "a subset of
  legal Nomad job IDs" only. They allow one segment for the ID (`[^/]+`,
  nacp.go:60-61) and are matched on the decoded path, so `PUT /v1/job/a%2Fb`,
  which Nomad takes for the job `a/b`, matches nothing and is proxied as it is.
* **Validation errors replace Nomad's** (`proxy_merged`). README.md:50 says that
  validation errors "are merged into the Nomad-compatible validation response".
  `handleJobValdidateResponse` assigns `ValidationErrors` and `Error`
  (nacp.go:354), so errors Nomad's own validation found are lost when a validator
  objects.
* **A Nomad address with a path drops warnings** (`proxy_base_path`). The reverse
  proxy prefixes the outgoing path with that of the configured address, and
  `modifyProxyResponse` (nacp.go:172) tests this outgoing path against anchored
  patterns. Successful answers then lack the policy warnings README.md:50
  promises.
* **Failures of the telemetry shutdown are lost** (`lifecycle_flush`).
  CHANGELOG.md:132 says that the server "propagates shutdown failures". The
  deferred function joins the error into an `err` that `:=` declared inside the
  `if` (nacp.go:610-617), not into `run`'s result: the exit code is 0.

* **The notation block of an `opa` validator's rule is ignored**
  (`config_notation`). openwiki/policy-integrations.md:62 says that an `opa_rule`
  with a `notation` block registers `notation_verify_image`. `createValidator`
  passes the validator's own block (nacp.go:849), `createMutator` the rule's
  (nacp.go:809). Such a validator has its defaults set and its block checked, and
  does not build, as its rule calls an undefined function.
* **A configuration can make the start panic** (`config_panics`). CHANGELOG.md:89
  says that the configuration is checked "instead of failing later at request
  time or panicking". `logging.level` is not checked, and `Level.convert` panics
  on a level it does not know (logutil.go:41). Attributes set to `null` panic as well:
  the checks of LoadConfig (config.go:220-226) and the factory
  (logutil.go:104-115) follow nil pointers.

## 6. What is not modelled

* Wording, logging, spans, header formats, the client's address, and the
  contents of a job beyond identity.
* JSON, HCL and Rego evaluation, gzip, JSON Patch (a patch applies or does not;
  half of one is the library's business), the size limits of bodies (10 MiB of a
  webhook's answer, 32 MiB of a job) and signature checks themselves: outcomes
  only. Of the verifier, credentials and plain HTTP are left out.
* `webhook_mutator.go`, which `createMutator` never builds; the generated metric
  wrappers of `pkg/o11y` and the vendored warning formatter, which keep no state.
* `Leveler.Set`, which only tests call: the level never changes in the process.
* Nomad's reading of paths is external: `AsksForJob` knows its two ways to
  register a job and its plan. Its other operations on a job (revert, scale,
  dispatch and the like) are not among the requests README.md:43-48 names, and are
  other traffic here as in the code.
* The token lookup's address: it replaces the path of the configured address by
  `/v1/acl/token/self`, which matters only to a Nomad behind a path.
* In Server: telemetry, upgraded connections, and a configuration without the SDK;
  Lifecycle has them.
* A token revoked between its lookup and Nomad's use of it (nacp.go:204), and a
  bundle refreshed between two controllers of one request
  (opa_bundle_validator.go:40): the models allow both, no document promises
  anything about them, so no property is stated.
* Panics of a handler goroutine, which `net/http` recovers, and running out of
  memory.
* `net/http` beyond what `run` and the proxy use of it. As in Go, `Shutdown`
  neither waits for nor closes hijacked connections: a proxied upgrade
  (`alloc exec`) is dropped at exit, and `CleanExitCutsNobody` does not speak of it.

## 7. Plan

Done, in this order: JobHandler, Responses, Proxy, AdmissionGate and ProxyGate,
their proofs, Lifecycle, Adapters, Config, Server, the proofs about answers, the
process and the composition, then reports and counters, Adapters and Config.
Next:

1. **Adapters below JobHandler**: that what the adapters return is among what the
   environment of the pipeline may return, as a lemma over the result records.
2. **Config before Lifecycle**: that a start that ends in `built` is what
   `Lifecycle!BuildServer` assumes of `buildServer`.
3. **Steps towards liveness**: the action properties behind `EveryRequestEnds`
   and `SignalEndsRun` (no step leads back from `done` or from the drain).
