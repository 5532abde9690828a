----------------------------- MODULE JobHandler -----------------------------
(***************************************************************************)
(* The admission pipeline of pkg/admissionctrl/controller.go: one          *)
(* JobHandler, shared by every request goroutine, that runs the configured *)
(* mutators one after the other and then shows the final job to every      *)
(* validator.  The handler itself is immutable after NewJobHandler; what   *)
(* calls in flight share is its metrics.  A call belongs to one request    *)
(* and its state is a function of the request.                             *)
(*                                                                         *)
(* A policy (an Open Policy Agent rule, a bundle decision, a webhook, an   *)
(* image signature check) is an environment: it may answer anything its    *)
(* Go interface allows.  Job contents are the members of Jobs.             *)
(***************************************************************************)
EXTENDS Naturals, Sequences, FiniteSets

CONSTANTS
    Requests,       \* the requests whose goroutines call the handler
    Jobs,           \* contents an *api.Job may have
    NoJob,          \* the nil *api.Job
    NumMutators,    \* length of JobHandler.mutators
    NumValidators,  \* length of JobHandler.validators
    MaxWarnings     \* bound: warnings one controller returns in one call

ASSUME HandlerAssumption ==
    /\ NoJob \notin Jobs
    /\ NumMutators \in Nat
    /\ NumValidators \in Nat
    /\ MaxWarnings \in Nat

Mutators   == 1 .. NumMutators
Validators == 1 .. NumValidators
JobOrNone  == Jobs \cup {NoJob}

\* An error or a warning, reduced to who raised it: the at-th mutator or
\* validator, the handler itself, or Nomad.
Notice == [by : {"mutator", "validator", "handler", "nomad"}, at : Nat]

Repeated(n, notice) == [k \in 1 .. n |-> notice]
Said(kind, i, n) == Repeated(n, [by |-> kind, at |-> i])

(***************************************************************************)
(* History of a controller's answer.  outcome and vote are "none" until    *)
(* the controller is called; "copyfailed" marks a validator that was never *)
(* called because the job could not be copied for it.                      *)
(***************************************************************************)
Mutations ==
    [given : JobOrNone, made : JobOrNone, said : 0 .. MaxWarnings, mutated : BOOLEAN,
     outcome : {"none", "ok", "error", "nil"}]
Verdicts ==
    [saw : JobOrNone, said : 0 .. MaxWarnings,
     vote : {"none", "accepts", "objects", "copyfailed"}]

NotMutated ==
    [given |-> NoJob, made |-> NoJob, said |-> 0, mutated |-> FALSE, outcome |-> "none"]
NotJudged  == [saw |-> NoJob, said |-> 0, vote |-> "none"]

VARIABLES
    phase,        \* phase[r]: how far the handler is with request r
    payload,      \* payload[r]: payload.Job as the caller passed it
    job,          \* job[r]: content of the object `job` points to
    at,           \* at[r]: index of the next controller of the running loop
    mutWarnings,  \* mutWarnings[r]: warnings of AdmissionMutators
    valWarnings,  \* valWarnings[r]: warnings of AdmissionValidators
    errs,         \* errs[r]: the error returned, flattened; <<>> is nil
    mutation,     \* history: mutation[r][i], what mutator i was given and made
    verdict,      \* history: verdict[r][i], what validator i saw and said
    metrics       \* the handler's five counters, by controller

callVars    == <<phase, payload, job, at, mutWarnings, valWarnings, errs>>
handlerVars == <<callVars, mutation, verdict, metrics>>

Phases == {"idle", "mutators", "mutated", "validators", "judged", "refused"}

Metrics ==
    [mutatorErrors : [Mutators -> Nat], mutatorMutations : [Mutators -> Nat],
     mutatorWarnings : [Mutators -> Nat],
     validatorErrors : [Validators -> Nat], validatorWarnings : [Validators -> Nat]]

HandlerTypeOK ==
    /\ phase \in [Requests -> Phases]
    /\ payload \in [Requests -> JobOrNone]
    /\ job \in [Requests -> JobOrNone]
    /\ at \in [Requests -> 1 .. NumMutators + NumValidators + 1]
    /\ mutWarnings \in [Requests -> Seq(Notice)]
    /\ valWarnings \in [Requests -> Seq(Notice)]
    /\ errs \in [Requests -> Seq(Notice)]
    /\ mutation \in [Requests -> [Mutators -> Mutations]]
    /\ verdict \in [Requests -> [Validators -> Verdicts]]
    /\ metrics \in Metrics

NewJobHandler ==
    metrics = [mutatorErrors |-> [m \in Mutators |-> 0],
               mutatorMutations |-> [m \in Mutators |-> 0],
               mutatorWarnings |-> [m \in Mutators |-> 0],
               validatorErrors |-> [v \in Validators |-> 0],
               validatorWarnings |-> [v \in Validators |-> 0]]

HandlerInit ==
    /\ phase = [r \in Requests |-> "idle"]
    /\ payload = [r \in Requests |-> NoJob]
    /\ job = [r \in Requests |-> NoJob]
    /\ at = [r \in Requests |-> 1]
    /\ mutWarnings = [r \in Requests |-> <<>>]
    /\ valWarnings = [r \in Requests |-> <<>>]
    /\ errs = [r \in Requests |-> <<>>]
    /\ mutation = [r \in Requests |-> [m \in Mutators |-> NotMutated]]
    /\ verdict = [r \in Requests |-> [v \in Validators |-> NotJudged]]
    /\ NewJobHandler

-----------------------------------------------------------------------------
(* AdmissionMutators *)

\* The call.  A payload without a job is an error before the loop.
AdmissionMutators(r, j) ==
    /\ phase[r] = "idle"
    /\ payload' = [payload EXCEPT ![r] = j]
    /\ job' = [job EXCEPT ![r] = j]
    /\ IF j = NoJob
       THEN /\ phase' = [phase EXCEPT ![r] = "refused"]
            /\ errs' = [errs EXCEPT ![r] = <<[by |-> "handler", at |-> 0]>>]
       ELSE /\ phase' = [phase EXCEPT ![r] = "mutators"]
            /\ UNCHANGED errs
    /\ UNCHANGED <<at, mutWarnings, valWarnings, mutation, verdict, metrics>>

\* Mutant: the loop runs once too often.
MutatorsDueOverrun(r) == phase[r] = "mutators"

MutatorsDue(r) == phase[r] = "mutators" /\ at[r] \in Mutators

\* The job and the warnings AdmissionMutators holds when a mutator fails:
\* it returns nil for both, whatever earlier mutators produced.
KeptOnMutatorError(r) == [job |-> NoJob, warnings |-> <<>>]

\* Mutant: the error of a mutator is not counted.
MutatorErrorUncounted(m) == metrics

MutatorErrorCounted(m) == [metrics EXCEPT !.mutatorErrors[m] = @ + 1]

\* Mutant: a failed mutator is skipped and the loop goes on.
MutatorSkipped(r) ==
    /\ MutatorsDue(r)
    /\ \E outcome \in {"error", "nil"} :
          mutation' = [mutation EXCEPT ![r][at[r]] =
              [given |-> job[r], made |-> NoJob, said |-> 0, mutated |-> FALSE,
               outcome |-> outcome]]
    /\ metrics' = MutatorErrorCounted(at[r])
    /\ at' = [at EXCEPT ![r] = @ + 1]
    /\ UNCHANGED <<phase, payload, job, mutWarnings, valWarnings, errs, verdict>>

\* A mutator returns an error, or no error and a nil job: the loop stops.
MutatorFails(r) ==
    /\ MutatorsDue(r)
    /\ \E outcome \in {"error", "nil"} :
          mutation' = [mutation EXCEPT ![r][at[r]] =
              [given |-> job[r], made |-> NoJob, said |-> 0, mutated |-> FALSE,
               outcome |-> outcome]]
    /\ phase' = [phase EXCEPT ![r] = "refused"]
    /\ job' = [job EXCEPT ![r] = KeptOnMutatorError(r).job]
    /\ mutWarnings' = [mutWarnings EXCEPT ![r] = KeptOnMutatorError(r).warnings]
    /\ errs' = [errs EXCEPT ![r] = <<[by |-> "mutator", at |-> at[r]]>>]
    /\ metrics' = MutatorErrorCounted(at[r])
    /\ UNCHANGED <<payload, at, valWarnings, verdict>>

\* A mutator returns job j and n warnings; `mutated` is its own claim.
MutatorReturns(r) ==
    /\ MutatorsDue(r)
    /\ \E j \in Jobs, mutated \in BOOLEAN, n \in 0 .. MaxWarnings :
          /\ mutation' = [mutation EXCEPT ![r][at[r]] =
                 [given |-> job[r], made |-> j, said |-> n, mutated |-> mutated,
                  outcome |-> "ok"]]
          /\ job' = [job EXCEPT ![r] = j]
          /\ mutWarnings' = [mutWarnings EXCEPT ![r] = @ \o Said("mutator", at[r], n)]
          /\ metrics' = [metrics EXCEPT
                 !.mutatorMutations[at[r]] = @ + (IF mutated THEN 1 ELSE 0),
                 !.mutatorWarnings[at[r]] = @ + n]
    /\ at' = [at EXCEPT ![r] = @ + 1]
    /\ UNCHANGED <<phase, payload, valWarnings, errs, verdict>>

MutatorsReturn(r) ==
    /\ phase[r] = "mutators" /\ at[r] = NumMutators + 1
    /\ phase' = [phase EXCEPT ![r] = "mutated"]
    /\ UNCHANGED <<payload, job, at, mutWarnings, valWarnings, errs,
                   mutation, verdict, metrics>>

-----------------------------------------------------------------------------
(* AdmissionValidators *)

\* Both callers (ApplyAdmissionControllers and the proxy's handleValidate)
\* pass the mutated job at once; it is never nil, so the nil guard at the
\* head of AdmissionValidators does not fire.
AdmissionValidators(r) ==
    /\ phase[r] = "mutated"
    /\ phase' = [phase EXCEPT ![r] = "validators"]
    /\ at' = [at EXCEPT ![r] = 1]
    /\ UNCHANGED <<payload, job, mutWarnings, valWarnings, errs,
                   mutation, verdict, metrics>>

ValidatorsDue(r) == phase[r] = "validators" /\ at[r] \in Validators

\* copyJob fails for the validator: an error of the handler, no metric.
CopyFails(r) ==
    /\ ValidatorsDue(r)
    /\ verdict' = [verdict EXCEPT ![r][at[r]] =
           [saw |-> NoJob, said |-> 0, vote |-> "copyfailed"]]
    /\ errs' = [errs EXCEPT ![r] = Append(@, [by |-> "handler", at |-> at[r]])]
    /\ at' = [at EXCEPT ![r] = @ + 1]
    /\ UNCHANGED <<phase, payload, job, mutWarnings, valWarnings, mutation, metrics>>

\* Mutant: the validator is handed the handler's own job object.
SharedWithValidator(r, left) == left

\* The content of payload.Job after a validator has run that leaves the job
\* object it was handed with content `left`: the object was a deep copy.
AfterValidator(r, left) == job[r]

\* Mutant: the warnings of an objecting validator are dropped.
WarningsOnSuccess(r, n, vote) ==
    valWarnings[r] \o (IF vote = "objects" THEN <<>> ELSE Said("validator", at[r], n))

\* validator v's warnings are appended whatever its vote.
WarningsAfter(r, n, vote) == valWarnings[r] \o Said("validator", at[r], n)

\* Mutant: `errs = err`, the last validator decides.
LastError(r, vote) ==
    IF vote = "objects" THEN <<[by |-> "validator", at |-> at[r]]>> ELSE <<>>

\* Mutant: only the first objection is kept.
FirstError(r, vote) ==
    IF vote = "objects" /\ errs[r] = <<>>
    THEN <<[by |-> "validator", at |-> at[r]]>> ELSE errs[r]

\* multierror.Append: an objection joins those before it.
ErrorsAfter(r, vote) ==
    IF vote = "objects" THEN Append(errs[r], [by |-> "validator", at |-> at[r]]) ELSE errs[r]

\* A validator looks at its own copy, may scribble on it, and answers with n
\* warnings and possibly an error; the loop goes on either way.
ValidatorReturns(r) ==
    /\ ValidatorsDue(r)
    /\ \E left \in Jobs, n \in 0 .. MaxWarnings, vote \in {"accepts", "objects"} :
          /\ verdict' = [verdict EXCEPT ![r][at[r]] =
                 [saw |-> job[r], said |-> n, vote |-> vote]]
          /\ job' = [job EXCEPT ![r] = AfterValidator(r, left)]
          /\ valWarnings' = [valWarnings EXCEPT ![r] = WarningsAfter(r, n, vote)]
          /\ errs' = [errs EXCEPT ![r] = ErrorsAfter(r, vote)]
          /\ metrics' = [metrics EXCEPT
                 !.validatorErrors[at[r]] = @ + (IF vote = "objects" THEN 1 ELSE 0),
                 !.validatorWarnings[at[r]] = @ + n]
    /\ at' = [at EXCEPT ![r] = @ + 1]
    /\ UNCHANGED <<phase, payload, mutWarnings, mutation>>

ValidatorsReturn(r) ==
    /\ phase[r] = "validators" /\ at[r] = NumValidators + 1
    /\ phase' = [phase EXCEPT ![r] = "judged"]
    /\ UNCHANGED <<payload, job, at, mutWarnings, valWarnings, errs,
                   mutation, verdict, metrics>>

\* What ApplyAdmissionControllers returns of a judged call: nil, nil, err
\* when a validator objected, else the job and all warnings, mutators first.
ApplyAdmissionControllers(r) ==
    IF errs[r] # <<>>
    THEN [out |-> NoJob, warnings |-> <<>>, err |-> errs[r]]
    ELSE [out |-> job[r], warnings |-> mutWarnings[r] \o valWarnings[r], err |-> <<>>]

-----------------------------------------------------------------------------
HandlerStep(r) ==
    \/ MutatorFails(r)
    \/ MutatorReturns(r)
    \/ MutatorsReturn(r)
    \/ AdmissionValidators(r)
    \/ CopyFails(r)
    \/ ValidatorReturns(r)
    \/ ValidatorsReturn(r)

Returned(r) == phase[r] \in {"judged", "refused"}

\* Every call has returned and no request is left.
HandlerIdle == (\A r \in Requests : Returned(r)) /\ UNCHANGED handlerVars

HandlerNext ==
    \/ \E r \in Requests, j \in JobOrNone : AdmissionMutators(r, j)
    \/ \E r \in Requests : HandlerStep(r)
    \/ HandlerIdle

HandlerSpec == HandlerInit /\ [][HandlerNext]_handlerVars

-----------------------------------------------------------------------------
(* Properties *)

\* What the controllers before position i (all of them for the last i) left
\* of the submitted job.
RenderedBefore(r, i) == IF i = 1 THEN payload[r] ELSE mutation[r][i - 1].made
Rendered(r) == RenderedBefore(r, NumMutators + 1)

ChainOf(r) ==
    \A i \in Mutators : mutation[r][i].outcome # "none" =>
        /\ mutation[r][i].given = RenderedBefore(r, i)
        /\ i > 1 => mutation[r][i - 1].outcome = "ok"

\* The mutators form a chain in configuration order: a mutator that was called
\* got exactly what its predecessor produced (the first one the submitted
\* job), its predecessor had succeeded, and nobody is called after a failure.
MutatorsChain == \A r \in Requests : ChainOf(r)

\* Every validator that answers has seen the job as the last mutator left it,
\* whatever an earlier validator wrote into the job it was handed
\* (the copyJob of AdmissionValidators).
ValidatorsSeeTheFinalJob ==
    \A r \in Requests, v \in Validators :
        verdict[r][v].vote \in {"accepts", "objects"} =>
            /\ verdict[r][v].saw = Rendered(r)
            /\ \A m \in Mutators : mutation[r][m].outcome = "ok"

\* A judged call is free of errors only if every validator was asked about
\* the job that is returned, and accepted it: an aborted loop, a failed copy or
\* an earlier objection is never forgotten.
NoErrorMeansUnanimous ==
    \A r \in Requests : phase[r] = "judged" /\ ApplyAdmissionControllers(r).err = <<>> =>
        \A v \in Validators :
            verdict[r][v].vote = "accepts" /\ verdict[r][v].saw = ApplyAdmissionControllers(r).out

\* The errors name every validator that objected or could not be asked, once
\* each and in configuration order.
NamesObjections(notices, verdicts) ==
    /\ {notices[k] : k \in DOMAIN notices} =
          {[by |-> "validator", at |-> v] :
              v \in {w \in Validators : verdicts[w].vote = "objects"}}
          \cup {[by |-> "handler", at |-> v] :
                  v \in {w \in Validators : verdicts[w].vote = "copyfailed"}}
    /\ \A i, k \in DOMAIN notices : i < k => notices[i].at < notices[k].at

\* The errors of a judged call are the objections, all of them: one failure
\* does not hide another (the multierror of AdmissionValidators).
EveryObjectionReported ==
    \A r \in Requests : phase[r] = "judged" => NamesObjections(errs[r], verdict[r])

\* The warnings name each controller of this kind as often as it gave a warning,
\* in the order the controllers ran.
NamesWarnings(notices, kind, answers) ==
    /\ \A k \in DOMAIN notices : notices[k].by = kind /\ notices[k].at \in DOMAIN answers
    /\ \A i, k \in DOMAIN notices : i < k => notices[i].at <= notices[k].at
    /\ \A c \in DOMAIN answers :
          Cardinality({k \in DOMAIN notices : notices[k].at = c}) = answers[c].said

\* An approved job comes back with every warning any controller gave on the
\* way; warnings of an objecting validator are not lost either (handleValidate
\* passes them on).
EveryWarningReturned ==
    \A r \in Requests : phase[r] = "judged" =>
        /\ NamesWarnings(mutWarnings[r], "mutator", mutation[r])
        /\ NamesWarnings(valWarnings[r], "validator", verdict[r])

\* The occasions on which each counter is to be raised.
MutatorErrors(m)     == {r \in Requests : mutation[r][m].outcome \in {"error", "nil"}}
MutatorMutations(m)  == {r \in Requests : mutation[r][m].mutated}
MutatorWarnings(m)   == {o \in Requests \X (1 .. MaxWarnings) : o[2] <= mutation[o[1]][m].said}
ValidatorErrors(v)   == {r \in Requests : verdict[r][v].vote = "objects"}
ValidatorWarnings(v) == {o \in Requests \X (1 .. MaxWarnings) : o[2] <= verdict[o[1]][v].said}

Counts(counter, occasions) == IsFiniteSet(occasions) /\ counter = Cardinality(occasions)

\* The counters of the shared handler are exactly the sums over all calls in
\* flight and returned: a call that fails half way has still counted what its
\* controllers did, and counted nothing twice.
MetricsCountCalls ==
    /\ \A m \in Mutators :
          /\ Counts(metrics.mutatorErrors[m], MutatorErrors(m))
          /\ Counts(metrics.mutatorMutations[m], MutatorMutations(m))
          /\ Counts(metrics.mutatorWarnings[m], MutatorWarnings(m))
    /\ \A v \in Validators :
          /\ Counts(metrics.validatorErrors[v], ValidatorErrors(v))
          /\ Counts(metrics.validatorWarnings[v], ValidatorWarnings(v))

-----------------------------------------------------------------------------
(* The inductive invariant behind NoErrorMeansUnanimous *)

\* The loop over the mutators: those before at[r] have succeeded and the job is
\* the last one's; those from at[r] on have not been called.
MutatorsSoFar(r) ==
    /\ phase[r] = "idle" => at[r] = 1 /\ job[r] = NoJob
    /\ phase[r] \in {"idle", "mutators"} =>
          \A m \in Mutators : m >= at[r] => mutation[r][m].outcome = "none"
    /\ phase[r] = "mutators" =>
          /\ at[r] <= NumMutators + 1
          /\ \A m \in Mutators : m < at[r] => mutation[r][m].outcome = "ok"
          /\ job[r] = RenderedBefore(r, at[r]) /\ job[r] \in Jobs
    /\ phase[r] \in {"mutated", "validators", "judged"} =>
          /\ \A m \in Mutators : mutation[r][m].outcome = "ok"
          /\ job[r] = Rendered(r) /\ job[r] \in Jobs

\* The loop over the validators: nobody is asked before the mutators are done,
\* everybody before at[r] has been asked about this job, and without an error
\* so far all of them have accepted.
ValidatorsSoFar(r) ==
    /\ phase[r] \in {"idle", "mutators", "mutated", "refused"} =>
          \A v \in Validators : verdict[r][v].vote = "none"
    /\ phase[r] = "validators" =>
          /\ at[r] <= NumValidators + 1
          /\ \A v \in Validators : verdict[r][v].vote = "none" <=> v >= at[r]
    /\ phase[r] = "judged" => \A v \in Validators : verdict[r][v].vote # "none"
    /\ \A v \in Validators :
          verdict[r][v].vote \in {"accepts", "objects"} => verdict[r][v].saw = job[r]
    /\ phase[r] = "refused" => errs[r] # <<>>
    /\ errs[r] = <<>> => \A v \in Validators : verdict[r][v].vote \in {"none", "accepts"}

CallInv(r) == ChainOf(r) /\ MutatorsSoFar(r) /\ ValidatorsSoFar(r)

HandlerInv == \A r \in Requests : CallInv(r)

\* The notices gathered so far name those who were asked so far; who was not
\* asked has said nothing.
NoticesInv(r) ==
    /\ \A m \in Mutators : mutation[r][m].outcome = "none" => mutation[r][m] = NotMutated
    /\ \A v \in Validators : verdict[r][v].vote = "none" => verdict[r][v] = NotJudged
    /\ NamesWarnings(valWarnings[r], "validator", verdict[r])
    /\ phase[r] # "refused" =>
          /\ NamesWarnings(mutWarnings[r], "mutator", mutation[r])
          /\ NamesObjections(errs[r], verdict[r])

\* What the calls report and what the counters say, at every step.
ReportInv == MetricsCountCalls /\ \A r \in Requests : NoticesInv(r)
=============================================================================
