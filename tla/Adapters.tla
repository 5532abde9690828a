------------------------------- MODULE Adapters -------------------------------
(***************************************************************************)
(* The policy adapters under pkg/admissionctrl: what each configured kind  *)
(* of mutator and validator makes of the answer its policy gives, up to    *)
(* the values Mutate and Validate return to the JobHandler.                *)
(*                                                                         *)
(* An answer is JSON (a webhook) or a Rego value (embedded OPA, a bundle   *)
(* decision).  Its fields errors, warnings and patch may be absent (null   *)
(* counts as absent), a list, or anything else, and an entry of a list may *)
(* be a string, null, or anything else.  Images are looked at by the       *)
(* notation validator and, through the builtin notation_verify_image, by   *)
(* Rego rules of embedded OPA.                                             *)
(***************************************************************************)
EXTENDS Naturals, Sequences, SequencesExt

CONSTANTS
    Jobs,        \* contents an *api.Job may have
    NoJob,       \* the nil *api.Job
    MaxEntries,  \* bound: entries of a list, tasks of a job, signatures of an image
    MaxSigAttempts  \* max_sig_attempts of the image verifier

ASSUME AdapterAssumption ==
    NoJob \notin Jobs /\ MaxEntries \in Nat /\ MaxSigAttempts \in Nat \ {0}

Entries == {"text", "null", "other"}
Field(entries) ==
    {[kind |-> kind, entries |-> <<>>] : kind \in {"absent", "other"}}
        \cup [kind : {"list"}, entries : BoundedSeq(entries, MaxEntries)]

\* reach: "failed" is a transport error, a 30 s timeout or an evaluation
\* error; "empty" an undefined decision or an empty result set; the others are
\* answers of a webhook that DecodeJSONResponse rejects.  edited is the job
\* the patch's edits make of the one given; a "broken" one cannot be applied.
Answers ==
    [reach : {"answered"}, errors : Field(Entries), warnings : Field(Entries),
     patch : Field({"edit", "broken"}), edited : Jobs]
Unanswered(reach) ==
    LET absent == [kind |-> "absent", entries |-> <<>>]
    IN  [reach |-> reach, errors |-> absent, warnings |-> absent, patch |-> absent,
         edited |-> CHOOSE j \in Jobs : TRUE]
Failures == {"failed", "empty", "oversized", "status", "garbled"}

\* The image of a task: not given, not a string, no reference, in a registry
\* that fails, or found with these signatures, each good or bad.  The trust
\* policy exempts a skipped one (level "skip").
Images ==
    [reach : {"absent", "other", "unparsable"}, skipped : {FALSE}, signatures : {<<>>}]
        \cup [reach : {"unreachable"}, skipped : BOOLEAN, signatures : {<<>>}]
        \cup [reach : {"found"}, skipped : BOOLEAN, signatures : BoundedSeq(BOOLEAN, MaxEntries)]
Tasks == [docker : BOOLEAN, image : Images]

\* The strings of a list; told apart from nulls and other entries only, they
\* are counted.
Texts(entries) ==
    [i \in 1 .. Cardinality({k \in DOMAIN entries : entries[k] = "text"}) |-> "text"]

\* Values Mutate and Validate return; errs flattens the error, <<>> is nil.
Mutated(job, mutated, warnings) ==
    [job |-> job, mutated |-> mutated, warnings |-> warnings, errs |-> <<>>]
Judged(warnings, errs) ==
    [job |-> NoJob, mutated |-> FALSE, warnings |-> warnings, errs |-> errs]
Refused(warnings) == Judged(warnings, <<"failure">>)
Failure == Refused(<<>>)

-----------------------------------------------------------------------------
(* jsonpatcher and remoteutil *)

\* Mutant: the claim to have changed the job is missing.
PatchJobSilently(job, ops, edited) ==
    IF Contains(ops, "broken")
    THEN [ok |-> FALSE, job |-> NoJob, mutated |-> FALSE]
    ELSE [ok |-> TRUE, job |-> IF ops = <<>> THEN job ELSE edited, mutated |-> FALSE]

PatchJob(job, ops, edited) ==
    IF Contains(ops, "broken")
    THEN [ok |-> FALSE, job |-> NoJob, mutated |-> FALSE]
    ELSE [ok |-> TRUE, job |-> IF ops = <<>> THEN job ELSE edited, mutated |-> ops # <<>>]

\* A []string takes strings and nulls (as empty strings), a missing or null
\* field is an empty slice.
StringSlice(field) == field.kind # "other" /\ ~Contains(field.entries, "other")

\* Mutant: the status of a webhook's answer is not looked at.
DecodeAnyStatus(answer) ==
    /\ answer.reach \in {"answered", "status"}
    /\ StringSlice(answer.errors) /\ StringSlice(answer.warnings)

\* The answer is within 10 MiB, 2xx, and JSON of the expected type.
DecodeJSONResponse(answer) ==
    /\ answer.reach = "answered"
    /\ StringSlice(answer.errors) /\ StringSlice(answer.warnings)

-----------------------------------------------------------------------------
(* The image verifier *)

\* Mutant: one signature more than configured is tried.
VerifyOnceMore(image) ==
    /\ image.reach \in {"unreachable", "found"}
    /\ \/ image.skipped
       \/ \E k \in DOMAIN image.signatures : k <= MaxSigAttempts + 1 /\ image.signatures[k]

\* The reference is parsed first.  notation.Verify then asks the trust policy,
\* and the registry for at most MaxSigAttempts signatures unless it skips.
VerifyImage(image) ==
    /\ image.reach \in {"unreachable", "found"}
    /\ \/ image.skipped
       \/ \E k \in DOMAIN image.signatures : k <= MaxSigAttempts /\ image.signatures[k]

\* The builtin is total: an error of the verifier, or an argument that is not
\* a string, makes it FALSE, not undefined.
notation_verify_image(image) == image.reach # "other" /\ VerifyImage(image)

\* The tasks example/notation/notation.rego objects to: Docker tasks whose
\* image the builtin does not confirm.
Unconfirmed(task) ==
    task.docker /\ task.image.reach # "absent" /\ ~notation_verify_image(task.image)

\* The answer of that rule: an error for each of them.
ImageRule(tasks) ==
    LET refused == Cardinality({i \in DOMAIN tasks : Unconfirmed(tasks[i])})
        absent  == [kind |-> "absent", entries |-> <<>>]
    IN  [reach |-> "answered",
         errors |-> [kind |-> "list", entries |-> [i \in 1 .. refused |-> "text"]],
         warnings |-> absent, patch |-> absent, edited |-> CHOOSE j \in Jobs : TRUE]

-----------------------------------------------------------------------------
(* Mutators *)

JsonPatchWebhookMutate(given, answer) ==
    LET patched == PatchJob(given, answer.patch.entries, answer.edited)
    IN  CASE ~DecodeJSONResponse(answer) \/ answer.patch.kind = "other" -> Failure
          [] OTHER ->
             CASE answer.errors.entries # <<>> ->
                     Judged(answer.warnings.entries, answer.errors.entries)
               [] answer.errors.entries = <<>> /\ ~patched.ok -> Failure
               [] OTHER -> Mutated(patched.job, patched.mutated, answer.warnings.entries)

\* GetErrors, GetWarnings and GetPatch take whatever is not a list for an
\* empty one.
Binding(field) == field.entries

OpaJsonPatchMutate(given, answer) ==
    LET patched == PatchJob(given, Binding(answer.patch), answer.edited)
    IN  CASE answer.reach # "answered" -> Failure
          [] answer.reach = "answered" /\ Binding(answer.errors) # <<>> ->
                Judged(<<>>, Binding(answer.errors))
          [] OTHER -> IF patched.ok
                      THEN Mutated(patched.job, patched.mutated, Binding(answer.warnings))
                      ELSE Failure

\* parseDecisionErrors and parseDecisionWarnings skip nulls.
DecisionTexts(field) == Texts(field.entries)

\* The warnings read before an entry that is neither string nor null.
TextsRead(field) ==
    LET read == {k \in DOMAIN field.entries :
                    \A i \in 1 .. k : field.entries[i] # "other"}
    IN  Texts(SubSeq(field.entries, 1, Cardinality(read)))

\* A bundle decision is checked in this order: errors, warnings, patch.
OpaBundleMutate(given, answer) ==
    LET patched == PatchJob(given, answer.patch.entries, answer.edited)
    IN  IF answer.reach # "answered" \/ ~StringSlice(answer.errors) THEN Failure
        ELSE IF DecisionTexts(answer.errors) # <<>>
             THEN Judged(<<>>, DecisionTexts(answer.errors))
        ELSE IF ~StringSlice(answer.warnings) THEN Refused(TextsRead(answer.warnings))
        ELSE IF answer.patch.kind = "other" THEN Refused(DecisionTexts(answer.warnings))
        ELSE IF answer.patch.kind = "absent"
             THEN Mutated(given, FALSE, DecisionTexts(answer.warnings))
        ELSE IF patched.ok
             THEN Mutated(patched.job, patched.mutated, DecisionTexts(answer.warnings))
             ELSE Refused(DecisionTexts(answer.warnings))

-----------------------------------------------------------------------------
(* Validators *)

\* Errors win: the warnings beside them are not returned.
WebhookValidate(answer) ==
    CASE ~DecodeJSONResponse(answer) -> Failure
      [] DecodeJSONResponse(answer) /\ answer.errors.entries # <<>> ->
            Judged(<<>>, answer.errors.entries)
      [] OTHER -> Judged(answer.warnings.entries, <<>>)

\* Mutant: warnings are returned with an approval only.
OpaValidateErrorsOnly(answer) ==
    IF answer.reach # "answered" THEN Failure
    ELSE Judged(IF Binding(answer.errors) = <<>> THEN Binding(answer.warnings) ELSE <<>>,
                Binding(answer.errors))

OpaValidate(answer) ==
    IF answer.reach # "answered" THEN Failure
    ELSE Judged(Binding(answer.warnings), Binding(answer.errors))

\* parseBundleMessages accepts strings only, unlike the bundle mutator.
BundleMessages(field) ==
    field.kind # "other" /\ \A i \in DOMAIN field.entries : field.entries[i] = "text"

\* Mutant: a decision of the wrong shape counts as one without errors.
OpaBundleValidateLeniently(answer) ==
    IF answer.reach # "answered" THEN Failure
    ELSE Judged(DecisionTexts(answer.warnings), DecisionTexts(answer.errors))

OpaBundleValidate(answer) ==
    IF answer.reach # "answered" \/ ~BundleMessages(answer.warnings) THEN Failure
    ELSE IF ~BundleMessages(answer.errors)
         THEN Refused(answer.warnings.entries)
    ELSE Judged(answer.warnings.entries, answer.errors.entries)

\* Mutant: the first task without a Docker image ends the loop.
FirstImagesOnly(tasks) ==
    {i \in DOMAIN tasks : \A k \in 1 .. i :
        tasks[k].docker /\ tasks[k].image.reach \notin {"absent", "other"}}

\* The tasks whose image is verified: those without a string are skipped.
ImagesOf(tasks) ==
    {i \in DOMAIN tasks : tasks[i].docker /\ tasks[i].image.reach \notin {"absent", "other"}}

\* The first image that fails is a warning, and never an error.
NotationValidate(tasks) ==
    IF \A i \in ImagesOf(tasks) : VerifyImage(tasks[i].image) THEN Judged(<<>>, <<>>)
    ELSE Judged(<<"unverified">>, <<>>)

-----------------------------------------------------------------------------
(* One call of one adapter *)

MutatorTypes   == {"json_patch_webhook", "opa_json_patch", "opa_bundle_json_patch"}
ValidatorTypes == {"webhook", "opa", "opa_bundle", "notation"}

VARIABLES
    type,     \* the controller's type in the configuration
    given,    \* the job of the payload
    answer,   \* what its policy answers
    tasks,    \* the tasks of the job, where its images are looked at
    result,   \* what Mutate or Validate returns
    returned  \* the call has returned

vars == <<type, given, answer, tasks, result, returned>>

\* A call: an answer of any policy, the images of a job before the notation
\* validator, or those a rule of embedded OPA looks at.
Calls ==
    /\ type \in MutatorTypes \cup ValidatorTypes
    /\ given \in Jobs
    /\ \/ /\ type # "notation" /\ tasks = <<>>
          /\ answer \in Answers \cup {Unanswered(reach) : reach \in Failures}
       \/ /\ type = "notation" /\ answer = Unanswered("failed")
          /\ tasks \in BoundedSeq(Tasks, MaxEntries)
       \/ /\ type \in {"opa", "opa_json_patch"} /\ tasks \in BoundedSeq(Tasks, MaxEntries)
          /\ answer = ImageRule(tasks)

Init == Calls /\ result = Judged(<<>>, <<>>) /\ returned = FALSE

Mutate ==
    CASE type = "json_patch_webhook"    -> JsonPatchWebhookMutate(given, answer)
      [] type = "opa_json_patch"        -> OpaJsonPatchMutate(given, answer)
      [] type = "opa_bundle_json_patch" -> OpaBundleMutate(given, answer)

Validate ==
    CASE type = "webhook"    -> WebhookValidate(answer)
      [] type = "opa"        -> OpaValidate(answer)
      [] type = "opa_bundle" -> OpaBundleValidate(answer)
      [] type = "notation"   -> NotationValidate(tasks)

Returned == IF type \in MutatorTypes THEN Mutate ELSE Validate

Call ==
    /\ ~returned /\ returned' = TRUE
    /\ result' = Returned
    /\ UNCHANGED <<type, given, answer, tasks>>

Next == Call \/ (returned /\ UNCHANGED vars)

Spec == Init /\ [][Next]_vars

-----------------------------------------------------------------------------
(* Properties *)

Approves == returned /\ type # "notation" /\ result.errs = <<>>

\* Admission fails closed: without an answer, or with one that lists an error,
\* no adapter approves the job, and none approves it with a broken patch.
PoliciesFailClosed ==
    Approves =>
        /\ answer.reach = "answered"
        /\ Texts(answer.errors.entries) = <<>>
        /\ type \in MutatorTypes => ~Contains(answer.patch.entries, "broken")

\* Webhooks and bundles: an answer of the wrong shape refuses the job, it is
\* not taken for one without errors.  (Embedded OPA does take it for that.)
MalformedAnswersRefuse ==
    Approves /\ type \notin {"opa", "opa_json_patch"} =>
        /\ StringSlice(answer.errors) /\ StringSlice(answer.warnings)
        /\ type \in MutatorTypes => answer.patch.kind # "other"

\* What the JobHandler takes from a mutator: a job, and a claim to have
\* changed nothing only if the job is the one that was given.
MutatorsKeepTheContract ==
    Approves /\ type \in MutatorTypes =>
        /\ result.job \in Jobs
        /\ ~result.mutated => result.job = given

\* An approval carries every warning of the policy, in order; the two kinds of
\* OPA validators return them beside errors too.
WarningsReachTheHandler ==
    Approves \/ (returned /\ type \in {"opa", "opa_bundle"}
                    /\ result.errs # <<>> /\ result.errs # <<"failure">>) =>
        Texts(result.warnings) = Texts(answer.warnings.entries)

\* What an image is worth, whoever looks at it: the trust policy exempts it, or
\* it has a good signature behind fewer bad ones than there are attempts.
Trusted(image) ==
    \/ image.skipped
    \/ \E k \in DOMAIN image.signatures :
          /\ image.signatures[k]
          /\ Cardinality({i \in 1 .. k - 1 : ~image.signatures[i]}) < MaxSigAttempts

\* Who looks at images and stays silent can trust each image that a Docker task
\* names, whatever failed on the way: the registry, the reference, too many bad
\* signatures before a good one.
SilenceMeansVerified ==
    returned /\ tasks # <<>> /\ result.errs = <<>> /\ result.warnings = <<>> =>
        \A i \in DOMAIN tasks :
            tasks[i].docker /\ tasks[i].image.reach \notin {"absent", "other"} =>
                Trusted(tasks[i].image)

\* A rule on images refuses the jobs with a Docker image that is not to be
\* trusted, one that is no string included, and no others.  (The notation
\* validator warns only.)
ImageRuleRefuses ==
    returned /\ tasks # <<>> /\ type \in {"opa", "opa_json_patch"} =>
        (result.errs = <<>> <=>
            \A i \in DOMAIN tasks : tasks[i].docker => \/ tasks[i].image.reach = "absent"
                                                      \/ Trusted(tasks[i].image))

-----------------------------------------------------------------------------
(* The inductive invariant behind the properties *)

\* The inputs of the call stay, and its result is what the adapter makes of them.
AdapterInv ==
    /\ Calls
    /\ returned \in BOOLEAN
    /\ returned => result = Returned
=============================================================================
