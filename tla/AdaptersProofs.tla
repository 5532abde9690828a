---------------------------- MODULE AdaptersProofs ----------------------------
(***************************************************************************)
(* Proofs about Adapters: for every answer a policy can give, of any       *)
(* length, the adapters fail closed, keep the contract of the JobHandler   *)
(* and lose no warning; for every list of images, silence means verified.  *)
(***************************************************************************)
EXTENDS Adapters, FiniteSetTheorems, SequenceTheorems, TLAPS

-----------------------------------------------------------------------------
(* Lists *)

\* The positions in a list that hold a certain entry are finitely many.
LEMMA PositionsAreFinite ==
    ASSUME NEW S, NEW s \in Seq(S), NEW P \in SUBSET (DOMAIN s)
    PROVE  IsFiniteSet(P) /\ Cardinality(P) \in Nat /\ (Cardinality(P) = 0 <=> P = {})
<1>1. 1 \in Int /\ Len(s) \in Int /\ DOMAIN s = 1 .. Len(s)
  BY LenProperties
<1>2. IsFiniteSet(DOMAIN s)
  BY <1>1, FS_Interval
<1>3. IsFiniteSet(P)
  BY <1>2, FS_Subset
<1> QED
  BY <1>3, FS_EmptySet, FS_CardinalityType

\* A list of n strings has n strings.
LEMMA TextsOfTexts ==
    ASSUME NEW n \in Nat, NEW s, s = [i \in 1 .. n |-> "text"]
    PROVE  Texts(s) = s
<1>1. {k \in DOMAIN s : s[k] = "text"} = 1 .. n
  OBVIOUS
<1>2. 1 \in Int /\ n \in Int
  OBVIOUS
<1>3. Cardinality(1 .. n) = n
  BY <1>2, FS_Interval
<1> QED
  BY <1>1, <1>3 DEF Texts

\* Of an empty list no string is left, and filtering twice is filtering once.
LEMMA TextsFacts ==
    ASSUME NEW s \in Seq(Entries)
    PROVE  /\ s = <<>> => Texts(s) = <<>>
           /\ Texts(s) = <<>> <=> ~ \E k \in DOMAIN s : s[k] = "text"
           /\ Texts(Texts(s)) = Texts(s)
<1> DEFINE P == {k \in DOMAIN s : s[k] = "text"}
           n == Cardinality(P)
<1>1. P \in SUBSET (DOMAIN s)
  OBVIOUS
<1>2. n \in Nat /\ (n = 0 <=> P = {})
  <2> HIDE DEF P
  <2> QED
    BY <1>1, PositionsAreFinite
<1>3. Texts(s) = [i \in 1 .. n |-> "text"]
  BY DEF Texts
<1> HIDE DEF n
<1>4. Texts(s) = <<>> <=> n = 0
  <2>1. CASE n = 0
    BY <1>3, <2>1
  <2>2. CASE n # 0
    <3>1. 1 \in DOMAIN Texts(s)
      BY <1>2, <1>3, <2>2
    <3> QED
      BY <3>1, <2>2
  <2> QED
    BY <2>1, <2>2
<1>5. P = {} <=> ~ \E k \in DOMAIN s : s[k] = "text"
  OBVIOUS
<1>6. s = <<>> => P = {}
  OBVIOUS
<1>7. Texts(Texts(s)) = Texts(s)
  BY <1>2, <1>3, TextsOfTexts
<1> QED
  BY <1>2, <1>4, <1>5, <1>6, <1>7

-----------------------------------------------------------------------------
(* Inputs *)

\* A field is a list, or has no entries.
FieldOf(field, entries) ==
    /\ field.entries \in Seq(entries)
    /\ field.kind \in {"absent", "other", "list"}
    /\ field.kind # "list" => field.entries = <<>>

Shaped(a) ==
    /\ FieldOf(a.errors, Entries) /\ FieldOf(a.warnings, Entries)
    /\ FieldOf(a.patch, {"edit", "broken"})

\* A list of bounded length is a list.
LEMMA BoundedIsSeq ==
    ASSUME NEW S, NEW n, NEW s \in BoundedSeq(S, n) PROVE s \in Seq(S)
BY DEF BoundedSeq, SeqOf

\* Every field that TLC enumerates has the shape the proofs speak of.
LEMMA FieldIsShaped ==
    ASSUME NEW entries, NEW field \in Field(entries) PROVE FieldOf(field, entries)
<1>1. CASE field \in {[kind |-> kind, entries |-> <<>>] : kind \in {"absent", "other"}}
  <2>1. PICK kind \in {"absent", "other"} : field = [kind |-> kind, entries |-> <<>>]
    BY <1>1
  <2>2. field.kind = kind /\ field.entries = <<>> /\ <<>> \in Seq(entries)
    BY <2>1
  <2> QED
    BY <2>2 DEF FieldOf
<1>2. CASE field \in [kind : {"list"}, entries : BoundedSeq(entries, MaxEntries)]
  <2>1. field.entries \in BoundedSeq(entries, MaxEntries) /\ field.kind = "list"
    BY <1>2
  <2>2. field.entries \in Seq(entries)
    BY <2>1, BoundedIsSeq
  <2> QED
    BY <2>1, <2>2 DEF FieldOf
<1> QED
  BY <1>1, <1>2 DEF Field

\* The answer of a rule on images: strings, as many as there are images the
\* builtin does not confirm.
LEMMA ImageRuleAnswers ==
    ASSUME NEW ts \in Seq(Tasks)
    PROVE  /\ Shaped(ImageRule(ts)) /\ ImageRule(ts).reach = "answered"
           /\ ImageRule(ts).warnings.entries = <<>> /\ ImageRule(ts).patch.entries = <<>>
           /\ \/ ImageRule(ts).errors.entries = <<>>
              \/ Texts(ImageRule(ts).errors.entries) # <<>>
           /\ ImageRule(ts).errors.entries = <<>> <=> \A i \in DOMAIN ts : ~Unconfirmed(ts[i])
<1> DEFINE P == {i \in DOMAIN ts : Unconfirmed(ts[i])}
           n == Cardinality(P)
           e == [i \in 1 .. n |-> "text"]
<1>1. P \in SUBSET (DOMAIN ts)
  OBVIOUS
<1>2. n \in Nat /\ (n = 0 <=> P = {})
  <2> HIDE DEF P
  <2> QED
    BY <1>1, PositionsAreFinite
<1>3. /\ ImageRule(ts).errors = [kind |-> "list", entries |-> e]
      /\ ImageRule(ts).warnings = [kind |-> "absent", entries |-> <<>>]
      /\ ImageRule(ts).patch = [kind |-> "absent", entries |-> <<>>]
      /\ ImageRule(ts).reach = "answered"
  BY DEF ImageRule
<1>4. P = {} <=> \A i \in DOMAIN ts : ~Unconfirmed(ts[i])
  OBVIOUS
<1> HIDE DEF n, P
<1>5. e \in Seq(Entries)
  <2>1. \A i \in 1 .. n : "text" \in Entries
    BY DEF Entries
  <2> QED
    BY <1>2, <2>1, IsASeq
<1>6. Texts(e) = e
  BY <1>2, TextsOfTexts
<1>7. e = <<>> <=> n = 0
  <2>1. CASE n = 0
    BY <2>1
  <2>2. CASE n # 0
    <3>1. 1 \in DOMAIN e
      BY <1>2, <2>2
    <3> QED
      BY <3>1, <2>2
  <2> QED
    BY <2>1, <2>2
<1> HIDE DEF e
<1>8. Shaped(ImageRule(ts))
  BY <1>3, <1>5 DEF Shaped, FieldOf
<1> QED
  BY <1>2, <1>3, <1>4, <1>6, <1>7, <1>8

\* Whatever the call, the answer's fields are lists or have no entries.
LEMMA CallsAreShaped ==
    ASSUME Calls PROVE Shaped(answer) /\ answer.edited \in Jobs /\ tasks \in Seq(Tasks)
<1>1. ASSUME answer \in Answers PROVE Shaped(answer)
  <2>1. /\ answer.errors \in Field(Entries) /\ answer.warnings \in Field(Entries)
        /\ answer.patch \in Field({"edit", "broken"})
    BY <1>1 DEF Answers
  <2> QED
    BY <2>1, FieldIsShaped DEF Shaped
<1>2. ASSUME NEW reach, answer = Unanswered(reach) PROVE Shaped(answer)
  <2> DEFINE absent == [kind |-> "absent", entries |-> <<>>]
  <2>1. answer.errors = absent /\ answer.warnings = absent /\ answer.patch = absent
    BY <1>2 DEF Unanswered
  <2>2. \A entries : FieldOf(absent, entries)
    BY DEF FieldOf
  <2> HIDE DEF absent
  <2> QED
    BY <2>1, <2>2 DEF Shaped
<1>3. tasks \in Seq(Tasks)
  <2>1. tasks = <<>> \/ tasks \in BoundedSeq(Tasks, MaxEntries)
    BY DEF Calls
  <2>2. <<>> \in Seq(Tasks)
    OBVIOUS
  <2> QED
    BY <2>1, <2>2, BoundedIsSeq
<1>4. ASSUME answer = ImageRule(tasks) PROVE Shaped(answer)
  BY <1>3, <1>4, ImageRuleAnswers
<1>5. answer.edited \in Jobs
  <2>1. (CHOOSE j \in Jobs : TRUE) \in Jobs
    BY DEF Calls
  <2>2. answer \in Answers \/ answer = ImageRule(tasks)
            \/ \E reach : answer = Unanswered(reach)
    BY DEF Calls
  <2> QED
    BY <2>1, <2>2 DEF Answers, ImageRule, Unanswered
<1> QED
  BY <1>1, <1>2, <1>3, <1>4, <1>5 DEF Calls

-----------------------------------------------------------------------------
(* What an approval of each adapter means *)

\* An adapter that fails returns one error, whatever it has read before.
LEMMA FailureRefuses ==
    /\ Failure.errs # <<>> /\ Failure.errs = <<"failure">>
    /\ \A warnings : Refused(warnings).errs # <<>> /\ Refused(warnings).errs = <<"failure">>
BY DEF Failure, Refused, Judged

\* A patch that applies has no broken operation, and one without operations
\* changes nothing.
LEMMA PatchKeepsJobs ==
    ASSUME NEW g \in Jobs, NEW e \in Jobs, NEW ops \in Seq({"edit", "broken"}),
           PatchJob(g, ops, e).ok
    PROVE  /\ ~Contains(ops, "broken") /\ PatchJob(g, ops, e).job \in Jobs
           /\ ~PatchJob(g, ops, e).mutated => PatchJob(g, ops, e).job = g
BY DEF PatchJob

\* An approval of the answer a with result r.
Passed(a, r) ==
    /\ a.reach = "answered"
    /\ Texts(a.errors.entries) = <<>>
    /\ Texts(r.warnings) = Texts(a.warnings.entries)

\* An approval by a mutator that was given job g.
Changed(g, a, r) ==
    /\ ~Contains(a.patch.entries, "broken")
    /\ r.job \in Jobs
    /\ ~r.mutated => r.job = g

\* The answer has the shape the adapter asks for.
Strict(a) == StringSlice(a.errors) /\ StringSlice(a.warnings)

\* A JSON Patch webhook approves with a decoded answer that lists no error.
LEMMA JsonPatchWebhookApproves ==
    ASSUME NEW g \in Jobs, NEW a, Shaped(a), a.edited \in Jobs,
           JsonPatchWebhookMutate(g, a).errs = <<>>
    PROVE  /\ Passed(a, JsonPatchWebhookMutate(g, a))
           /\ Changed(g, a, JsonPatchWebhookMutate(g, a))
           /\ Strict(a) /\ a.patch.kind # "other"
<1> DEFINE patched == PatchJob(g, a.patch.entries, a.edited)
           r == JsonPatchWebhookMutate(g, a)
<1>1. DecodeJSONResponse(a) /\ a.patch.kind # "other"
  BY FailureRefuses DEF JsonPatchWebhookMutate
<1>2. a.errors.entries = <<>>
  BY <1>1 DEF JsonPatchWebhookMutate, Judged
<1>3. patched.ok
  BY <1>1, <1>2, FailureRefuses DEF JsonPatchWebhookMutate
<1>4. r = Mutated(patched.job, patched.mutated, a.warnings.entries)
  BY <1>1, <1>2, <1>3 DEF JsonPatchWebhookMutate
<1>5. /\ ~Contains(a.patch.entries, "broken") /\ patched.job \in Jobs
      /\ ~patched.mutated => patched.job = g
  BY <1>3, PatchKeepsJobs DEF Shaped, FieldOf
<1> HIDE DEF patched, r
<1>6. r.job = patched.job /\ r.mutated = patched.mutated /\ r.warnings = a.warnings.entries
  BY <1>4 DEF Mutated
<1>7. Texts(a.errors.entries) = <<>>
  BY <1>2, TextsFacts DEF Shaped, FieldOf
<1> QED
  BY <1>1, <1>5, <1>6, <1>7 DEF r, Passed, Changed, Strict, DecodeJSONResponse

\* Embedded OPA approves as a mutator with bindings that list no error.
LEMMA OpaJsonPatchApproves ==
    ASSUME NEW g \in Jobs, NEW a, Shaped(a), a.edited \in Jobs,
           OpaJsonPatchMutate(g, a).errs = <<>>
    PROVE  /\ Passed(a, OpaJsonPatchMutate(g, a))
           /\ Changed(g, a, OpaJsonPatchMutate(g, a))
<1> DEFINE patched == PatchJob(g, a.patch.entries, a.edited)
           r == OpaJsonPatchMutate(g, a)
<1>1. a.reach = "answered"
  BY FailureRefuses DEF OpaJsonPatchMutate
<1>2. a.errors.entries = <<>>
  BY <1>1 DEF OpaJsonPatchMutate, Judged, Binding
<1>3. patched.ok
  BY <1>1, <1>2, FailureRefuses DEF OpaJsonPatchMutate, Binding
<1>4. r = Mutated(patched.job, patched.mutated, a.warnings.entries)
  BY <1>1, <1>2, <1>3 DEF OpaJsonPatchMutate, Binding
<1>5. /\ ~Contains(a.patch.entries, "broken") /\ patched.job \in Jobs
      /\ ~patched.mutated => patched.job = g
  BY <1>3, PatchKeepsJobs DEF Shaped, FieldOf
<1> HIDE DEF patched, r
<1>6. r.job = patched.job /\ r.mutated = patched.mutated /\ r.warnings = a.warnings.entries
  BY <1>4 DEF Mutated
<1>7. Texts(a.errors.entries) = <<>>
  BY <1>2, TextsFacts DEF Shaped, FieldOf
<1> QED
  BY <1>1, <1>5, <1>6, <1>7 DEF r, Passed, Changed

\* A bundle approves as a mutator with a decision of the expected shape.
LEMMA OpaBundleMutatorApproves ==
    ASSUME NEW g \in Jobs, NEW a, Shaped(a), a.edited \in Jobs,
           OpaBundleMutate(g, a).errs = <<>>
    PROVE  /\ Passed(a, OpaBundleMutate(g, a))
           /\ Changed(g, a, OpaBundleMutate(g, a))
           /\ Strict(a) /\ a.patch.kind # "other"
<1> DEFINE patched == PatchJob(g, a.patch.entries, a.edited)
           r == OpaBundleMutate(g, a)
           ws == Texts(a.warnings.entries)
<1>1. a.reach = "answered" /\ StringSlice(a.errors)
  BY FailureRefuses DEF OpaBundleMutate
<1>2. Texts(a.errors.entries) = <<>>
  BY <1>1 DEF OpaBundleMutate, Judged, DecisionTexts
<1>3. StringSlice(a.warnings) /\ a.patch.kind # "other"
  BY <1>1, <1>2, FailureRefuses DEF OpaBundleMutate, DecisionTexts
<1>4. Texts(ws) = Texts(a.warnings.entries)
  BY TextsFacts DEF Shaped, FieldOf
<1>5. CASE a.patch.kind = "absent"
  <2>1. r = Mutated(g, FALSE, ws)
    BY <1>1, <1>2, <1>3, <1>5 DEF OpaBundleMutate, DecisionTexts
  <2>2. r.job = g /\ r.warnings = ws
    BY <2>1 DEF Mutated
  <2>3. ~Contains(a.patch.entries, "broken")
    BY <1>5 DEF Shaped, FieldOf, Contains
  <2> QED
    BY <1>1, <1>2, <1>3, <1>4, <2>2, <2>3 DEF Passed, Changed, Strict
<1>6. CASE a.patch.kind # "absent"
  <2>1. patched.ok
    BY <1>1, <1>2, <1>3, <1>6, FailureRefuses DEF OpaBundleMutate, DecisionTexts
  <2>2. r = Mutated(patched.job, patched.mutated, ws)
    BY <1>1, <1>2, <1>3, <1>6, <2>1 DEF OpaBundleMutate, DecisionTexts
  <2>3. /\ ~Contains(a.patch.entries, "broken") /\ patched.job \in Jobs
        /\ ~patched.mutated => patched.job = g
    BY <2>1, PatchKeepsJobs DEF Shaped, FieldOf
  <2> HIDE DEF patched, r
  <2>4. r.job = patched.job /\ r.mutated = patched.mutated /\ r.warnings = ws
    BY <2>2 DEF Mutated
  <2> QED
    BY <1>1, <1>2, <1>3, <1>4, <2>3, <2>4 DEF r, Passed, Changed, Strict
<1> QED
  BY <1>5, <1>6

\* A validating webhook approves with a decoded answer without errors.
LEMMA WebhookApproves ==
    ASSUME NEW a, Shaped(a), WebhookValidate(a).errs = <<>>
    PROVE  Passed(a, WebhookValidate(a)) /\ Strict(a)
<1>1. DecodeJSONResponse(a)
  BY FailureRefuses DEF WebhookValidate
<1>2. a.errors.entries = <<>>
  BY <1>1 DEF WebhookValidate, Judged
<1>3. WebhookValidate(a).warnings = a.warnings.entries
  BY <1>1, <1>2 DEF WebhookValidate, Judged
<1>4. Texts(a.errors.entries) = <<>>
  BY <1>2, TextsFacts DEF Shaped, FieldOf
<1> QED
  BY <1>1, <1>3, <1>4 DEF Passed, Strict, DecodeJSONResponse

\* Embedded OPA returns the warnings beside the errors too.
LEMMA OpaApproves ==
    ASSUME NEW a, Shaped(a)
    PROVE  /\ OpaValidate(a).errs # <<"failure">> =>
                 Texts(OpaValidate(a).warnings) = Texts(a.warnings.entries)
           /\ OpaValidate(a).errs = <<>> => Passed(a, OpaValidate(a))
<1>1. OpaValidate(a).errs # <<"failure">> =>
         /\ a.reach = "answered"
         /\ OpaValidate(a).warnings = a.warnings.entries
         /\ OpaValidate(a).errs = a.errors.entries
  BY FailureRefuses DEF OpaValidate, Judged, Binding
<1>2. a.errors.entries = <<>> => Texts(a.errors.entries) = <<>>
  BY TextsFacts DEF Shaped, FieldOf
<1> QED
  BY <1>1, <1>2 DEF Passed

\* So does a bundle.
LEMMA OpaBundleApproves ==
    ASSUME NEW a, Shaped(a)
    PROVE  /\ OpaBundleValidate(a).errs # <<"failure">> =>
                 Texts(OpaBundleValidate(a).warnings) = Texts(a.warnings.entries)
           /\ OpaBundleValidate(a).errs = <<>> => Passed(a, OpaBundleValidate(a)) /\ Strict(a)
<1>1. OpaBundleValidate(a).errs # <<"failure">> =>
         /\ a.reach = "answered" /\ BundleMessages(a.errors) /\ BundleMessages(a.warnings)
         /\ OpaBundleValidate(a).warnings = a.warnings.entries
         /\ OpaBundleValidate(a).errs = a.errors.entries
  BY FailureRefuses DEF OpaBundleValidate, Judged
<1>2. a.errors.entries = <<>> => Texts(a.errors.entries) = <<>>
  BY TextsFacts DEF Shaped, FieldOf
<1>3. ASSUME NEW field, FieldOf(field, Entries), BundleMessages(field) PROVE StringSlice(field)
  BY <1>3 DEF FieldOf, BundleMessages, StringSlice, Contains
<1> QED
  BY <1>1, <1>2, <1>3 DEF Passed, Strict, Shaped

\* A call that looks at images goes to the notation validator or to a rule of
\* embedded OPA.
LEMMA ImagesAreLookedAt ==
    ASSUME Calls, tasks # <<>>
    PROVE  \/ type = "notation"
           \/ type \in {"opa", "opa_json_patch"} /\ answer = ImageRule(tasks)
BY DEF Calls

\* With a rule on images, embedded OPA approves when the builtin confirms each
\* image, as a validator and as a mutator.
LEMMA ImageRuleDecides ==
    ASSUME NEW g \in Jobs, NEW ts \in Seq(Tasks)
    PROVE  /\ OpaValidate(ImageRule(ts)).errs = <<>>
                 <=> \A i \in DOMAIN ts : ~Unconfirmed(ts[i])
           /\ OpaJsonPatchMutate(g, ImageRule(ts)).errs = <<>>
                 <=> \A i \in DOMAIN ts : ~Unconfirmed(ts[i])
<1> DEFINE a == ImageRule(ts)
           patched == PatchJob(g, a.patch.entries, a.edited)
<1>1. /\ a.reach = "answered" /\ a.patch.entries = <<>>
      /\ a.errors.entries = <<>> <=> \A i \in DOMAIN ts : ~Unconfirmed(ts[i])
  BY ImageRuleAnswers
<1> HIDE DEF a
<1>2. OpaValidate(a).errs = a.errors.entries
  BY <1>1 DEF OpaValidate, Judged, Binding
<1>3. patched.ok
  BY <1>1 DEF PatchJob, Contains
<1> HIDE DEF patched
<1>4. OpaJsonPatchMutate(g, a) =
         IF a.errors.entries # <<>> THEN Judged(<<>>, a.errors.entries)
         ELSE Mutated(patched.job, patched.mutated, a.warnings.entries)
  BY <1>1, <1>3 DEF OpaJsonPatchMutate, Binding, patched
<1>5. OpaJsonPatchMutate(g, a).errs = a.errors.entries
  BY <1>4 DEF Judged, Mutated
<1> QED
  BY <1>1, <1>2, <1>5 DEF a

-----------------------------------------------------------------------------
(* The properties *)

\* The inputs of a call stay, and its result is what its adapter makes of them.
THEOREM AdapterInvariant == Spec => []AdapterInv
<1>1. Init => AdapterInv
  BY DEF Init, AdapterInv
<1>2. AdapterInv /\ [Next]_vars => AdapterInv'
  <2> SUFFICES ASSUME AdapterInv, [Next]_vars PROVE AdapterInv'
    OBVIOUS
  <2>1. CASE Call
    <3>1. UNCHANGED <<type, given, answer, tasks>> /\ returned' = TRUE /\ result' = Returned
      BY <2>1 DEF Call
    <3>2. Calls'
      BY <3>1 DEF AdapterInv, Calls
    <3>3. Returned' = Returned
      BY <3>1 DEF Returned, Mutate, Validate
    <3> QED
      BY <3>1, <3>2, <3>3 DEF AdapterInv
  <2>2. CASE UNCHANGED vars
    BY <2>2 DEF vars, AdapterInv, Calls, Returned, Mutate, Validate
  <2> QED
    BY <2>1, <2>2 DEF Next
<1> QED
  BY <1>1, <1>2, PTL DEF Spec

\* What an approval means, whoever gives it.
LEMMA ApprovalMeans ==
    ASSUME AdapterInv, Approves
    PROVE  /\ Passed(answer, result)
           /\ type \in MutatorTypes => Changed(given, answer, result)
           /\ type \notin {"opa", "opa_json_patch"} => Strict(answer)
           /\ type \in MutatorTypes \ {"opa_json_patch"} => answer.patch.kind # "other"
<1>1. /\ Shaped(answer) /\ answer.edited \in Jobs /\ given \in Jobs
      /\ type \in MutatorTypes \cup ValidatorTypes /\ type # "notation"
      /\ result = Returned /\ result.errs = <<>>
  BY CallsAreShaped DEF AdapterInv, Approves, Calls
<1>2. CASE type = "json_patch_webhook"
  <2>1. result = JsonPatchWebhookMutate(given, answer)
    BY <1>1, <1>2 DEF Returned, Mutate, MutatorTypes
  <2> QED
    BY <1>1, <1>2, <2>1, JsonPatchWebhookApproves
<1>3. CASE type = "opa_json_patch"
  <2>1. result = OpaJsonPatchMutate(given, answer)
    BY <1>1, <1>3 DEF Returned, Mutate, MutatorTypes
  <2> QED
    BY <1>1, <1>3, <2>1, OpaJsonPatchApproves
<1>4. CASE type = "opa_bundle_json_patch"
  <2>1. result = OpaBundleMutate(given, answer)
    BY <1>1, <1>4 DEF Returned, Mutate, MutatorTypes
  <2> QED
    BY <1>1, <1>4, <2>1, OpaBundleMutatorApproves
<1>5. CASE type = "webhook"
  <2>1. result = WebhookValidate(answer)
    BY <1>1, <1>5 DEF Returned, Validate, MutatorTypes
  <2> QED
    BY <1>1, <1>5, <2>1, WebhookApproves DEF MutatorTypes
<1>6. CASE type = "opa"
  <2>1. result = OpaValidate(answer)
    BY <1>1, <1>6 DEF Returned, Validate, MutatorTypes
  <2> QED
    BY <1>1, <1>6, <2>1, OpaApproves DEF MutatorTypes
<1>7. CASE type = "opa_bundle"
  <2>1. result = OpaBundleValidate(answer)
    BY <1>1, <1>7 DEF Returned, Validate, MutatorTypes
  <2> QED
    BY <1>1, <1>7, <2>1, OpaBundleApproves DEF MutatorTypes
<1> QED
  BY <1>1, <1>2, <1>3, <1>4, <1>5, <1>6, <1>7 DEF MutatorTypes, ValidatorTypes

\* No adapter approves a job without an answer that lists no error and a patch
\* that applies.
THEOREM AdaptersFailClosed == Spec => []PoliciesFailClosed
<1>1. AdapterInv => PoliciesFailClosed
  BY ApprovalMeans DEF PoliciesFailClosed, Passed, Changed
<1> QED
  BY <1>1, AdapterInvariant, PTL

\* Webhooks and bundles refuse what has not the shape they expect.
THEOREM AdaptersAreStrict == Spec => []MalformedAnswersRefuse
<1>1. AdapterInv => MalformedAnswersRefuse
  <2> SUFFICES ASSUME AdapterInv, Approves, type \notin {"opa", "opa_json_patch"}
               PROVE  /\ StringSlice(answer.errors) /\ StringSlice(answer.warnings)
                      /\ type \in MutatorTypes => answer.patch.kind # "other"
    BY DEF MalformedAnswersRefuse
  <2> QED
    BY ApprovalMeans DEF Strict
<1> QED
  BY <1>1, AdapterInvariant, PTL

\* A mutator that approves hands on a job and does not hide a change.
THEOREM MutatorsAreHonest == Spec => []MutatorsKeepTheContract
<1>1. AdapterInv => MutatorsKeepTheContract
  BY ApprovalMeans DEF MutatorsKeepTheContract, Changed
<1> QED
  BY <1>1, AdapterInvariant, PTL

\* No adapter drops or adds a warning.
THEOREM AdaptersKeepWarnings == Spec => []WarningsReachTheHandler
<1>1. AdapterInv => WarningsReachTheHandler
  <2> SUFFICES ASSUME AdapterInv,
                      \/ Approves
                      \/ /\ returned /\ type \in {"opa", "opa_bundle"}
                         /\ result.errs # <<>> /\ result.errs # <<"failure">>
               PROVE  Texts(result.warnings) = Texts(answer.warnings.entries)
    BY DEF WarningsReachTheHandler
  <2>1. CASE Approves
    BY <2>1, ApprovalMeans DEF Passed
  <2>2. CASE /\ returned /\ type \in {"opa", "opa_bundle"}
             /\ result.errs # <<>> /\ result.errs # <<"failure">>
    <3>1. Shaped(answer) /\ result = Returned
      BY <2>2, CallsAreShaped DEF AdapterInv
    <3>2. result = IF type = "opa" THEN OpaValidate(answer) ELSE OpaBundleValidate(answer)
      BY <2>2, <3>1 DEF Returned, Validate, MutatorTypes
    <3> QED
      BY <2>2, <3>1, <3>2, OpaApproves, OpaBundleApproves
  <2> QED
    BY <2>1, <2>2
<1> QED
  BY <1>1, AdapterInvariant, PTL

\* The verifier confirms exactly the images that can be trusted: trying the
\* first MaxSigAttempts signatures finds every good one with fewer bad ones
\* before it, and no other.
LEMMA VerifiedIsTrusted ==
    ASSUME NEW image \in Images
    PROVE  VerifyImage(image) <=> Trusted(image)
<1> DEFINE s == image.signatures
           Bad(k) == {i \in 1 .. k - 1 : ~s[i]}
<1>1. s \in Seq(BOOLEAN) /\ DOMAIN s = 1 .. Len(s) /\ Len(s) \in Nat
  <2>1. s = <<>> \/ s \in BoundedSeq(BOOLEAN, MaxEntries)
    BY DEF Images
  <2>2. <<>> \in Seq(BOOLEAN)
    OBVIOUS
  <2>3. s \in Seq(BOOLEAN)
    BY <2>1, <2>2, BoundedIsSeq
  <2> QED
    BY <2>3, LenProperties
<1>2. image.reach \notin {"unreachable", "found"} => ~image.skipped /\ DOMAIN s = {}
  <2>1. DOMAIN <<>> = {}
    OBVIOUS
  <2>2. image.reach \notin {"unreachable", "found"} =>
           image \in [reach : {"absent", "other", "unparsable"}, skipped : {FALSE},
                      signatures : {<<>>}]
    BY DEF Images
  <2>3. image.reach \notin {"unreachable", "found"} => ~image.skipped /\ s = <<>>
    BY <2>2
  <2> QED
    BY <2>1, <2>3
<1>3. MaxSigAttempts \in Nat \ {0}
  BY AdapterAssumption
<1> HIDE DEF s
<1>4. \A k \in DOMAIN s : IsFiniteSet(Bad(k)) /\ Cardinality(Bad(k)) <= k - 1
  <2> TAKE k \in DOMAIN s
  <2>0. \A n \in Nat : IsFiniteSet(1 .. n) /\ Cardinality(1 .. n) = n
    <3> TAKE n \in Nat
    <3>1. 1 \in Int /\ n \in Int
      OBVIOUS
    <3>2. IsFiniteSet(1 .. n) /\ Cardinality(1 .. n) = IF 1 > n THEN 0 ELSE n - 1 + 1
      BY <3>1, FS_Interval
    <3> QED
      BY <3>2
  <2>1. IsFiniteSet(1 .. k - 1) /\ Cardinality(1 .. k - 1) = k - 1
    <3>1. k - 1 \in Nat
      BY <1>1
    <3> QED
      BY <2>0, <3>1
  <2>2. Bad(k) \in SUBSET (1 .. k - 1)
    OBVIOUS
  <2> HIDE DEF Bad
  <2> QED
    BY <2>1, <2>2, FS_Subset
<1>5. ASSUME NEW k \in DOMAIN s, k <= MaxSigAttempts
      PROVE  Cardinality(Bad(k)) < MaxSigAttempts
  <2>1. IsFiniteSet(Bad(k)) /\ Cardinality(Bad(k)) <= k - 1
    BY <1>4
  <2>2. Cardinality(Bad(k)) \in Nat
    BY <2>1, FS_CardinalityType
  <2> QED
    BY <1>1, <1>3, <1>5, <2>1, <2>2
<1>6. ASSUME NEW k \in DOMAIN s, s[k], Cardinality(Bad(k)) < MaxSigAttempts
      PROVE  \E i \in DOMAIN s : i <= MaxSigAttempts /\ s[i]
  <2> SUFFICES ASSUME \A i \in DOMAIN s : ~(i <= MaxSigAttempts /\ s[i])
               PROVE  FALSE
    OBVIOUS
  <2>1. 1 .. MaxSigAttempts \subseteq Bad(k)
    BY <1>1, <1>3, <1>6
  <2>2. Cardinality(1 .. MaxSigAttempts) = MaxSigAttempts
    BY <1>3, FS_Interval
  <2>3. Cardinality(1 .. MaxSigAttempts) <= Cardinality(Bad(k))
    BY <1>4, <2>1, FS_Subset
  <2>4. Cardinality(Bad(k)) \in Nat
    BY <1>4, FS_CardinalityType
  <2> QED
    BY <1>3, <1>6, <2>2, <2>3, <2>4
<1>7. VerifyImage(image) => Trusted(image)
  BY <1>5 DEF VerifyImage, Trusted, s
<1>8. Trusted(image) => VerifyImage(image)
  BY <1>2, <1>6 DEF VerifyImage, Trusted, s
<1> QED
  BY <1>7, <1>8

\* Silence of a validator or a rule that looks at images means that each can
\* be trusted.
THEOREM SilenceIsVerified == Spec => []SilenceMeansVerified
<1>1. AdapterInv => SilenceMeansVerified
  <2> SUFFICES ASSUME AdapterInv, returned, tasks # <<>>,
                      result.errs = <<>>, result.warnings = <<>>,
                      NEW i \in DOMAIN tasks,
                      tasks[i].docker, tasks[i].image.reach \notin {"absent", "other"}
               PROVE  Trusted(tasks[i].image)
    BY DEF SilenceMeansVerified
  <2>1. Calls /\ result = Returned /\ given \in Jobs /\ tasks \in Seq(Tasks)
    BY CallsAreShaped DEF AdapterInv, Calls
  <2> SUFFICES VerifyImage(tasks[i].image)
    <3>1. tasks[i] \in Tasks
      BY <2>1
    <3>2. tasks[i].image \in Images
      BY <3>1 DEF Tasks
    <3> QED
      BY <3>2, VerifiedIsTrusted
  <2>2. CASE type = "notation"
    <3>1. result = NotationValidate(tasks)
      BY <2>1, <2>2 DEF Returned, Validate, MutatorTypes
    <3>2. \A k \in ImagesOf(tasks) : VerifyImage(tasks[k].image)
      <4>1. Judged(<<"unverified">>, <<>>).warnings # <<>>
        BY DEF Judged
      <4> QED
        BY <3>1, <4>1 DEF NotationValidate
    <3> QED
      BY <3>2 DEF ImagesOf
  <2>3. CASE type \in {"opa", "opa_json_patch"} /\ answer = ImageRule(tasks)
    <3>1. result = IF type = "opa" THEN OpaValidate(answer) ELSE OpaJsonPatchMutate(given, answer)
      BY <2>1, <2>3 DEF Returned, Validate, Mutate, MutatorTypes
    <3>2. ~Unconfirmed(tasks[i])
      BY <2>1, <2>3, <3>1, ImageRuleDecides
    <3> QED
      BY <3>2 DEF Unconfirmed, notation_verify_image
  <2> QED
    BY <2>1, <2>2, <2>3, ImagesAreLookedAt
<1> QED
  BY <1>1, AdapterInvariant, PTL

\* The rule on images refuses exactly the jobs with a Docker image that is not
\* to be trusted.
THEOREM ImageRuleIsExact == Spec => []ImageRuleRefuses
<1>1. AdapterInv => ImageRuleRefuses
  <2> SUFFICES ASSUME AdapterInv, returned, tasks # <<>>, type \in {"opa", "opa_json_patch"}
               PROVE  result.errs = <<>> <=>
                         \A i \in DOMAIN tasks : tasks[i].docker =>
                            tasks[i].image.reach = "absent" \/ Trusted(tasks[i].image)
    BY DEF ImageRuleRefuses
  <2>1. /\ Calls /\ result = Returned /\ given \in Jobs /\ tasks \in Seq(Tasks)
        /\ answer = ImageRule(tasks)
    BY CallsAreShaped, ImagesAreLookedAt DEF AdapterInv, Calls
  <2>2. result = IF type = "opa" THEN OpaValidate(answer) ELSE OpaJsonPatchMutate(given, answer)
    BY <2>1 DEF Returned, Validate, Mutate, MutatorTypes
  <2>3. result.errs = <<>> <=> \A i \in DOMAIN tasks : ~Unconfirmed(tasks[i])
    BY <2>1, <2>2, ImageRuleDecides
  <2>4. \A image : image.reach = "other" => ~VerifyImage(image)
    BY DEF VerifyImage
  <2>5. \A i \in DOMAIN tasks :
           VerifyImage(tasks[i].image) <=> Trusted(tasks[i].image)
    <3> TAKE i \in DOMAIN tasks
    <3>1. tasks[i] \in Tasks
      BY <2>1
    <3>2. tasks[i].image \in Images
      BY <3>1 DEF Tasks
    <3> QED
      BY <3>2, VerifiedIsTrusted
  <2> QED
    BY <2>3, <2>4, <2>5 DEF Unconfirmed, notation_verify_image
<1> QED
  BY <1>1, AdapterInvariant, PTL
=============================================================================
