-------------------------- MODULE JobHandlerProofs --------------------------
(***************************************************************************)
(* Proofs about JobHandler: types; that a call that ends without error has *)
(* shown every validator exactly the job it returns; that its errors and   *)
(* warnings are all the controllers gave; and that the shared counters are *)
(* the sums over all calls.                                                *)
(***************************************************************************)
EXTENDS JobHandler, SequenceTheorems, FiniteSetTheorems, TLAPS

-----------------------------------------------------------------------------
(* Types *)

\* What a controller says in one call is a sequence of notices.
LEMMA SaidIsNotices ==
    ASSUME NEW kind \in {"mutator", "validator"}, NEW i \in Nat, NEW n \in Nat
    PROVE  Said(kind, i, n) \in Seq(Notice)
<1> DEFINE notice == [by |-> kind, at |-> i]
<1>1. notice \in Notice
  BY DEF Notice
<1> HIDE DEF notice
<1>2. Repeated(n, notice) \in Seq(Notice)
  BY <1>1, IsASeq DEF Repeated
<1> QED
  BY <1>2 DEF Said, notice

\* Overwriting one entry of a table keeps its type.
LEMMA TableUpdate ==
    ASSUME NEW A, NEW B, NEW S, NEW f \in [A -> [B -> S]],
           NEW a \in A, NEW b \in B, NEW e \in S
    PROVE  [f EXCEPT ![a][b] = e] \in [A -> [B -> S]]
OBVIOUS

\* Replacing counters of the handler by counters keeps a well-typed set of
\* metrics.
LEMMA MetricsUpdate ==
    ASSUME NEW m \in Metrics
    PROVE  /\ \A f \in [Mutators -> Nat] : [m EXCEPT !.mutatorErrors = f] \in Metrics
           /\ \A f, g \in [Mutators -> Nat] :
                 [m EXCEPT !.mutatorMutations = f, !.mutatorWarnings = g] \in Metrics
           /\ \A f, g \in [Validators -> Nat] :
                 [m EXCEPT !.validatorErrors = f, !.validatorWarnings = g] \in Metrics
BY DEF Metrics

\* A counter stays a natural number.
LEMMA CounterUpdate ==
    ASSUME NEW A, NEW f \in [A -> Nat], NEW a \in A, NEW n \in Nat
    PROVE  [f EXCEPT ![a] = @ + n] \in [A -> Nat]
OBVIOUS

\* The initial state is well typed.
LEMMA HandlerInitType == HandlerInit => HandlerTypeOK
<1> SUFFICES ASSUME HandlerInit PROVE HandlerTypeOK
  OBVIOUS
<1>1. NotMutated \in Mutations /\ NotJudged \in Verdicts
  BY HandlerAssumption DEF NotMutated, NotJudged, Mutations, Verdicts, JobOrNone
<1>2. <<>> \in Seq(Notice)
  OBVIOUS
<1>3. 1 \in 1 .. NumMutators + NumValidators + 1
  BY HandlerAssumption
<1> QED
  BY <1>1, <1>2, <1>3, HandlerAssumption
  DEF HandlerInit, HandlerTypeOK, NewJobHandler, Metrics, Phases, JobOrNone

\* A call keeps the types.
LEMMA CallType ==
    ASSUME HandlerTypeOK, NEW r \in Requests, NEW j \in JobOrNone, AdmissionMutators(r, j)
    PROVE  HandlerTypeOK'
<1>1. [by |-> "handler", at |-> 0] \in Notice
  BY DEF Notice
<1>2. <<[by |-> "handler", at |-> 0]>> \in Seq(Notice)
  BY <1>1
<1> QED
  BY <1>2 DEF HandlerTypeOK, AdmissionMutators, Phases

\* Every step of the handler keeps the types.
LEMMA StepType ==
    ASSUME HandlerTypeOK, NEW r \in Requests, HandlerStep(r)
    PROVE  HandlerTypeOK'
<1> USE HandlerAssumption
<1>t. /\ phase[r] \in Phases /\ job[r] \in JobOrNone
      /\ mutWarnings[r] \in Seq(Notice) /\ valWarnings[r] \in Seq(Notice)
      /\ errs[r] \in Seq(Notice)
      /\ NoJob \in JobOrNone
      /\ \A j \in Jobs : j \in JobOrNone
  BY DEF HandlerTypeOK, JobOrNone
<1>m. ASSUME MutatorsDue(r)
      PROVE  /\ at[r] \in Mutators /\ at[r] \in Nat
             /\ at[r] + 1 \in 1 .. NumMutators + NumValidators + 1
             /\ \A e \in Mutations :
                    [mutation EXCEPT ![r][at[r]] = e] \in [Requests -> [Mutators -> Mutations]]
  <2>1. at[r] \in Mutators /\ at[r] \in Nat /\ at[r] + 1 \in 1 .. NumMutators + NumValidators + 1
    BY <1>m DEF MutatorsDue, Mutators
  <2> QED
    BY <2>1, TableUpdate DEF HandlerTypeOK
<1>v. ASSUME ValidatorsDue(r)
      PROVE  /\ at[r] \in Validators /\ at[r] \in Nat
             /\ at[r] + 1 \in 1 .. NumMutators + NumValidators + 1
             /\ \A e \in Verdicts :
                    [verdict EXCEPT ![r][at[r]] = e] \in [Requests -> [Validators -> Verdicts]]
  <2>1. at[r] \in Validators /\ at[r] \in Nat /\ at[r] + 1 \in 1 .. NumMutators + NumValidators + 1
    BY <1>v DEF ValidatorsDue, Validators
  <2> QED
    BY <2>1, TableUpdate DEF HandlerTypeOK
<1>n. ASSUME NEW kind \in {"mutator", "validator", "handler"}, NEW i \in Nat
      PROVE  /\ [by |-> kind, at |-> i] \in Notice
             /\ <<[by |-> kind, at |-> i]>> \in Seq(Notice)
             /\ \A s \in Seq(Notice) : Append(s, [by |-> kind, at |-> i]) \in Seq(Notice)
  <2>1. [by |-> kind, at |-> i] \in Notice
    BY DEF Notice
  <2> QED
    BY <2>1
<1>w. \A n \in 0 .. MaxWarnings : n \in Nat
  OBVIOUS
<1>1. CASE MutatorFails(r)
  <2>1. MutatorsDue(r)
    BY <1>1 DEF MutatorFails
  <2>2. PICK outcome \in {"error", "nil"} : mutation' = [mutation EXCEPT ![r][at[r]] =
              [given |-> job[r], made |-> NoJob, said |-> 0, mutated |-> FALSE,
               outcome |-> outcome]]
    BY <1>1 DEF MutatorFails
  <2>3. [given |-> job[r], made |-> NoJob, said |-> 0, mutated |-> FALSE,
         outcome |-> outcome] \in Mutations
    BY <1>t DEF Mutations
  <2>4. mutation' \in [Requests -> [Mutators -> Mutations]]
    BY <2>1, <2>2, <2>3, <1>m
  <2>5. metrics' \in Metrics
    <3> DEFINE f == [metrics.mutatorErrors EXCEPT ![at[r]] = @ + 1]
    <3>1. metrics \in Metrics /\ metrics.mutatorErrors \in [Mutators -> Nat]
      BY DEF HandlerTypeOK, Metrics
    <3>2. f \in [Mutators -> Nat]
      BY <3>1, <2>1, <1>m, CounterUpdate
    <3>3. metrics' = [metrics EXCEPT !.mutatorErrors = f]
      BY <1>1 DEF MutatorFails, MutatorErrorCounted
    <3> QED
      BY <3>1, <3>2, <3>3, MetricsUpdate
  <2>6. <<[by |-> "mutator", at |-> at[r]]>> \in Seq(Notice)
    BY <2>1, <1>m, <1>n
  <2> QED
    BY <1>1, <1>t, <2>4, <2>5, <2>6
    DEF MutatorFails, HandlerTypeOK, KeptOnMutatorError, Phases
<1>2. CASE MutatorReturns(r)
  <2>1. MutatorsDue(r)
    BY <1>2 DEF MutatorReturns
  <2>2. PICK j \in Jobs, mutated \in BOOLEAN, n \in 0 .. MaxWarnings :
          /\ mutation' = [mutation EXCEPT ![r][at[r]] =
                 [given |-> job[r], made |-> j, said |-> n, mutated |-> mutated,
                  outcome |-> "ok"]]
          /\ job' = [job EXCEPT ![r] = j]
          /\ mutWarnings' = [mutWarnings EXCEPT ![r] = @ \o Said("mutator", at[r], n)]
          /\ metrics' = [metrics EXCEPT
                 !.mutatorMutations[at[r]] = @ + (IF mutated THEN 1 ELSE 0),
                 !.mutatorWarnings[at[r]] = @ + n]
    BY <1>2 DEF MutatorReturns
  <2>3. [given |-> job[r], made |-> j, said |-> n, mutated |-> mutated,
         outcome |-> "ok"] \in Mutations
    BY <1>t DEF Mutations
  <2>4. mutation' \in [Requests -> [Mutators -> Mutations]]
    BY <2>1, <2>2, <2>3, <1>m
  <2>5. metrics' \in Metrics
    <3> DEFINE f == [metrics.mutatorMutations EXCEPT ![at[r]] = @ + (IF mutated THEN 1 ELSE 0)]
               g == [metrics.mutatorWarnings EXCEPT ![at[r]] = @ + n]
    <3>1. /\ metrics \in Metrics
          /\ metrics.mutatorMutations \in [Mutators -> Nat]
          /\ metrics.mutatorWarnings \in [Mutators -> Nat]
      BY DEF HandlerTypeOK, Metrics
    <3>2. f \in [Mutators -> Nat] /\ g \in [Mutators -> Nat]
      BY <3>1, <2>1, <1>m, <1>w, CounterUpdate
    <3>3. metrics' = [metrics EXCEPT !.mutatorMutations = f, !.mutatorWarnings = g]
      BY <2>2
    <3> QED
      BY <3>1, <3>2, <3>3, MetricsUpdate
  <2>6. mutWarnings[r] \o Said("mutator", at[r], n) \in Seq(Notice)
    BY <2>1, <1>m, <1>w, <1>t, SaidIsNotices, ConcatProperties
  <2> QED
    BY <1>2, <1>t, <1>m, <2>1, <2>2, <2>4, <2>5, <2>6 DEF MutatorReturns, HandlerTypeOK
<1>3. CASE MutatorsReturn(r)
  BY <1>3 DEF MutatorsReturn, HandlerTypeOK, Phases
<1>4. CASE AdmissionValidators(r)
  BY <1>4 DEF AdmissionValidators, HandlerTypeOK, Phases
<1>5. CASE CopyFails(r)
  <2>1. ValidatorsDue(r)
    BY <1>5 DEF CopyFails
  <2>2. [saw |-> NoJob, said |-> 0, vote |-> "copyfailed"] \in Verdicts
    BY <1>t DEF Verdicts
  <2>3. verdict' \in [Requests -> [Validators -> Verdicts]]
    BY <1>5, <2>1, <2>2, <1>v DEF CopyFails
  <2>4. Append(errs[r], [by |-> "handler", at |-> at[r]]) \in Seq(Notice)
    BY <2>1, <1>v, <1>n, <1>t
  <2> QED
    BY <1>5, <1>v, <2>1, <2>3, <2>4 DEF CopyFails, HandlerTypeOK
<1>6. CASE ValidatorReturns(r)
  <2>1. ValidatorsDue(r)
    BY <1>6 DEF ValidatorReturns
  <2>2. PICK left \in Jobs, n \in 0 .. MaxWarnings, vote \in {"accepts", "objects"} :
          /\ verdict' = [verdict EXCEPT ![r][at[r]] =
                 [saw |-> job[r], said |-> n, vote |-> vote]]
          /\ job' = [job EXCEPT ![r] = AfterValidator(r, left)]
          /\ valWarnings' = [valWarnings EXCEPT ![r] = WarningsAfter(r, n, vote)]
          /\ errs' = [errs EXCEPT ![r] = ErrorsAfter(r, vote)]
          /\ metrics' = [metrics EXCEPT
                 !.validatorErrors[at[r]] = @ + (IF vote = "objects" THEN 1 ELSE 0),
                 !.validatorWarnings[at[r]] = @ + n]
    BY <1>6 DEF ValidatorReturns
  <2>3. [saw |-> job[r], said |-> n, vote |-> vote] \in Verdicts
    BY <1>t DEF Verdicts
  <2>4. verdict' \in [Requests -> [Validators -> Verdicts]]
    BY <2>1, <2>2, <2>3, <1>v
  <2>5. metrics' \in Metrics
    <3> DEFINE f == [metrics.validatorErrors EXCEPT
                        ![at[r]] = @ + (IF vote = "objects" THEN 1 ELSE 0)]
               g == [metrics.validatorWarnings EXCEPT ![at[r]] = @ + n]
    <3>1. /\ metrics \in Metrics
          /\ metrics.validatorErrors \in [Validators -> Nat]
          /\ metrics.validatorWarnings \in [Validators -> Nat]
      BY DEF HandlerTypeOK, Metrics
    <3>2. f \in [Validators -> Nat] /\ g \in [Validators -> Nat]
      BY <3>1, <2>1, <1>v, <1>w, CounterUpdate
    <3>3. metrics' = [metrics EXCEPT !.validatorErrors = f, !.validatorWarnings = g]
      BY <2>2
    <3> QED
      BY <3>1, <3>2, <3>3, MetricsUpdate
  <2>6. WarningsAfter(r, n, vote) \in Seq(Notice)
    BY <2>1, <1>v, <1>w, <1>t, SaidIsNotices, ConcatProperties DEF WarningsAfter
  <2>7. ErrorsAfter(r, vote) \in Seq(Notice)
    BY <2>1, <1>v, <1>n, <1>t DEF ErrorsAfter
  <2> QED
    BY <1>6, <1>t, <1>v, <2>1, <2>2, <2>4, <2>5, <2>6, <2>7
    DEF ValidatorReturns, HandlerTypeOK, AfterValidator
<1>7. CASE ValidatorsReturn(r)
  BY <1>7 DEF ValidatorsReturn, HandlerTypeOK, Phases
<1> QED
  BY <1>1, <1>2, <1>3, <1>4, <1>5, <1>6, <1>7 DEF HandlerStep

\* The handler keeps its types, whatever its controllers answer.
THEOREM HandlerTypeCorrect == HandlerSpec => []HandlerTypeOK
<1>1. HandlerTypeOK /\ [HandlerNext]_handlerVars => HandlerTypeOK'
  <2> SUFFICES ASSUME HandlerTypeOK, [HandlerNext]_handlerVars PROVE HandlerTypeOK'
    OBVIOUS
  <2>1. ASSUME NEW r \in Requests, NEW j \in JobOrNone, AdmissionMutators(r, j)
        PROVE  HandlerTypeOK'
    BY <2>1, CallType
  <2>2. ASSUME NEW r \in Requests, HandlerStep(r) PROVE HandlerTypeOK'
    BY <2>2, StepType
  <2>3. CASE UNCHANGED handlerVars
    BY <2>3 DEF handlerVars, callVars, HandlerTypeOK
  <2> QED
    BY <2>1, <2>2, <2>3 DEF HandlerNext, HandlerIdle
<1> QED
  BY <1>1, HandlerInitType, PTL DEF HandlerSpec

-----------------------------------------------------------------------------
(* The invariant of a call *)

\* Calls do not touch each other: what CallInv says of q depends on q's own
\* entries only.
LEMMA CallFrame ==
    ASSUME NEW q \in Requests, CallInv(q),
           phase'[q] = phase[q], payload'[q] = payload[q], job'[q] = job[q],
           at'[q] = at[q], errs'[q] = errs[q],
           mutation'[q] = mutation[q], verdict'[q] = verdict[q]
    PROVE  CallInv(q)'
BY DEF CallInv, ChainOf, MutatorsSoFar, ValidatorsSoFar, Rendered, RenderedBefore

\* A step for one request leaves the entries of the others alone.
LEMMA StepFrame ==
    ASSUME HandlerTypeOK, NEW r \in Requests, NEW q \in Requests, q # r, HandlerStep(r)
    PROVE  /\ phase'[q] = phase[q] /\ payload'[q] = payload[q] /\ job'[q] = job[q]
           /\ at'[q] = at[q] /\ errs'[q] = errs[q]
           /\ mutWarnings'[q] = mutWarnings[q] /\ valWarnings'[q] = valWarnings[q]
           /\ mutation'[q] = mutation[q] /\ verdict'[q] = verdict[q]
<1> USE DEF HandlerTypeOK
<1>1. CASE MutatorFails(r)
  BY <1>1 DEF MutatorFails
<1>2. CASE MutatorReturns(r)
  BY <1>2 DEF MutatorReturns
<1>3. CASE MutatorsReturn(r)
  BY <1>3 DEF MutatorsReturn
<1>4. CASE AdmissionValidators(r)
  BY <1>4 DEF AdmissionValidators
<1>5. CASE CopyFails(r)
  BY <1>5 DEF CopyFails
<1>6. CASE ValidatorReturns(r)
  BY <1>6 DEF ValidatorReturns
<1>7. CASE ValidatorsReturn(r)
  BY <1>7 DEF ValidatorsReturn
<1> QED
  BY <1>1, <1>2, <1>3, <1>4, <1>5, <1>6, <1>7 DEF HandlerStep

\* Handing a job to the handler establishes the invariant of the call.
LEMMA CallStarts ==
    ASSUME HandlerTypeOK, NEW r \in Requests, CallInv(r),
           NEW j \in JobOrNone, AdmissionMutators(r, j)
    PROVE  CallInv(r)'
<1> USE HandlerAssumption DEF HandlerTypeOK
<1>1. /\ phase[r] = "idle" /\ at[r] = 1 /\ at'[r] = 1
      /\ payload'[r] = j /\ job'[r] = j
      /\ mutation' = mutation /\ verdict' = verdict
      /\ phase'[r] = (IF j = NoJob THEN "refused" ELSE "mutators")
      /\ errs'[r] = (IF j = NoJob THEN <<[by |-> "handler", at |-> 0]>> ELSE errs[r])
  BY DEF AdmissionMutators, CallInv, MutatorsSoFar
<1>2. \A m \in Mutators : m >= 1 /\ mutation[r][m].outcome = "none"
  BY <1>1 DEF CallInv, MutatorsSoFar, Mutators
<1>3. \A v \in Validators : verdict[r][v].vote = "none"
  BY <1>1 DEF CallInv, ValidatorsSoFar
<1>4. j # NoJob => j \in Jobs
  BY DEF JobOrNone
<1>5. ChainOf(r)'
  BY <1>1, <1>2 DEF ChainOf
<1>6. MutatorsSoFar(r)'
  <2>1. CASE j = NoJob
    BY <1>1, <2>1 DEF MutatorsSoFar
  <2>2. CASE j # NoJob
    <3>1. phase'[r] = "mutators" /\ RenderedBefore(r, 1)' = j /\ j \in Jobs
      BY <1>1, <1>4, <2>2 DEF RenderedBefore
    <3>2. \A m \in Mutators : ~(m < 1)
      BY DEF Mutators
    <3> QED
      BY <1>1, <1>2, <3>1, <3>2 DEF MutatorsSoFar
  <2> QED
    BY <2>1, <2>2
<1>7. ValidatorsSoFar(r)'
  BY <1>1, <1>3 DEF ValidatorsSoFar
<1> QED
  BY <1>5, <1>6, <1>7 DEF CallInv

\* Every step of the handler keeps the invariant of the call it serves.
LEMMA CallStep ==
    ASSUME HandlerTypeOK, NEW r \in Requests, CallInv(r), HandlerStep(r)
    PROVE  CallInv(r)'
<1> USE HandlerAssumption
<1>a. /\ mutation[r] \in [Mutators -> Mutations] /\ verdict[r] \in [Validators -> Verdicts]
      /\ at[r] \in Nat /\ errs[r] \in Seq(Notice)
  BY DEF HandlerTypeOK
<1>1. CASE MutatorFails(r)
  <2>1. PICK outcome \in {"error", "nil"} : mutation' = [mutation EXCEPT ![r][at[r]] =
              [given |-> job[r], made |-> NoJob, said |-> 0, mutated |-> FALSE,
               outcome |-> outcome]]
    BY <1>1 DEF MutatorFails
  <2>2. /\ phase[r] = "mutators" /\ at[r] \in Mutators /\ at[r] \in Nat
        /\ phase'[r] = "refused" /\ payload'[r] = payload[r] /\ verdict'[r] = verdict[r]
        /\ job'[r] = NoJob
        /\ errs'[r] = <<[by |-> "mutator", at |-> at[r]]>>
    BY <1>1 DEF MutatorFails, MutatorsDue, KeptOnMutatorError, HandlerTypeOK, Mutators
  <2>3. /\ mutation'[r][at[r]].given = job[r]
        /\ \A m \in Mutators : m # at[r] => mutation'[r][m] = mutation[r][m]
    BY <2>1, <2>2 DEF HandlerTypeOK
  <2>4. ChainOf(r)'
    <3>1. \A m \in Mutators : m < at[r] => mutation[r][m].outcome = "ok"
      BY <2>2 DEF CallInv, MutatorsSoFar
    <3>2. \A m \in Mutators : m > at[r] => mutation[r][m].outcome = "none"
      BY <2>2 DEF CallInv, MutatorsSoFar, Mutators
    <3>3. \A m \in Mutators : m <= at[r] => RenderedBefore(r, m)' = RenderedBefore(r, m)
      BY <2>2, <2>3 DEF RenderedBefore, Mutators
    <3>4. \A m \in Mutators : m < at[r] => mutation[r][m].given = RenderedBefore(r, m)
      BY <3>1 DEF CallInv, ChainOf
    <3>5. mutation'[r][at[r]].given = RenderedBefore(r, at[r])
      BY <2>2, <2>3 DEF CallInv, MutatorsSoFar
    <3> QED
      BY <2>2, <2>3, <3>1, <3>2, <3>3, <3>4, <3>5 DEF ChainOf, Mutators
  <2>5. MutatorsSoFar(r)'
    BY <2>2 DEF MutatorsSoFar
  <2>6. ValidatorsSoFar(r)'
    <3>1. \A v \in Validators : verdict[r][v].vote = "none"
      BY <2>2 DEF CallInv, ValidatorsSoFar
    <3> QED
      BY <2>2, <3>1 DEF ValidatorsSoFar
  <2> QED
    BY <2>4, <2>5, <2>6 DEF CallInv
<1>2. CASE MutatorReturns(r)
  <2>1. PICK j \in Jobs, mutated \in BOOLEAN, n \in 0 .. MaxWarnings :
          /\ mutation' = [mutation EXCEPT ![r][at[r]] =
                 [given |-> job[r], made |-> j, said |-> n, mutated |-> mutated,
                  outcome |-> "ok"]]
          /\ job' = [job EXCEPT ![r] = j]
    BY <1>2 DEF MutatorReturns
  <2>2. /\ phase[r] = "mutators" /\ at[r] \in Mutators /\ at[r] \in Nat
        /\ phase'[r] = "mutators" /\ payload'[r] = payload[r] /\ verdict'[r] = verdict[r]
        /\ job'[r] = j /\ at'[r] = at[r] + 1 /\ errs'[r] = errs[r]
    BY <1>2, <2>1 DEF MutatorReturns, MutatorsDue, HandlerTypeOK, Mutators
  <2>3. /\ mutation'[r][at[r]].given = job[r] /\ mutation'[r][at[r]].made = j
        /\ mutation'[r][at[r]].outcome = "ok"
        /\ \A m \in Mutators : m # at[r] => mutation'[r][m] = mutation[r][m]
    BY <2>1, <2>2 DEF HandlerTypeOK
  <2>a. \A m \in Mutators : m < at[r] => mutation[r][m].outcome = "ok"
    BY <2>2 DEF CallInv, MutatorsSoFar
  <2>b. \A m \in Mutators : m > at[r] => mutation[r][m].outcome = "none"
    BY <2>2 DEF CallInv, MutatorsSoFar, Mutators
  <2>4. ChainOf(r)'
    <3>3. \A m \in Mutators : m <= at[r] => RenderedBefore(r, m)' = RenderedBefore(r, m)
      BY <2>2, <2>3 DEF RenderedBefore, Mutators
    <3>4. \A m \in Mutators : m < at[r] => mutation[r][m].given = RenderedBefore(r, m)
      BY <2>a DEF CallInv, ChainOf
    <3>5. mutation'[r][at[r]].given = RenderedBefore(r, at[r])
      BY <2>2, <2>3 DEF CallInv, MutatorsSoFar
    <3> QED
      BY <2>2, <2>3, <2>a, <2>b, <3>3, <3>4, <3>5 DEF ChainOf, Mutators
  <2>5. MutatorsSoFar(r)'
    <3>1. \A m \in Mutators : m >= at'[r] => mutation'[r][m].outcome = "none"
      BY <2>2, <2>3, <2>b DEF Mutators
    <3>2. \A m \in Mutators : m < at'[r] => mutation'[r][m].outcome = "ok"
      BY <2>2, <2>3, <2>a DEF Mutators
    <3>3. at'[r] <= NumMutators + 1
      BY <2>2 DEF Mutators
    <3>4. RenderedBefore(r, at[r])' = j
      BY <2>2, <2>3 DEF RenderedBefore, Mutators
    <3>5. job'[r] = RenderedBefore(r, at[r])' /\ job'[r] \in Jobs
      BY <2>2, <3>4
    <3> QED
      BY <2>2, <3>1, <3>2, <3>3, <3>5 DEF MutatorsSoFar
  <2>6. ValidatorsSoFar(r)'
    <3>1. \A v \in Validators : verdict[r][v].vote = "none"
      BY <2>2 DEF CallInv, ValidatorsSoFar
    <3> QED
      BY <2>2, <3>1 DEF ValidatorsSoFar
  <2> QED
    BY <2>4, <2>5, <2>6 DEF CallInv
<1>3. CASE MutatorsReturn(r)
  <2>1. /\ phase[r] = "mutators" /\ at[r] = NumMutators + 1 /\ phase'[r] = "mutated"
        /\ UNCHANGED <<payload, job, at, errs, mutation, verdict>>
    BY <1>3 DEF MutatorsReturn, HandlerTypeOK
  <2>2. \A m \in Mutators : mutation[r][m].outcome = "ok"
    BY <2>1 DEF CallInv, MutatorsSoFar, Mutators
  <2>3. MutatorsSoFar(r)'
    BY <2>1, <2>2 DEF CallInv, MutatorsSoFar, Rendered, RenderedBefore
  <2> QED
    BY <2>1, <2>3 DEF CallInv, ChainOf, ValidatorsSoFar, RenderedBefore
<1>4. CASE AdmissionValidators(r)
  <2>1. /\ phase[r] = "mutated" /\ phase'[r] = "validators" /\ at'[r] = 1
        /\ UNCHANGED <<payload, job, errs, mutation, verdict>>
    BY <1>4 DEF AdmissionValidators, HandlerTypeOK
  <2>2. MutatorsSoFar(r)'
    BY <2>1 DEF CallInv, MutatorsSoFar, Rendered, RenderedBefore
  <2>3. ValidatorsSoFar(r)'
    BY <2>1 DEF CallInv, ValidatorsSoFar, Validators
  <2> QED
    BY <2>1, <2>2, <2>3 DEF CallInv, ChainOf, RenderedBefore
<1>5. CASE CopyFails(r)
  <2>1. /\ phase[r] = "validators" /\ at[r] \in Validators
        /\ phase'[r] = "validators" /\ at'[r] = at[r] + 1
        /\ errs'[r] = Append(errs[r], [by |-> "handler", at |-> at[r]])
        /\ UNCHANGED <<payload, job, mutation>>
    BY <1>5 DEF CopyFails, ValidatorsDue, HandlerTypeOK
  <2>2. /\ verdict'[r][at[r]].vote = "copyfailed"
        /\ \A v \in Validators : v # at[r] => verdict'[r][v] = verdict[r][v]
    BY <1>5, <2>1 DEF CopyFails, HandlerTypeOK
  <2>3. errs'[r] # <<>>
    BY <2>1, <1>a
  <2>4. MutatorsSoFar(r)'
    BY <2>1 DEF CallInv, MutatorsSoFar, Rendered, RenderedBefore
  <2>5. ValidatorsSoFar(r)'
    <3>1. \A v \in Validators : verdict'[r][v].vote = "none" <=> v >= at'[r]
      BY <2>1, <2>2 DEF CallInv, ValidatorsSoFar, Validators
    <3>2. at'[r] <= NumValidators + 1
      BY <2>1 DEF Validators
    <3>3. \A v \in Validators :
             verdict'[r][v].vote \in {"accepts", "objects"} => verdict'[r][v].saw = job'[r]
      BY <2>1, <2>2 DEF CallInv, ValidatorsSoFar
    <3> QED
      BY <2>1, <2>3, <3>1, <3>2, <3>3 DEF ValidatorsSoFar
  <2> QED
    BY <2>1, <2>4, <2>5 DEF CallInv, ChainOf, RenderedBefore
<1>6. CASE ValidatorReturns(r)
  <2>1. PICK left \in Jobs, n \in 0 .. MaxWarnings, vote \in {"accepts", "objects"} :
          /\ verdict' = [verdict EXCEPT ![r][at[r]] =
                 [saw |-> job[r], said |-> n, vote |-> vote]]
          /\ job' = [job EXCEPT ![r] = AfterValidator(r, left)]
          /\ errs' = [errs EXCEPT ![r] = ErrorsAfter(r, vote)]
    BY <1>6 DEF ValidatorReturns
  <2>2. /\ phase[r] = "validators" /\ at[r] \in Validators
        /\ phase'[r] = "validators" /\ at'[r] = at[r] + 1
        /\ errs'[r] = ErrorsAfter(r, vote) /\ job'[r] = job[r]
        /\ UNCHANGED <<payload, mutation>>
    BY <1>6, <2>1 DEF ValidatorReturns, ValidatorsDue, HandlerTypeOK, AfterValidator
  <2>3. /\ verdict'[r][at[r]].vote = vote /\ verdict'[r][at[r]].saw = job[r]
        /\ \A v \in Validators : v # at[r] => verdict'[r][v] = verdict[r][v]
    BY <2>1, <2>2 DEF HandlerTypeOK
  <2>4. errs'[r] = <<>> => errs[r] = <<>> /\ vote = "accepts"
    <3>1. Append(errs[r], [by |-> "validator", at |-> at[r]]) # <<>>
      BY <1>a
    <3> QED
      BY <2>2, <3>1 DEF ErrorsAfter
  <2>5. MutatorsSoFar(r)'
    BY <2>2 DEF CallInv, MutatorsSoFar, Rendered, RenderedBefore
  <2>6. ValidatorsSoFar(r)'
    BY <2>2, <2>3, <2>4 DEF CallInv, ValidatorsSoFar, Validators
  <2> QED
    BY <2>2, <2>5, <2>6 DEF CallInv, ChainOf, RenderedBefore
<1>7. CASE ValidatorsReturn(r)
  <2>1. /\ phase[r] = "validators" /\ at[r] = NumValidators + 1 /\ phase'[r] = "judged"
        /\ UNCHANGED <<payload, job, at, errs, mutation, verdict>>
    BY <1>7 DEF ValidatorsReturn, HandlerTypeOK
  <2>2. \A v \in Validators : verdict[r][v].vote # "none"
    BY <2>1 DEF CallInv, ValidatorsSoFar, Validators
  <2>3. MutatorsSoFar(r)'
    BY <2>1 DEF CallInv, MutatorsSoFar, Rendered, RenderedBefore
  <2>4. ValidatorsSoFar(r)'
    BY <2>1, <2>2 DEF CallInv, ValidatorsSoFar
  <2> QED
    BY <2>1, <2>3, <2>4 DEF CallInv, ChainOf, RenderedBefore
<1> QED
  BY <1>1, <1>2, <1>3, <1>4, <1>5, <1>6, <1>7 DEF HandlerStep

\* In every reachable state every call satisfies its invariant.
THEOREM HandlerInvariant == HandlerSpec => [](HandlerTypeOK /\ HandlerInv)
<1>1. HandlerInit => HandlerInv
  <2> SUFFICES ASSUME HandlerInit, NEW r \in Requests PROVE CallInv(r)
    BY DEF HandlerInv
  <2>1. /\ \A m \in Mutators : mutation[r][m].outcome = "none"
        /\ \A v \in Validators : verdict[r][v].vote = "none"
        /\ phase[r] = "idle" /\ at[r] = 1 /\ job[r] = NoJob
    BY DEF HandlerInit, NotMutated, NotJudged
  <2> QED
    BY <2>1 DEF CallInv, ChainOf, MutatorsSoFar, ValidatorsSoFar
<1>2. HandlerTypeOK /\ HandlerInv /\ [HandlerNext]_handlerVars => HandlerInv'
  <2> SUFFICES ASSUME HandlerTypeOK, HandlerInv, [HandlerNext]_handlerVars,
                      NEW q \in Requests
               PROVE  CallInv(q)'
    BY DEF HandlerInv
  <2>0. CallInv(q)
    BY DEF HandlerInv
  <2>1. ASSUME NEW r \in Requests, NEW j \in JobOrNone, AdmissionMutators(r, j)
        PROVE  CallInv(q)'
    <3>1. CASE q = r
      BY <2>0, <2>1, <3>1, CallStarts
    <3>2. CASE q # r
      BY <2>0, <2>1, <3>2, CallFrame DEF AdmissionMutators, HandlerTypeOK
    <3> QED
      BY <3>1, <3>2
  <2>2. ASSUME NEW r \in Requests, HandlerStep(r)
        PROVE  CallInv(q)'
    <3>1. CASE q = r
      BY <2>0, <2>2, <3>1, CallStep
    <3>2. CASE q # r
      BY <2>0, <2>2, <3>2, StepFrame, CallFrame
    <3> QED
      BY <3>1, <3>2
  <2>3. CASE UNCHANGED handlerVars
    BY <2>0, <2>3, CallFrame DEF handlerVars, callVars
  <2> QED
    BY <2>1, <2>2, <2>3 DEF HandlerNext, HandlerIdle
<1> QED
  BY <1>1, <1>2, HandlerTypeCorrect, PTL DEF HandlerSpec

\* A judged call without error is unanimous about the job it returns.
THEOREM HandlerIsUnanimous == HandlerSpec => []NoErrorMeansUnanimous
<1>1. HandlerInv => NoErrorMeansUnanimous
  BY DEF HandlerInv, CallInv, ValidatorsSoFar, NoErrorMeansUnanimous, ApplyAdmissionControllers
<1> QED
  BY <1>1, HandlerInvariant, PTL

\* The mutators form a chain.
THEOREM HandlerChains == HandlerSpec => []MutatorsChain
<1>1. HandlerInv => MutatorsChain
  BY DEF HandlerInv, CallInv, MutatorsChain
<1> QED
  BY <1>1, HandlerInvariant, PTL

\* Validators see the final job only.
THEOREM HandlerShowsTheFinalJob == HandlerSpec => []ValidatorsSeeTheFinalJob
<1>1. HandlerTypeOK /\ HandlerInv => ValidatorsSeeTheFinalJob
  <2> SUFFICES ASSUME HandlerTypeOK, HandlerInv, NEW r \in Requests, NEW v \in Validators,
                      verdict[r][v].vote \in {"accepts", "objects"}
               PROVE  /\ verdict[r][v].saw = Rendered(r)
                      /\ \A m \in Mutators : mutation[r][m].outcome = "ok"
    BY DEF ValidatorsSeeTheFinalJob
  <2>1. phase[r] \in {"validators", "judged"}
    BY DEF HandlerInv, CallInv, ValidatorsSoFar, HandlerTypeOK, Phases
  <2> QED
    BY <2>1 DEF HandlerInv, CallInv, ValidatorsSoFar, MutatorsSoFar
<1> QED
  BY <1>1, HandlerInvariant, PTL

-----------------------------------------------------------------------------
(* Notices and counters *)

\* A controller that has said nothing is not named.
LEMMA SilentIsNotNamed ==
    ASSUME NEW s \in Seq(Notice), NEW S, NEW kind, NEW answers \in [S -> Mutations \cup Verdicts],
           NEW c \in S, NamesWarnings(s, kind, answers), answers[c].said = 0
    PROVE  \A k \in DOMAIN s : s[k].at # c
<1> DEFINE named == {k \in DOMAIN s : s[k].at = c}
<1>1. IsFiniteSet(1 .. Len(s))
  <2>1. 1 \in Int /\ Len(s) \in Int
    OBVIOUS
  <2> QED
    BY <2>1, FS_Interval
<1>2. named \subseteq 1 .. Len(s)
  OBVIOUS
<1>3. Cardinality(named) = 0
  BY DEF NamesWarnings
<1> HIDE DEF named
<1>4. IsFiniteSet(named)
  BY <1>1, <1>2, FS_Subset
<1>5. named = {}
  BY <1>3, <1>4, FS_EmptySet
<1> QED
  BY <1>5 DEF named

\* A controller that has not been called yet and now says n things: its
\* warnings go to the end and are named n times.
LEMMA WarningsAppended ==
    ASSUME NEW kind \in {"mutator", "validator"},
           NEW s \in Seq(Notice), NEW N \in Nat, NEW c \in 1 .. N, NEW n \in Nat,
           NEW a \in [1 .. N -> Mutations \cup Verdicts],
           NEW b \in [1 .. N -> Mutations \cup Verdicts],
           NamesWarnings(s, kind, a),
           \A d \in 1 .. N : d >= c => a[d].said = 0,
           b[c].said = n, \A d \in 1 .. N : d # c => b[d] = a[d]
    PROVE  NamesWarnings(s \o Said(kind, c, n), kind, b)
<1> DEFINE t == Said(kind, c, n)
           w == s \o t
<1>1. /\ \A k \in DOMAIN s : s[k].by = kind /\ s[k].at \in 1 .. N
      /\ \A i, k \in DOMAIN s : i < k => s[i].at <= s[k].at
      /\ \A d \in 1 .. N : Cardinality({k \in DOMAIN s : s[k].at = d}) = a[d].said
  BY DEF NamesWarnings
<1>2. \A k \in DOMAIN s : s[k].at < c
  <2>1. ASSUME NEW d \in 1 .. N, d >= c PROVE \A k \in DOMAIN s : s[k].at # d
    <3>1. a[d].said = 0
      BY <2>1
    <3> QED
      BY <3>1, SilentIsNotNamed
  <2>2. \A k \in DOMAIN s : s[k].at \in 1 .. N
    BY <1>1
  <2> QED
    BY <2>1, <2>2
<1> DEFINE x == [by |-> kind, at |-> c]
<1>3. /\ DOMAIN w = 1 .. Len(s) + n /\ DOMAIN s = 1 .. Len(s) /\ Len(s) \in Nat
      /\ \A k \in 1 .. Len(s) : w[k] = s[k]
      /\ \A k \in Len(s) + 1 .. Len(s) + n : w[k] = x
  <2>1. x \in Notice
    BY DEF Notice
  <2> HIDE DEF x
  <2>2. t = [k \in 1 .. n |-> x]
    BY DEF Said, Repeated, x
  <2>3. t \in Seq(Notice)
    BY <2>1, <2>2, IsASeq
  <2>4. Len(t) = n /\ \A k \in 1 .. n : t[k] = x
    BY <2>2, <2>3, LenProperties
  <2> HIDE DEF t
  <2>5. /\ s \o t \in Seq(Notice) /\ Len(s \o t) = Len(s) + Len(t)
        /\ \A k \in 1 .. Len(s) + Len(t) :
               (s \o t)[k] = IF k <= Len(s) THEN s[k] ELSE t[k - Len(s)]
    BY <2>3, ConcatProperties
  <2> QED
    BY <2>4, <2>5, LenProperties
<1>4. /\ DOMAIN w = 1 .. Len(s) + n /\ DOMAIN s = 1 .. Len(s) /\ Len(s) \in Nat
      /\ \A k \in 1 .. Len(s) : w[k] = s[k]
      /\ \A k \in Len(s) + 1 .. Len(s) + n : w[k].by = kind /\ w[k].at = c
  BY <1>3
<1> HIDE DEF t
<1> HIDE DEF w
<1>5. \A k \in DOMAIN w : w[k].by = kind /\ w[k].at \in 1 .. N
  BY <1>1, <1>4
<1>6. ASSUME NEW i \in DOMAIN w, NEW k \in DOMAIN w, i < k
      PROVE  w[i].at <= w[k].at
  <2>0. c \in Nat /\ \A l \in DOMAIN s : s[l].at \in Nat
    BY <1>1
  <2>1. CASE k \in 1 .. Len(s)
    BY <2>1, <1>1, <1>4, <1>6
  <2>2. CASE k > Len(s)
    <3>1. w[k].at = c
      BY <2>2, <1>4
    <3>2. w[i].at \in Nat /\ (w[i].at = c \/ w[i].at < c)
      BY <2>0, <1>2, <1>4
    <3> QED
      BY <2>0, <3>1, <3>2
  <2> QED
    BY <2>1, <2>2, <1>4
<1>7. ASSUME NEW d \in 1 .. N
      PROVE  Cardinality({k \in DOMAIN w : w[k].at = d}) = b[d].said
  <2>1. CASE d = c
    <3>1. {k \in DOMAIN w : w[k].at = d} = Len(s) + 1 .. Len(s) + n
      <4>1. \A k \in 1 .. Len(s) : w[k].at # d
        BY <2>1, <1>2, <1>4
      <4>2. \A k \in Len(s) + 1 .. Len(s) + n : w[k].at = d
        BY <2>1, <1>4
      <4>3. 1 .. Len(s) + n = (1 .. Len(s)) \cup (Len(s) + 1 .. Len(s) + n)
        BY <1>4
      <4> QED
        BY <1>4, <4>1, <4>2, <4>3
    <3>2. Cardinality(Len(s) + 1 .. Len(s) + n) = n
      <4>1. Len(s) + 1 \in Int /\ Len(s) + n \in Int
        BY <1>4
      <4>2. Cardinality(Len(s) + 1 .. Len(s) + n) =
               IF Len(s) + 1 > Len(s) + n THEN 0 ELSE (Len(s) + n) - (Len(s) + 1) + 1
        BY <4>1, FS_Interval
      <4> QED
        BY <1>4, <4>2
    <3> QED
      BY <2>1, <3>1, <3>2
  <2>2. CASE d # c
    <3>1. {k \in DOMAIN w : w[k].at = d} = {k \in DOMAIN s : s[k].at = d}
      BY <2>2, <1>4
    <3> QED
      BY <2>2, <3>1, <1>1
  <2> QED
    BY <2>1, <2>2
<1> QED
  BY <1>5, <1>6, <1>7 DEF NamesWarnings, w, t

\* An objection of a validator not asked before joins those before it.
LEMMA ObjectionAppended ==
    ASSUME NEW s \in Seq(Notice), NEW c \in Validators,
           NEW a \in [Validators -> Verdicts], NEW b \in [Validators -> Verdicts],
           NamesObjections(s, a),
           \A v \in Validators : v >= c => a[v].vote = "none",
           \A v \in Validators : v # c => b[v] = a[v],
           NEW kind \in {"validator", "handler"},
           b[c].vote = IF kind = "validator" THEN "objects" ELSE "copyfailed"
    PROVE  NamesObjections(Append(s, [by |-> kind, at |-> c]), b)
<1> DEFINE x == [by |-> kind, at |-> c]
           w == Append(s, x)
<1>0. c \in Nat /\ x \in Notice
  BY DEF Notice, Validators
<1>1. /\ DOMAIN w = 1 .. Len(s) + 1 /\ DOMAIN s = 1 .. Len(s) /\ Len(s) \in Nat
      /\ \A k \in 1 .. Len(s) : w[k] = s[k]
      /\ w[Len(s) + 1] = x
  BY <1>0
<1>2. ASSUME NEW k \in DOMAIN s PROVE s[k].at \in Validators /\ s[k].at < c
  <2>1. s[k] \in {[by |-> "validator", at |-> v] :
                      v \in {u \in Validators : a[u].vote = "objects"}}
               \cup {[by |-> "handler", at |-> v] :
                      v \in {u \in Validators : a[u].vote = "copyfailed"}}
    BY DEF NamesObjections
  <2>2. s[k].at \in Validators /\ a[s[k].at].vote # "none"
    BY <2>1
  <2>3. ~(s[k].at >= c)
    BY <2>2
  <2> QED
    BY <1>0, <2>2, <2>3 DEF Validators
<1> HIDE DEF w, x
<1>3. {w[k] : k \in DOMAIN w} = {s[k] : k \in DOMAIN s} \cup {x}
  BY <1>1
<1>4. \A i, k \in DOMAIN w : i < k => w[i].at < w[k].at
  BY <1>1, <1>2 DEF NamesObjections, x
<1> QED
  BY <1>3, <1>4 DEF NamesObjections, w, x

\* One more call meets the occasion.
LEMMA CallerCounted ==
    ASSUME NEW counter, NEW S, Counts(counter, S), NEW r, r \notin S
    PROVE  Counts(counter + 1, S \cup {r})
BY FS_AddElement DEF Counts

\* A call gives n more warnings.
LEMMA WarningsCounted ==
    ASSUME NEW counter, NEW S, Counts(counter, S), NEW r, NEW n \in Nat,
           S \cap ({r} \X (1 .. n)) = {}
    PROVE  Counts(counter + n, S \cup ({r} \X (1 .. n)))
<1> DEFINE T == {r} \X (1 .. n)
<1>1. counter \in Nat
  BY FS_CardinalityType DEF Counts
<1>2. IsFiniteSet({r}) /\ Cardinality({r}) = 1
  BY FS_Singleton
<1>3. IsFiniteSet(1 .. n) /\ Cardinality(1 .. n) = n
  <2>1. 1 \in Int /\ n \in Int
    OBVIOUS
  <2> QED
    BY <2>1, FS_Interval
<1>4. IsFiniteSet(T) /\ Cardinality(T) = n
  <2>1. IsFiniteSet(T) /\ Cardinality(T) = Cardinality({r}) * Cardinality(1 .. n)
    BY <1>2, <1>3, FS_Product
  <2> QED
    BY <2>1, <1>2, <1>3
<1>5. Cardinality(S \cap T) = 0
  BY FS_EmptySet
<1> HIDE DEF T
<1>6. /\ IsFiniteSet(S \cup T)
      /\ Cardinality(S \cup T) = Cardinality(S) + Cardinality(T) - Cardinality(S \cap T)
  BY <1>4, FS_Union DEF Counts
<1> QED
  BY <1>1, <1>4, <1>5, <1>6 DEF Counts, T

\* Mutator c answers call r with e: exactly that is counted.
LEMMA MutatorCounted ==
    ASSUME HandlerTypeOK, MetricsCountCalls, NEW r \in Requests, NEW c \in Mutators,
           mutation[r][c] = NotMutated, NEW e \in Mutations,
           mutation' = [mutation EXCEPT ![r][c] = e], verdict' = verdict,
           metrics' \in Metrics,
           \A m \in Mutators :
              /\ metrics'.mutatorErrors[m] = metrics.mutatorErrors[m]
                    + (IF m = c /\ e.outcome \in {"error", "nil"} THEN 1 ELSE 0)
              /\ metrics'.mutatorMutations[m] = metrics.mutatorMutations[m]
                    + (IF m = c /\ e.mutated THEN 1 ELSE 0)
              /\ metrics'.mutatorWarnings[m] = metrics.mutatorWarnings[m]
                    + (IF m = c THEN e.said ELSE 0),
           metrics'.validatorErrors = metrics.validatorErrors,
           metrics'.validatorWarnings = metrics.validatorWarnings
    PROVE  MetricsCountCalls'
<1> USE HandlerAssumption
<1>1. \A q \in Requests, m \in Mutators :
         mutation'[q][m] = IF q = r /\ m = c THEN e ELSE mutation[q][m]
  BY DEF HandlerTypeOK
<1>2. e.said \in 0 .. MaxWarnings /\ e.said \in Nat /\ e.mutated \in BOOLEAN
  BY DEF Mutations
<1>3. ASSUME NEW m \in Mutators
      PROVE  Counts(metrics.mutatorErrors[m], MutatorErrors(m))'
  <2>0. Counts(metrics.mutatorErrors[m], MutatorErrors(m)) /\ metrics.mutatorErrors[m] \in Nat
    BY DEF MetricsCountCalls, HandlerTypeOK, Metrics
  <2>1. CASE m = c
    <3>1. r \notin MutatorErrors(m)
      BY <2>1 DEF MutatorErrors, NotMutated
    <3>2. MutatorErrors(m)' = IF e.outcome \in {"error", "nil"} THEN MutatorErrors(m) \cup {r} ELSE MutatorErrors(m)
      BY <1>1, <1>2, <2>1, <3>1 DEF MutatorErrors
    <3>3. CASE e.outcome \in {"error", "nil"}
      <4>1. Counts(metrics.mutatorErrors[m] + 1, MutatorErrors(m) \cup {r})
        BY <2>0, <3>1, CallerCounted
      <4> QED
        BY <2>1, <3>2, <3>3, <4>1
    <3>4. CASE ~(e.outcome \in {"error", "nil"})
      BY <2>0, <2>1, <3>2, <3>4
    <3> QED
      BY <3>3, <3>4
  <2>2. CASE m # c
    <3>1. MutatorErrors(m)' = MutatorErrors(m)
      BY <1>1, <2>2 DEF MutatorErrors
    <3>2. metrics'.mutatorErrors[m] = metrics.mutatorErrors[m]
      BY <2>0, <2>2
    <3> QED
      BY <2>0, <3>1, <3>2
  <2> QED
    BY <2>1, <2>2
<1>4. ASSUME NEW m \in Mutators
      PROVE  Counts(metrics.mutatorMutations[m], MutatorMutations(m))'
  <2>0. Counts(metrics.mutatorMutations[m], MutatorMutations(m)) /\ metrics.mutatorMutations[m] \in Nat
    BY DEF MetricsCountCalls, HandlerTypeOK, Metrics
  <2>1. CASE m = c
    <3>1. r \notin MutatorMutations(m)
      BY <2>1 DEF MutatorMutations, NotMutated
    <3>2. MutatorMutations(m)' = IF e.mutated THEN MutatorMutations(m) \cup {r} ELSE MutatorMutations(m)
      BY <1>1, <1>2, <2>1, <3>1 DEF MutatorMutations
    <3>3. CASE e.mutated
      <4>1. Counts(metrics.mutatorMutations[m] + 1, MutatorMutations(m) \cup {r})
        BY <2>0, <3>1, CallerCounted
      <4> QED
        BY <2>1, <3>2, <3>3, <4>1
    <3>4. CASE ~(e.mutated)
      BY <2>0, <2>1, <3>2, <3>4
    <3> QED
      BY <3>3, <3>4
  <2>2. CASE m # c
    <3>1. MutatorMutations(m)' = MutatorMutations(m)
      BY <1>1, <2>2 DEF MutatorMutations
    <3>2. metrics'.mutatorMutations[m] = metrics.mutatorMutations[m]
      BY <2>0, <2>2
    <3> QED
      BY <2>0, <3>1, <3>2
  <2> QED
    BY <2>1, <2>2
<1>5. ASSUME NEW m \in Mutators
      PROVE  Counts(metrics.mutatorWarnings[m], MutatorWarnings(m))'
  <2>0. Counts(metrics.mutatorWarnings[m], MutatorWarnings(m)) /\ metrics.mutatorWarnings[m] \in Nat
    BY DEF MetricsCountCalls, HandlerTypeOK, Metrics
  <2>1. CASE m = c
    <3>1. MutatorWarnings(m) \cap ({r} \X (1 .. e.said)) = {}
      BY <2>1 DEF MutatorWarnings, NotMutated
    <3>2. MutatorWarnings(m)' = MutatorWarnings(m) \cup ({r} \X (1 .. e.said))
      <4>1. \A o \in Requests \X (1 .. MaxWarnings) :
               o[2] <= mutation'[o[1]][m].said <=>
                  o[2] <= mutation[o[1]][m].said \/ o \in {r} \X (1 .. e.said)
        BY <1>1, <1>2, <2>1 DEF NotMutated
      <4>2. {r} \X (1 .. e.said) \subseteq Requests \X (1 .. MaxWarnings)
        BY <1>2
      <4> QED
        BY <4>1, <4>2 DEF MutatorWarnings
    <3>3. Counts(metrics.mutatorWarnings[m] + e.said, MutatorWarnings(m) \cup ({r} \X (1 .. e.said)))
      BY <1>2, <2>0, <3>1, WarningsCounted
    <3> QED
      BY <2>1, <3>2, <3>3
  <2>2. CASE m # c
    <3>1. MutatorWarnings(m)' = MutatorWarnings(m)
      BY <1>1, <2>2 DEF MutatorWarnings
    <3>2. metrics'.mutatorWarnings[m] = metrics.mutatorWarnings[m]
      BY <2>0, <2>2
    <3> QED
      BY <2>0, <3>1, <3>2
  <2> QED
    BY <2>1, <2>2
<1> QED
  BY <1>3, <1>4, <1>5
  DEF MetricsCountCalls, ValidatorErrors, ValidatorWarnings

\* Validator c answers call r with e: exactly that is counted.
LEMMA ValidatorCounted ==
    ASSUME HandlerTypeOK, MetricsCountCalls, NEW r \in Requests, NEW c \in Validators,
           verdict[r][c] = NotJudged, NEW e \in Verdicts,
           verdict' = [verdict EXCEPT ![r][c] = e], mutation' = mutation,
           metrics' \in Metrics,
           \A m \in Validators :
              /\ metrics'.validatorErrors[m] = metrics.validatorErrors[m]
                    + (IF m = c /\ e.vote = "objects" THEN 1 ELSE 0)
              /\ metrics'.validatorWarnings[m] = metrics.validatorWarnings[m]
                    + (IF m = c THEN e.said ELSE 0),
           metrics'.mutatorErrors = metrics.mutatorErrors,
           metrics'.mutatorMutations = metrics.mutatorMutations,
           metrics'.mutatorWarnings = metrics.mutatorWarnings
    PROVE  MetricsCountCalls'
<1> USE HandlerAssumption
<1>1. \A q \in Requests, m \in Validators :
         verdict'[q][m] = IF q = r /\ m = c THEN e ELSE verdict[q][m]
  BY DEF HandlerTypeOK
<1>2. e.said \in 0 .. MaxWarnings /\ e.said \in Nat
  BY DEF Verdicts
<1>3. ASSUME NEW m \in Validators
      PROVE  Counts(metrics.validatorErrors[m], ValidatorErrors(m))'
  <2>0. Counts(metrics.validatorErrors[m], ValidatorErrors(m)) /\ metrics.validatorErrors[m] \in Nat
    BY DEF MetricsCountCalls, HandlerTypeOK, Metrics
  <2>1. CASE m = c
    <3>1. r \notin ValidatorErrors(m)
      BY <2>1 DEF ValidatorErrors, NotJudged
    <3>2. ValidatorErrors(m)' = IF e.vote = "objects" THEN ValidatorErrors(m) \cup {r} ELSE ValidatorErrors(m)
      BY <1>1, <1>2, <2>1, <3>1 DEF ValidatorErrors
    <3>3. CASE e.vote = "objects"
      <4>1. Counts(metrics.validatorErrors[m] + 1, ValidatorErrors(m) \cup {r})
        BY <2>0, <3>1, CallerCounted
      <4> QED
        BY <2>1, <3>2, <3>3, <4>1
    <3>4. CASE ~(e.vote = "objects")
      BY <2>0, <2>1, <3>2, <3>4
    <3> QED
      BY <3>3, <3>4
  <2>2. CASE m # c
    <3>1. ValidatorErrors(m)' = ValidatorErrors(m)
      BY <1>1, <2>2 DEF ValidatorErrors
    <3>2. metrics'.validatorErrors[m] = metrics.validatorErrors[m]
      BY <2>0, <2>2
    <3> QED
      BY <2>0, <3>1, <3>2
  <2> QED
    BY <2>1, <2>2
<1>4. ASSUME NEW m \in Validators
      PROVE  Counts(metrics.validatorWarnings[m], ValidatorWarnings(m))'
  <2>0. Counts(metrics.validatorWarnings[m], ValidatorWarnings(m)) /\ metrics.validatorWarnings[m] \in Nat
    BY DEF MetricsCountCalls, HandlerTypeOK, Metrics
  <2>1. CASE m = c
    <3>1. ValidatorWarnings(m) \cap ({r} \X (1 .. e.said)) = {}
      BY <2>1 DEF ValidatorWarnings, NotJudged
    <3>2. ValidatorWarnings(m)' = ValidatorWarnings(m) \cup ({r} \X (1 .. e.said))
      <4>1. \A o \in Requests \X (1 .. MaxWarnings) :
               o[2] <= verdict'[o[1]][m].said <=>
                  o[2] <= verdict[o[1]][m].said \/ o \in {r} \X (1 .. e.said)
        BY <1>1, <1>2, <2>1 DEF NotJudged
      <4>2. {r} \X (1 .. e.said) \subseteq Requests \X (1 .. MaxWarnings)
        BY <1>2
      <4> QED
        BY <4>1, <4>2 DEF ValidatorWarnings
    <3>3. Counts(metrics.validatorWarnings[m] + e.said, ValidatorWarnings(m) \cup ({r} \X (1 .. e.said)))
      BY <1>2, <2>0, <3>1, WarningsCounted
    <3> QED
      BY <2>1, <3>2, <3>3
  <2>2. CASE m # c
    <3>1. ValidatorWarnings(m)' = ValidatorWarnings(m)
      BY <1>1, <2>2 DEF ValidatorWarnings
    <3>2. metrics'.validatorWarnings[m] = metrics.validatorWarnings[m]
      BY <2>0, <2>2
    <3> QED
      BY <2>0, <3>1, <3>2
  <2> QED
    BY <2>1, <2>2
<1> QED
  BY <1>3, <1>4
  DEF MetricsCountCalls, MutatorErrors, MutatorMutations, MutatorWarnings

-----------------------------------------------------------------------------
(* Reports: errors, warnings and counters *)

\* What NoticesInv says of q depends on q's own entries only.
LEMMA NoticesFrame ==
    ASSUME NEW q \in Requests, NoticesInv(q),
           phase'[q] = phase[q], errs'[q] = errs[q],
           mutWarnings'[q] = mutWarnings[q], valWarnings'[q] = valWarnings[q],
           mutation'[q] = mutation[q], verdict'[q] = verdict[q]
    PROVE  NoticesInv(q)'
BY DEF NoticesInv

\* At first nothing has been reported and nothing counted.
LEMMA ReportInit == HandlerInit => ReportInv
<1> SUFFICES ASSUME HandlerInit PROVE ReportInv
  OBVIOUS
<1> USE HandlerAssumption
<1>1. ASSUME NEW r \in Requests PROVE NoticesInv(r)
  <2>1. /\ phase[r] = "idle" /\ errs[r] = <<>> /\ mutWarnings[r] = <<>> /\ valWarnings[r] = <<>>
        /\ mutation[r] = [m \in Mutators |-> NotMutated]
        /\ verdict[r] = [v \in Validators |-> NotJudged]
    BY DEF HandlerInit
  <2>2. \A c : {k \in DOMAIN <<>> : <<>>[k].at = c} = {}
    OBVIOUS
  <2>3. \A c : Cardinality({k \in DOMAIN <<>> : <<>>[k].at = c}) = 0
    BY <2>2, FS_EmptySet
  <2>4. NamesWarnings(<<>>, "mutator", mutation[r])
    BY <2>1, <2>3 DEF NamesWarnings, NotMutated
  <2>5. NamesWarnings(<<>>, "validator", verdict[r])
    BY <2>1, <2>3 DEF NamesWarnings, NotJudged
  <2>6. NamesObjections(<<>>, verdict[r])
    BY <2>1 DEF NamesObjections, NotJudged
  <2> QED
    BY <2>1, <2>4, <2>5, <2>6 DEF NoticesInv
<1>2. MetricsCountCalls
  <2>1. /\ \A r \in Requests, m \in Mutators : mutation[r][m] = NotMutated
        /\ \A r \in Requests, v \in Validators : verdict[r][v] = NotJudged
    BY DEF HandlerInit
  <2>2. /\ \A m \in Mutators : MutatorErrors(m) = {} /\ MutatorMutations(m) = {}
        /\ \A v \in Validators : ValidatorErrors(v) = {}
    BY <2>1 DEF MutatorErrors, MutatorMutations, ValidatorErrors, NotMutated, NotJudged
  <2>3. /\ \A m \in Mutators : MutatorWarnings(m) = {}
        /\ \A v \in Validators : ValidatorWarnings(v) = {}
    BY <2>1 DEF MutatorWarnings, ValidatorWarnings, NotMutated, NotJudged
  <2>4. Counts(0, {})
    BY FS_EmptySet DEF Counts
  <2> QED
    BY <2>2, <2>3, <2>4 DEF MetricsCountCalls, HandlerInit, NewJobHandler
<1> QED
  BY <1>1, <1>2 DEF ReportInv

\* A step that calls no controller counts nothing.
LEMMA CountersFrame ==
    ASSUME MetricsCountCalls, UNCHANGED <<mutation, verdict, metrics>>
    PROVE  MetricsCountCalls'
BY DEF MetricsCountCalls, MutatorErrors, MutatorMutations, MutatorWarnings,
       ValidatorErrors, ValidatorWarnings

\* Every step of the handler counts what its controller did, once.
LEMMA CountersStep ==
    ASSUME HandlerTypeOK, NEW r \in Requests, CallInv(r), NoticesInv(r),
           MetricsCountCalls, HandlerStep(r)
    PROVE  MetricsCountCalls'
<1> USE HandlerAssumption
<1>t. metrics' \in Metrics /\ metrics \in Metrics
  BY StepType DEF HandlerTypeOK
<1>m. ASSUME MutatorsDue(r) PROVE at[r] \in Mutators /\ mutation[r][at[r]] = NotMutated
  <2>1. phase[r] = "mutators" /\ at[r] \in Mutators /\ at[r] >= at[r]
    BY <1>m DEF MutatorsDue, Mutators
  <2> QED
    BY <2>1 DEF CallInv, MutatorsSoFar, NoticesInv
<1>v. ASSUME ValidatorsDue(r) PROVE at[r] \in Validators /\ verdict[r][at[r]] = NotJudged
  <2>1. phase[r] = "validators" /\ at[r] \in Validators /\ at[r] >= at[r]
    BY <1>v DEF ValidatorsDue, Validators
  <2> QED
    BY <2>1 DEF CallInv, ValidatorsSoFar, NoticesInv
<1>j. NoJob \in JobOrNone /\ job[r] \in JobOrNone /\ \A j \in Jobs : j \in JobOrNone
  BY DEF HandlerTypeOK, JobOrNone
<1>n. /\ \A m \in Mutators : /\ metrics.mutatorErrors[m] \in Nat
                             /\ metrics.mutatorMutations[m] \in Nat
                             /\ metrics.mutatorWarnings[m] \in Nat
      /\ \A v \in Validators : /\ metrics.validatorErrors[v] \in Nat
                               /\ metrics.validatorWarnings[v] \in Nat
  BY <1>t DEF Metrics
<1>1. CASE MutatorFails(r)
  <2>1. at[r] \in Mutators /\ mutation[r][at[r]] = NotMutated /\ verdict' = verdict
    BY <1>1, <1>m DEF MutatorFails
  <2>2. PICK outcome \in {"error", "nil"} : mutation' = [mutation EXCEPT ![r][at[r]] =
              [given |-> job[r], made |-> NoJob, said |-> 0, mutated |-> FALSE,
               outcome |-> outcome]]
    BY <1>1 DEF MutatorFails
  <2> DEFINE e == [given |-> job[r], made |-> NoJob, said |-> 0, mutated |-> FALSE,
                   outcome |-> outcome]
  <2>3. e \in Mutations /\ e.outcome \in {"error", "nil"} /\ e.mutated = FALSE /\ e.said = 0
    BY <1>j DEF Mutations
  <2>4. mutation' = [mutation EXCEPT ![r][at[r]] = e]
    BY <2>2
  <2> HIDE DEF e
  <2>5. metrics' = [metrics EXCEPT !.mutatorErrors[at[r]] = @ + 1]
    BY <1>1 DEF MutatorFails, MutatorErrorCounted
  <2>6. \A m \in Mutators :
           /\ metrics'.mutatorErrors[m] = metrics.mutatorErrors[m]
                 + (IF m = at[r] /\ e.outcome \in {"error", "nil"} THEN 1 ELSE 0)
           /\ metrics'.mutatorMutations[m] = metrics.mutatorMutations[m]
                 + (IF m = at[r] /\ e.mutated THEN 1 ELSE 0)
           /\ metrics'.mutatorWarnings[m] = metrics.mutatorWarnings[m]
                 + (IF m = at[r] THEN e.said ELSE 0)
    BY <1>t, <1>n, <2>1, <2>3, <2>5 DEF Metrics
  <2>7. /\ metrics'.validatorErrors = metrics.validatorErrors
        /\ metrics'.validatorWarnings = metrics.validatorWarnings
    BY <1>t, <2>5 DEF Metrics
  <2> QED
    BY <1>t, <2>1, <2>3, <2>4, <2>6, <2>7, MutatorCounted
<1>2. CASE MutatorReturns(r)
  <2>1. at[r] \in Mutators /\ mutation[r][at[r]] = NotMutated /\ verdict' = verdict
    BY <1>2, <1>m DEF MutatorReturns
  <2>2. PICK j \in Jobs, mutated \in BOOLEAN, n \in 0 .. MaxWarnings :
          /\ mutation' = [mutation EXCEPT ![r][at[r]] =
                 [given |-> job[r], made |-> j, said |-> n, mutated |-> mutated,
                  outcome |-> "ok"]]
          /\ job' = [job EXCEPT ![r] = j]
          /\ mutWarnings' = [mutWarnings EXCEPT ![r] = @ \o Said("mutator", at[r], n)]
          /\ metrics' = [metrics EXCEPT
                 !.mutatorMutations[at[r]] = @ + (IF mutated THEN 1 ELSE 0),
                 !.mutatorWarnings[at[r]] = @ + n]
    BY <1>2 DEF MutatorReturns
  <2> DEFINE e == [given |-> job[r], made |-> j, said |-> n, mutated |-> mutated,
                   outcome |-> "ok"]
  <2>3. e \in Mutations /\ e.outcome = "ok" /\ e.mutated = mutated /\ e.said = n
    BY <1>j DEF Mutations
  <2>4. mutation' = [mutation EXCEPT ![r][at[r]] = e]
    BY <2>2
  <2> HIDE DEF e
  <2>5. /\ metrics'.mutatorErrors = metrics.mutatorErrors
        /\ metrics'.mutatorMutations =
              [metrics.mutatorMutations EXCEPT ![at[r]] = @ + (IF mutated THEN 1 ELSE 0)]
        /\ metrics'.mutatorWarnings = [metrics.mutatorWarnings EXCEPT ![at[r]] = @ + n]
        /\ metrics'.validatorErrors = metrics.validatorErrors
        /\ metrics'.validatorWarnings = metrics.validatorWarnings
    BY <1>t, <2>2 DEF Metrics
  <2>6. \A m \in Mutators :
           /\ metrics'.mutatorErrors[m] = metrics.mutatorErrors[m]
                 + (IF m = at[r] /\ e.outcome \in {"error", "nil"} THEN 1 ELSE 0)
           /\ metrics'.mutatorMutations[m] = metrics.mutatorMutations[m]
                 + (IF m = at[r] /\ e.mutated THEN 1 ELSE 0)
           /\ metrics'.mutatorWarnings[m] = metrics.mutatorWarnings[m]
                 + (IF m = at[r] THEN e.said ELSE 0)
    BY <1>t, <1>n, <2>1, <2>3, <2>5 DEF Metrics
  <2> QED
    <3>1. /\ metrics'.validatorErrors = metrics.validatorErrors
          /\ metrics'.validatorWarnings = metrics.validatorWarnings
      BY <2>5
    <3> QED
      BY <1>t, <2>1, <2>3, <2>4, <2>6, <3>1, MutatorCounted
<1>3. CASE MutatorsReturn(r) \/ AdmissionValidators(r) \/ ValidatorsReturn(r)
  BY <1>3, CountersFrame DEF MutatorsReturn, AdmissionValidators, ValidatorsReturn
<1>5. CASE CopyFails(r)
  <2>1. at[r] \in Validators /\ verdict[r][at[r]] = NotJudged
    BY <1>5, <1>v DEF CopyFails
  <2> DEFINE e == [saw |-> NoJob, said |-> 0, vote |-> "copyfailed"]
  <2>3. e \in Verdicts /\ e.vote = "copyfailed" /\ e.said = 0
    BY <1>j DEF Verdicts
  <2>4. verdict' = [verdict EXCEPT ![r][at[r]] = e] /\ mutation' = mutation
    BY <1>5 DEF CopyFails
  <2> HIDE DEF e
  <2>5. metrics' = metrics
    BY <1>5 DEF CopyFails
  <2>6. \A m \in Validators :
           /\ metrics'.validatorErrors[m] = metrics.validatorErrors[m]
                 + (IF m = at[r] /\ e.vote = "objects" THEN 1 ELSE 0)
           /\ metrics'.validatorWarnings[m] = metrics.validatorWarnings[m]
                 + (IF m = at[r] THEN e.said ELSE 0)
    BY <1>n, <2>3, <2>5
  <2> QED
    BY <1>t, <2>1, <2>3, <2>4, <2>5, <2>6, ValidatorCounted
<1>6. CASE ValidatorReturns(r)
  <2>1. at[r] \in Validators /\ verdict[r][at[r]] = NotJudged /\ mutation' = mutation
    BY <1>6, <1>v DEF ValidatorReturns
  <2>2. PICK n \in 0 .. MaxWarnings, vote \in {"accepts", "objects"} :
          /\ verdict' = [verdict EXCEPT ![r][at[r]] =
                 [saw |-> job[r], said |-> n, vote |-> vote]]
          /\ metrics' = [metrics EXCEPT
                 !.validatorErrors[at[r]] = @ + (IF vote = "objects" THEN 1 ELSE 0),
                 !.validatorWarnings[at[r]] = @ + n]
    BY <1>6 DEF ValidatorReturns
  <2> DEFINE e == [saw |-> job[r], said |-> n, vote |-> vote]
  <2>3. e \in Verdicts /\ e.vote = vote /\ e.said = n
    BY <1>j DEF Verdicts
  <2>4. verdict' = [verdict EXCEPT ![r][at[r]] = e]
    BY <2>2
  <2> HIDE DEF e
  <2>5. /\ metrics'.mutatorErrors = metrics.mutatorErrors
        /\ metrics'.mutatorMutations = metrics.mutatorMutations
        /\ metrics'.mutatorWarnings = metrics.mutatorWarnings
        /\ metrics'.validatorErrors =
              [metrics.validatorErrors EXCEPT ![at[r]] = @ + (IF vote = "objects" THEN 1 ELSE 0)]
        /\ metrics'.validatorWarnings = [metrics.validatorWarnings EXCEPT ![at[r]] = @ + n]
    BY <1>t, <2>2 DEF Metrics
  <2>6. \A m \in Validators :
           /\ metrics'.validatorErrors[m] = metrics.validatorErrors[m]
                 + (IF m = at[r] /\ e.vote = "objects" THEN 1 ELSE 0)
           /\ metrics'.validatorWarnings[m] = metrics.validatorWarnings[m]
                 + (IF m = at[r] THEN e.said ELSE 0)
    BY <1>t, <1>n, <2>1, <2>3, <2>5 DEF Metrics
  <2> QED
    <3>1. /\ metrics'.mutatorErrors = metrics.mutatorErrors
          /\ metrics'.mutatorMutations = metrics.mutatorMutations
          /\ metrics'.mutatorWarnings = metrics.mutatorWarnings
      BY <2>5
    <3> QED
      BY <1>t, <2>1, <2>3, <2>4, <2>6, <3>1, ValidatorCounted
<1> QED
  BY <1>1, <1>2, <1>3, <1>5, <1>6 DEF HandlerStep

\* Handing a job to the handler reports nothing yet.
LEMMA NoticesStart ==
    ASSUME HandlerTypeOK, NEW r \in Requests, NoticesInv(r),
           NEW j \in JobOrNone, AdmissionMutators(r, j)
    PROVE  NoticesInv(r)'
<1>1. /\ phase[r] = "idle" /\ phase'[r] = (IF j = NoJob THEN "refused" ELSE "mutators")
      /\ j # NoJob => errs' = errs
      /\ UNCHANGED <<mutWarnings, valWarnings, mutation, verdict>>
  BY DEF AdmissionMutators, HandlerTypeOK
<1> QED
  BY <1>1 DEF NoticesInv

\* Every step of the handler keeps the reports of the call it serves.
LEMMA NoticesStep ==
    ASSUME HandlerTypeOK, NEW r \in Requests, CallInv(r), NoticesInv(r), HandlerStep(r)
    PROVE  NoticesInv(r)'
<1> USE HandlerAssumption
<1>t. HandlerTypeOK'
  BY StepType
<1>a. /\ mutation[r] \in [Mutators -> Mutations] /\ verdict[r] \in [Validators -> Verdicts]
      /\ mutation'[r] \in [Mutators -> Mutations] /\ verdict'[r] \in [Validators -> Verdicts]
      /\ errs[r] \in Seq(Notice) /\ mutWarnings[r] \in Seq(Notice)
      /\ valWarnings[r] \in Seq(Notice)
  BY <1>t DEF HandlerTypeOK
<1>b. /\ mutation[r] \in [1 .. NumMutators -> Mutations \cup Verdicts]
      /\ mutation'[r] \in [1 .. NumMutators -> Mutations \cup Verdicts]
      /\ verdict[r] \in [1 .. NumValidators -> Mutations \cup Verdicts]
      /\ verdict'[r] \in [1 .. NumValidators -> Mutations \cup Verdicts]
  BY <1>a DEF Mutators, Validators
<1>m. ASSUME phase[r] = "mutators"
      PROVE  /\ \A m \in Mutators : m >= at[r] => mutation[r][m].said = 0
             /\ \A v \in Validators : verdict[r][v] = NotJudged
  <2>1. \A m \in Mutators : m >= at[r] => mutation[r][m] = NotMutated
    BY <1>m DEF CallInv, MutatorsSoFar, NoticesInv
  <2>2. \A v \in Validators : verdict[r][v] = NotJudged
    BY <1>m DEF CallInv, ValidatorsSoFar, NoticesInv
  <2> QED
    BY <2>1, <2>2 DEF NotMutated
<1>v. ASSUME phase[r] = "validators"
      PROVE  /\ \A v \in Validators : v >= at[r] => verdict[r][v].said = 0
             /\ \A v \in Validators : v >= at[r] => verdict[r][v].vote = "none"
  <2>1. \A v \in Validators : v >= at[r] => verdict[r][v] = NotJudged
    BY <1>v DEF CallInv, ValidatorsSoFar, NoticesInv
  <2> QED
    BY <2>1 DEF NotJudged
<1>1. CASE MutatorFails(r)
  <2>1. /\ phase[r] = "mutators" /\ at[r] \in Mutators /\ phase'[r] = "refused"
        /\ UNCHANGED <<verdict, valWarnings>>
    BY <1>1 DEF MutatorFails, MutatorsDue, HandlerTypeOK
  <2>2. PICK outcome \in {"error", "nil"} : mutation' = [mutation EXCEPT ![r][at[r]] =
              [given |-> job[r], made |-> NoJob, said |-> 0, mutated |-> FALSE,
               outcome |-> outcome]]
    BY <1>1 DEF MutatorFails
  <2>3. \A m \in Mutators : mutation'[r][m].outcome = "none" => mutation'[r][m] = NotMutated
    BY <2>1, <2>2 DEF NoticesInv, HandlerTypeOK
  <2> QED
    BY <2>1, <2>3 DEF NoticesInv
<1>2. CASE MutatorReturns(r)
  <2>1. PICK j \in Jobs, mutated \in BOOLEAN, n \in 0 .. MaxWarnings :
          /\ mutation' = [mutation EXCEPT ![r][at[r]] =
                 [given |-> job[r], made |-> j, said |-> n, mutated |-> mutated,
                  outcome |-> "ok"]]
          /\ mutWarnings' = [mutWarnings EXCEPT ![r] = @ \o Said("mutator", at[r], n)]
    BY <1>2 DEF MutatorReturns
  <2>2. /\ phase[r] = "mutators" /\ at[r] \in Mutators /\ phase' = phase
        /\ UNCHANGED <<verdict, valWarnings, errs>>
    BY <1>2 DEF MutatorReturns, MutatorsDue
  <2>3. /\ mutation'[r][at[r]].outcome = "ok" /\ mutation'[r][at[r]].said = n
        /\ \A m \in Mutators : m # at[r] => mutation'[r][m] = mutation[r][m]
    BY <2>1, <2>2 DEF HandlerTypeOK
  <2>4. mutWarnings'[r] = mutWarnings[r] \o Said("mutator", at[r], n)
    BY <2>1 DEF HandlerTypeOK
  <2>5. NamesWarnings(mutWarnings'[r], "mutator", mutation'[r])
    <3>1. NamesWarnings(mutWarnings[r], "mutator", mutation[r])
      BY <2>2 DEF NoticesInv
    <3>2. n \in Nat /\ at[r] \in 1 .. NumMutators
      BY <2>2 DEF Mutators
    <3>3. /\ \A d \in 1 .. NumMutators : d >= at[r] => mutation[r][d].said = 0
          /\ \A d \in 1 .. NumMutators : d # at[r] => mutation'[r][d] = mutation[r][d]
      BY <1>m, <2>2, <2>3 DEF Mutators
    <3>4. NamesWarnings(mutWarnings[r] \o Said("mutator", at[r], n), "mutator", mutation'[r])
      <4> DEFINE s == mutWarnings[r]
                 a == mutation[r]
                 b == mutation'[r]
                 c == at[r]
      <4>1. /\ s \in Seq(Notice) /\ NumMutators \in Nat /\ c \in 1 .. NumMutators /\ n \in Nat
            /\ a \in [1 .. NumMutators -> Mutations \cup Verdicts]
            /\ b \in [1 .. NumMutators -> Mutations \cup Verdicts]
            /\ NamesWarnings(s, "mutator", a)
            /\ \A d \in 1 .. NumMutators : d >= c => a[d].said = 0
            /\ b[c].said = n
            /\ \A d \in 1 .. NumMutators : d # c => b[d] = a[d]
        BY <1>a, <1>b, <2>3, <3>1, <3>2, <3>3
      <4> HIDE DEF s, a, b, c
      <4>2. NamesWarnings(s \o Said("mutator", c, n), "mutator", b)
        BY <4>1, WarningsAppended
      <4> QED
        BY <4>2 DEF s, b, c
    <3> QED
      BY <2>4, <3>4
  <2>6. \A m \in Mutators : mutation'[r][m].outcome = "none" => mutation'[r][m] = NotMutated
    BY <2>2, <2>3 DEF NoticesInv
  <2> QED
    BY <2>2, <2>5, <2>6 DEF NoticesInv
<1>3. CASE MutatorsReturn(r) \/ AdmissionValidators(r) \/ ValidatorsReturn(r)
  <2>1. /\ phase[r] # "refused"
        /\ UNCHANGED <<errs, mutWarnings, valWarnings, mutation, verdict>>
    BY <1>3 DEF MutatorsReturn, AdmissionValidators, ValidatorsReturn
  <2> QED
    BY <2>1 DEF NoticesInv
<1>5. CASE CopyFails(r)
  <2>1. /\ phase[r] = "validators" /\ at[r] \in Validators /\ phase' = phase
        /\ errs'[r] = Append(errs[r], [by |-> "handler", at |-> at[r]])
        /\ UNCHANGED <<mutation, mutWarnings, valWarnings>>
    BY <1>5 DEF CopyFails, ValidatorsDue, HandlerTypeOK
  <2>2. /\ verdict'[r][at[r]].vote = "copyfailed" /\ verdict'[r][at[r]].said = 0
        /\ \A v \in Validators : v # at[r] => verdict'[r][v] = verdict[r][v]
    BY <1>5, <2>1 DEF CopyFails, HandlerTypeOK
  <2>3. NamesObjections(errs'[r], verdict'[r])
    <3>1. NamesObjections(errs[r], verdict[r])
      BY <2>1 DEF NoticesInv
    <3> QED
      BY <1>a, <1>v, <2>1, <2>2, <3>1, ObjectionAppended
  <2>4. NamesWarnings(valWarnings'[r], "validator", verdict'[r])
    <3>1. \A v \in Validators : verdict'[r][v].said = verdict[r][v].said
      BY <1>v, <2>1, <2>2 DEF Validators
    <3>2. DOMAIN verdict'[r] = Validators /\ DOMAIN verdict[r] = Validators
      BY <1>a
    <3> QED
      BY <2>1, <3>1, <3>2 DEF NoticesInv, NamesWarnings
  <2>5. \A v \in Validators : verdict'[r][v].vote = "none" => verdict'[r][v] = NotJudged
    BY <2>2 DEF NoticesInv
  <2> QED
    BY <2>1, <2>3, <2>4, <2>5 DEF NoticesInv
<1>6. CASE ValidatorReturns(r)
  <2>1. PICK n \in 0 .. MaxWarnings, vote \in {"accepts", "objects"} :
          /\ verdict' = [verdict EXCEPT ![r][at[r]] =
                 [saw |-> job[r], said |-> n, vote |-> vote]]
          /\ valWarnings' = [valWarnings EXCEPT ![r] = WarningsAfter(r, n, vote)]
          /\ errs' = [errs EXCEPT ![r] = ErrorsAfter(r, vote)]
    BY <1>6 DEF ValidatorReturns
  <2>2. /\ phase[r] = "validators" /\ at[r] \in Validators /\ phase' = phase
        /\ UNCHANGED <<mutation, mutWarnings>>
    BY <1>6 DEF ValidatorReturns, ValidatorsDue
  <2>3. /\ verdict'[r][at[r]].vote = vote /\ verdict'[r][at[r]].said = n
        /\ \A v \in Validators : v # at[r] => verdict'[r][v] = verdict[r][v]
    BY <2>1, <2>2 DEF HandlerTypeOK
  <2>4. /\ valWarnings'[r] = valWarnings[r] \o Said("validator", at[r], n)
        /\ errs'[r] = ErrorsAfter(r, vote)
    BY <2>1 DEF HandlerTypeOK, WarningsAfter
  <2>5. NamesWarnings(valWarnings'[r], "validator", verdict'[r])
    <3>1. NamesWarnings(valWarnings[r], "validator", verdict[r])
      BY DEF NoticesInv
    <3>2. n \in Nat /\ at[r] \in 1 .. NumValidators
      BY <2>2 DEF Validators
    <3>3. /\ \A d \in 1 .. NumValidators : d >= at[r] => verdict[r][d].said = 0
          /\ \A d \in 1 .. NumValidators : d # at[r] => verdict'[r][d] = verdict[r][d]
      BY <1>v, <2>2, <2>3 DEF Validators
    <3>4. NamesWarnings(valWarnings[r] \o Said("validator", at[r], n), "validator", verdict'[r])
      <4> DEFINE s == valWarnings[r]
                 a == verdict[r]
                 b == verdict'[r]
                 c == at[r]
      <4>1. /\ s \in Seq(Notice) /\ NumValidators \in Nat /\ c \in 1 .. NumValidators /\ n \in Nat
            /\ a \in [1 .. NumValidators -> Mutations \cup Verdicts]
            /\ b \in [1 .. NumValidators -> Mutations \cup Verdicts]
            /\ NamesWarnings(s, "validator", a)
            /\ \A d \in 1 .. NumValidators : d >= c => a[d].said = 0
            /\ b[c].said = n
            /\ \A d \in 1 .. NumValidators : d # c => b[d] = a[d]
        BY <1>a, <1>b, <2>3, <3>1, <3>2, <3>3
      <4> HIDE DEF s, a, b, c
      <4>2. NamesWarnings(s \o Said("validator", c, n), "validator", b)
        BY <4>1, WarningsAppended
      <4> QED
        BY <4>2 DEF s, b, c
    <3> QED
      BY <2>4, <3>4
  <2>6. NamesObjections(errs'[r], verdict'[r])
    <3>1. NamesObjections(errs[r], verdict[r])
      BY <2>2 DEF NoticesInv
    <3>2. CASE vote = "objects"
      <4>1. errs'[r] = Append(errs[r], [by |-> "validator", at |-> at[r]])
        BY <2>4, <3>2 DEF ErrorsAfter
      <4>2. verdict'[r][at[r]].vote = "objects"
        BY <2>3, <3>2
      <4> QED
        BY <1>a, <1>v, <2>2, <2>3, <3>1, <4>1, <4>2, ObjectionAppended
    <3>3. CASE vote = "accepts"
      <4>1. errs'[r] = errs[r]
        BY <2>4, <3>3 DEF ErrorsAfter
      <4>2. verdict[r][at[r]].vote = "none"
        BY <1>v, <2>2 DEF Validators
      <4>3. \A v \in Validators : \A w \in {"objects", "copyfailed"} :
               verdict'[r][v].vote = w <=> verdict[r][v].vote = w
        BY <2>3, <3>3, <4>2
      <4> QED
        BY <3>1, <4>1, <4>3 DEF NamesObjections
    <3> QED
      BY <3>2, <3>3
  <2>7. \A v \in Validators : verdict'[r][v].vote = "none" => verdict'[r][v] = NotJudged
    BY <2>3 DEF NoticesInv
  <2> QED
    BY <2>2, <2>5, <2>6, <2>7 DEF NoticesInv
<1> QED
  BY <1>1, <1>2, <1>3, <1>5, <1>6 DEF HandlerStep

\* The reports and the counters are kept at every step.
THEOREM HandlerReports == HandlerSpec => []ReportInv
<1>1. HandlerTypeOK /\ HandlerInv /\ ReportInv /\ [HandlerNext]_handlerVars => ReportInv'
  <2> SUFFICES ASSUME HandlerTypeOK, HandlerInv, ReportInv, [HandlerNext]_handlerVars
               PROVE  ReportInv'
    OBVIOUS
  <2>0. MetricsCountCalls /\ \A q \in Requests : CallInv(q) /\ NoticesInv(q)
    BY DEF HandlerInv, ReportInv
  <2>1. ASSUME NEW r \in Requests, NEW j \in JobOrNone, AdmissionMutators(r, j)
        PROVE  ReportInv'
    <3>1. \A q \in Requests : q # r =>
             /\ phase'[q] = phase[q] /\ errs'[q] = errs[q]
             /\ mutWarnings'[q] = mutWarnings[q] /\ valWarnings'[q] = valWarnings[q]
             /\ mutation'[q] = mutation[q] /\ verdict'[q] = verdict[q]
      BY <2>1 DEF AdmissionMutators, HandlerTypeOK
    <3>2. \A q \in Requests : NoticesInv(q)'
      BY <2>0, <2>1, <3>1, NoticesFrame, NoticesStart
    <3>3. MetricsCountCalls'
      BY <2>0, <2>1, CountersFrame DEF AdmissionMutators
    <3> QED
      BY <3>2, <3>3 DEF ReportInv
  <2>2. ASSUME NEW r \in Requests, HandlerStep(r)
        PROVE  ReportInv'
    <3>1. \A q \in Requests : NoticesInv(q)'
      BY <2>0, <2>2, StepFrame, NoticesFrame, NoticesStep
    <3>2. MetricsCountCalls'
      BY <2>0, <2>2, CountersStep
    <3> QED
      BY <3>1, <3>2 DEF ReportInv
  <2>3. CASE UNCHANGED handlerVars
    <3>1. \A q \in Requests : NoticesInv(q)'
      BY <2>0, <2>3, NoticesFrame DEF handlerVars, callVars
    <3>2. MetricsCountCalls'
      BY <2>0, <2>3, CountersFrame DEF handlerVars
    <3> QED
      BY <3>1, <3>2 DEF ReportInv
  <2> QED
    BY <2>1, <2>2, <2>3 DEF HandlerNext, HandlerIdle
<1> QED
  BY <1>1, HandlerInvariant, ReportInit, PTL DEF HandlerSpec

\* The errors of a judged call are all its objections.
THEOREM HandlerReportsObjections == HandlerSpec => []EveryObjectionReported
<1>1. ReportInv => EveryObjectionReported
  BY DEF ReportInv, NoticesInv, EveryObjectionReported
<1> QED
  BY <1>1, HandlerReports, PTL

\* A judged call has kept every warning.
THEOREM HandlerReturnsWarnings == HandlerSpec => []EveryWarningReturned
<1>1. ReportInv => EveryWarningReturned
  BY DEF ReportInv, NoticesInv, EveryWarningReturned
<1> QED
  BY <1>1, HandlerReports, PTL

\* The counters of the shared handler are the sums over all calls.
THEOREM HandlerCounts == HandlerSpec => []MetricsCountCalls
<1>1. ReportInv => MetricsCountCalls
  BY DEF ReportInv
<1> QED
  BY <1>1, HandlerReports, PTL
=============================================================================
