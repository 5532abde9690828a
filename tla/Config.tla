-------------------------------- MODULE Config --------------------------------
(***************************************************************************)
(* From the configuration to the built server: buildConfig and LoadConfig, *)
(* the checks of pkg/config/config.go, the logger factory, the OPA SDK and *)
(* buildServer with its two loops over the configured controllers, up to   *)
(* the point where run starts to listen (module Lifecycle goes on there).  *)
(* A pointer of the Go structs is a set with at most one member; {} is     *)
(* nil.  HCL leaves the default where an attribute is absent and sets the  *)
(* pointer to nil where it is null.                                        *)
(***************************************************************************)
EXTENDS Integers, Sequences

CONSTANT Files      \* the configurations a file may hold, as they are written

Pointer(S) == {p \in SUBSET S : \A x, y \in p : x = y}

MutatorTypes   == {"opa_json_patch", "json_patch_webhook", "opa_bundle_json_patch"}
ValidatorTypes == {"opa", "opa_bundle", "webhook", "notation"}
Levels         == {"error", "warn", "info", "debug"}
Streams        == {"stdout", "stderr"}

\* files: trust_policy_file and trust_store_dir are both given.
NotationVerifierConfig == [files : BOOLEAN, attempts : Int]
\* filled: query and filename are not blank; verifies: the rule in the file
\* calls notation_verify_image.
OpaRule == [filled : BOOLEAN, verifies : BOOLEAN, notation : Pointer(NotationVerifierConfig)]

\* A mutator or validator block.
Blocks ==
    [type : MutatorTypes \cup ValidatorTypes \cup {"unknown"}, name : STRING,
     rule : Pointer(OpaRule), sdkRule : Pointer({"path", "blank"}),
     webhook : Pointer({"callable", "relative", "methodless"}),
     notation : Pointer(NotationVerifierConfig), resolveToken : BOOLEAN]

\* A mutator has no notation block of its own.
Configs ==
    [port : Int, bind : {"address", "blank"},
     tls : Pointer([pair : BOOLEAN, ca : BOOLEAN, noClientCert : BOOLEAN]),
     address : {"absolute", "relative"},
     nomadTLS : Pointer([cert : BOOLEAN, key : BOOLEAN, ca : BOOLEAN]),
     opaSdk : Pointer({"named", "blank"}),
     level : Levels \cup {"unknown"},
     text : Pointer(BOOLEAN), textOut : Pointer(Streams \cup {"elsewhere"}),
     json : Pointer(BOOLEAN), jsonOut : Pointer(Streams \cup {"elsewhere"}),
     otel : Pointer(BOOLEAN),
     mutators : Seq({b \in Blocks : b.notation = {}}), validators : Seq(Blocks)]

ASSUME ConfigAssumption == Files \subseteq Configs

DefaultConfig ==
    [port |-> 6464, bind |-> "address", tls |-> {}, address |-> "absolute", nomadTLS |-> {},
     opaSdk |-> {}, level |-> "info", text |-> {TRUE}, textOut |-> {"stdout"},
     json |-> {FALSE}, jsonOut |-> {"stdout"}, otel |-> {FALSE},
     mutators |-> <<>>, validators |-> <<>>]

\* What the factories build; verifier holds MaxSignatureAttempts.
Controllers ==
    [type : MutatorTypes \cup ValidatorTypes, name : STRING, verifier : Pointer(Int),
     sdk : BOOLEAN]

VARIABLES
    given,         \* -config: "absent", "unreadable", or "file" with content written
    written,       \* the file's content, defaults filled in
    readable,      \* every file the configuration names is there and valid
    c,             \* the *config.Config
    stage,         \* how far main is
    at,            \* index of the loop that runs
    seen,          \* validateControllers: the names met
    passed,        \* how often Validate has accepted c
    logs,          \* the logger factory's outputs
    sdk,           \* the OPA SDK is there and ready
    mutators,      \* createMutators: jobMutators
    validators,    \* createValidators: jobValidators
    resolveToken,  \* a controller asked for the token
    clientAuth,    \* the listener demands a client certificate
    why            \* what stopped the start

inputVars == <<given, written, readable>>
loopVars  == <<at, seen>>
builtVars == <<mutators, validators, resolveToken, clientAuth>>
vars == <<inputVars, c, stage, loopVars, passed, logs, sdk, builtVars, why>>

MutatorCount   == Len(c.mutators)
ValidatorCount == Len(c.validators)
BlockCount     == MutatorCount + ValidatorCount

Reasons == {"none", "unreadable", "invalid", "sdk", "files", "rego", "missing", "panic"}

ConfigTypeOK ==
    /\ c \in Configs
    /\ at \in 1 .. BlockCount + 1
    /\ seen \subseteq {"mutator", "validator"} \X STRING
    /\ passed \in 0 .. 2
    /\ logs \in [text : Pointer(Streams), json : Pointer(Streams), otel : BOOLEAN]
    /\ sdk \in BOOLEAN
    /\ mutators \in Seq(Controllers) /\ validators \in Seq(Controllers)
    /\ resolveToken \in BOOLEAN /\ clientAuth \in BOOLEAN
    /\ why \in Reasons
    /\ (why # "none") <=> (stage = "stopped")

Init ==
    /\ \/ given \in {"absent", "unreadable"} /\ written = DefaultConfig
       \/ given = "file" /\ written \in Files
    /\ readable \in BOOLEAN
    /\ c = DefaultConfig
    /\ stage = "config" /\ at = 1 /\ seen = {} /\ passed = 0
    /\ logs = [text |-> {}, json |-> {}, otel |-> FALSE] /\ sdk = FALSE
    /\ mutators = <<>> /\ validators = <<>> /\ resolveToken = FALSE /\ clientAuth = FALSE
    /\ why = "none"

\* Mutant: the error is logged and main goes on.
LoggedOnly(reason) == why' = reason /\ UNCHANGED stage

\* main logs the error and exits with code 1.
Stop(reason) == stage' = "stopped" /\ why' = reason
GoTo(place)  == stage' = place /\ UNCHANGED why

-----------------------------------------------------------------------------
(* LoadConfig *)

setNotationDefaults(notation) ==
    {[n EXCEPT !.attempts = IF @ = 0 THEN 50 ELSE @] : n \in notation}

\* Mutant: as it was once, nested notation blocks are left alone.
TopLevelDefaults(blocks) ==
    [i \in DOMAIN blocks |->
        [blocks[i] EXCEPT !.notation = setNotationDefaults(@)]]

BlockDefaults(block) ==
    [block EXCEPT !.notation = setNotationDefaults(@),
                  !.rule = {[r EXCEPT !.notation = setNotationDefaults(@)] : r \in @}]
WithDefaults(blocks) == [i \in DOMAIN blocks |-> BlockDefaults(blocks[i])]

\* Without -config the defaults are used; a file that is not there, or is not
\* HCL of this shape, is an error.
buildConfig ==
    /\ stage = "config"
    /\ CASE given = "absent"     -> GoTo("settings") /\ UNCHANGED c
         [] given = "unreadable" -> Stop("unreadable") /\ UNCHANGED c
         [] given = "file"       ->
              /\ GoTo("outs")
              /\ c' = [written EXCEPT !.mutators = WithDefaults(@),
                                      !.validators = WithDefaults(@)]
    /\ UNCHANGED <<inputVars, loopVars, passed, logs, sdk, builtVars>>

\* Mutant: the second check repeats the first one's field.
CheckTextOut ==
    /\ stage = "outs"
    /\ IF {} \in {c.textOut, c.jsonOut} THEN Stop("panic")
       ELSE IF ~(c.textOut \subseteq Streams) THEN Stop("invalid")
       ELSE GoTo("settings")
    /\ UNCHANGED <<inputVars, c, loopVars, passed, logs, sdk, builtVars>>

\* text_out is looked at first: an invalid one is reported even when json_out
\* is null.
CheckOuts ==
    /\ stage = "outs"
    /\ CASE c.textOut = {}                  -> Stop("panic")
         [] c.textOut = {"elsewhere"}       -> Stop("invalid")
         [] OTHER ->
            IF c.jsonOut = {} THEN Stop("panic")
            ELSE IF c.jsonOut \subseteq Streams THEN GoTo("settings") ELSE Stop("invalid")
    /\ UNCHANGED <<inputVars, c, loopVars, passed, logs, sdk, builtVars>>

-----------------------------------------------------------------------------
(* Config.Validate, called by LoadConfig or buildConfig and by buildServer *)

Ports == 1 .. 65535

validateListener ==
    /\ c.port \in Ports
    /\ c.bind # "blank"
    /\ \A tls \in c.tls : tls.pair

validateNomadConfig ==
    /\ c.address = "absolute"
    /\ \A tls \in c.nomadTLS : tls.cert = tls.key

ValidateSettings ==
    /\ stage = "settings"
    /\ IF validateListener /\ validateNomadConfig /\ "blank" \notin c.opaSdk
       THEN GoTo("blocks") ELSE Stop("invalid")
    /\ at' = 1 /\ seen' = {}
    /\ UNCHANGED <<inputVars, c, passed, logs, sdk, builtVars>>

\* Mutant: any number of attempts is let through.
NotationFilesGiven(notation) == \E n \in notation : n.files

validateNotation(notation) == \E n \in notation : n.files /\ n.attempts >= 1

validateOpaRule(rule) ==
    \E r \in rule : r.filled /\ (r.notation # {} => validateNotation(r.notation))

\* Mutant: the SDK is not asked for.
OpaSDKRuleHasPath(sdkRule) == sdkRule = {"path"}

validateOpaSDKRule(sdkRule) == c.opaSdk # {} /\ sdkRule = {"path"}

validateWebhook(webhook) == webhook = {"callable"}

validateMutator(block) ==
    /\ block.name # ""
    /\ CASE block.type = "opa_json_patch"        -> validateOpaRule(block.rule)
         [] block.type = "json_patch_webhook"    -> validateWebhook(block.webhook)
         [] block.type = "opa_bundle_json_patch" -> validateOpaSDKRule(block.sdkRule)
         [] OTHER                                -> FALSE

validateValidator(block) ==
    /\ block.name # ""
    /\ CASE block.type = "opa" ->
                /\ validateOpaRule(block.rule)
                /\ block.notation # {} => validateNotation(block.notation)
         [] block.type = "opa_bundle" -> validateOpaSDKRule(block.sdkRule)
         [] block.type = "webhook"    -> validateWebhook(block.webhook)
         [] block.type = "notation"   -> validateNotation(block.notation)
         [] OTHER                     -> FALSE

\* What validateControllers goes over: mutators first, then validators.
InMutators(k) == k <= MutatorCount
BlockAt(k)    == IF InMutators(k) THEN c.mutators[k] ELSE c.validators[k - MutatorCount]

\* Mutant: a name is compared with those of its own type only.
KeyOfType(k) == <<BlockAt(k).type, BlockAt(k).name>>

Key(k) == <<IF InMutators(k) THEN "mutator" ELSE "validator", BlockAt(k).name>>

validBlock(k) ==
    IF InMutators(k) THEN validateMutator(BlockAt(k)) ELSE validateValidator(BlockAt(k))

ValidateBlock ==
    /\ stage = "blocks" /\ at <= BlockCount
    /\ IF validBlock(at) /\ Key(at) \notin seen
       THEN /\ seen' = seen \cup {Key(at)} /\ at' = at + 1
            /\ UNCHANGED <<stage, why>>
       ELSE Stop("invalid") /\ UNCHANGED loopVars
    /\ UNCHANGED <<inputVars, c, passed, logs, sdk, builtVars>>

\* Validate returns nil: main goes on to run, or buildServer to its transport.
Validated ==
    /\ stage = "blocks" /\ at > BlockCount
    /\ GoTo(IF passed = 0 THEN "loggers" ELSE "transport")
    /\ passed' = passed + 1 /\ at' = 1
    /\ UNCHANGED <<inputVars, c, seen, logs, sdk, builtVars>>

-----------------------------------------------------------------------------
(* run: the logger factory and the OPA SDK *)

outStrToWriter(out) == out \cap Streams

\* Level.convert panics on an unknown level, and null pointers are followed.
NewLoggerFactoryFromConfig ==
    /\ stage = "loggers"
    /\ IF c.level \notin Levels \/ {} \in {c.text, c.json, c.otel}
       THEN Stop("panic") /\ UNCHANGED logs
       ELSE /\ GoTo("sdk")
            /\ logs' = [text |-> IF TRUE \in c.text THEN outStrToWriter(c.textOut) ELSE {},
                        json |-> IF TRUE \in c.json THEN outStrToWriter(c.jsonOut) ELSE {},
                        otel |-> TRUE \in c.otel]
    /\ UNCHANGED <<inputVars, c, loopVars, passed, sdk, builtVars>>

\* buildServer follows, whose first call is Validate.
setupOpaSDK ==
    /\ stage = "sdk"
    /\ \/ GoTo("settings") /\ sdk' = (c.opaSdk # {})
       \/ c.opaSdk # {} /\ Stop("sdk") /\ UNCHANGED sdk
    /\ UNCHANGED <<inputVars, c, loopVars, passed, logs, builtVars>>

-----------------------------------------------------------------------------
(* buildServer *)

\* The client certificate and the CA file are read where they are configured.
Transport ==
    /\ stage = "transport"
    /\ \/ GoTo("mutators")
       \/ /\ ~readable /\ \E tls \in c.nomadTLS : tls.cert \/ tls.ca
          /\ Stop("files")
    /\ UNCHANGED <<inputVars, c, loopVars, passed, logs, sdk, builtVars>>

buildVerifier(notation) == {n.attempts : n \in notation}

\* The rule's file, and each verifier's trust policy, may be missing or broken.
ReadsFiles(block, verifier) ==
    block.type \in {"opa", "opa_json_patch"} \/ verifier # {}

\* notation_verify_image is a function only where there is a verifier.
CreateQueryFails(block, verifier) ==
    block.type \in {"opa", "opa_json_patch"} /\ verifier = {}
        /\ \E r \in block.rule : r.verifies

\* The guards of createMutator, createValidator and the constructors.
PartMissing(block, verifier, types) ==
    IF block.type \notin types THEN TRUE
    ELSE CASE block.type \in {"opa", "opa_json_patch"}         -> block.rule = {}
           [] block.type \in {"webhook", "json_patch_webhook"} ->
                 block.webhook \in {{}, {"relative"}}
           [] block.type \in {"opa_bundle", "opa_bundle_json_patch"} ->
                 block.sdkRule # {"path"} \/ ~sdk
           [] block.type = "notation"                          -> verifier = {}

\* How the construction of a controller may end; "none" is well.
Outcomes(block, verifier, types) ==
    IF PartMissing(block, verifier, types) THEN {"missing"}
    ELSE {IF CreateQueryFails(block, verifier) THEN "rego" ELSE "none"}
            \cup IF ~readable /\ ReadsFiles(block, verifier) THEN {"files"} ELSE {}

\* One round of the two loops: an error ends the start.
Created(built, block, verifier, outcome) ==
    IF outcome = "none"
    THEN Append(built, [type |-> block.type, name |-> block.name, verifier |-> verifier,
                        sdk |-> sdk /\ block.type \in {"opa_bundle", "opa_bundle_json_patch"}])
    ELSE built
Round(outcome) ==
    IF outcome = "none" THEN at' = at + 1 /\ UNCHANGED <<stage, why>>
                        ELSE Stop(outcome) /\ UNCHANGED at

\* The type opa_json_patch takes the notation block of its rule.
createMutator ==
    /\ stage = "mutators" /\ at <= MutatorCount
    /\ LET block    == c.mutators[at]
           verifier == IF block.type = "opa_json_patch"
                       THEN UNION {buildVerifier(r.notation) : r \in block.rule} ELSE {}
       IN  /\ resolveToken' = (resolveToken \/ block.resolveToken)
           /\ \E outcome \in Outcomes(block, verifier, MutatorTypes) :
                 Round(outcome) /\ mutators' = Created(mutators, block, verifier, outcome)
    /\ UNCHANGED <<inputVars, c, seen, passed, logs, sdk, validators, clientAuth>>

\* Mutant: only the mutators' resolve_token counts.
CreateValidatorTokenless ==
    /\ stage = "validators" /\ at <= ValidatorCount
    /\ LET block    == c.validators[at]
           verifier == buildVerifier(block.notation)
       IN  \E outcome \in Outcomes(block, verifier, ValidatorTypes) :
             Round(outcome) /\ validators' = Created(validators, block, verifier, outcome)
    /\ UNCHANGED <<inputVars, c, seen, passed, logs, sdk, mutators, resolveToken, clientAuth>>

\* The types opa and notation take the validator's own notation block; the one
\* in opa_rule is not looked at.
createValidator ==
    /\ stage = "validators" /\ at <= ValidatorCount
    /\ LET block    == c.validators[at]
           verifier == IF block.type \in {"opa", "notation"}
                       THEN buildVerifier(block.notation) ELSE {}
       IN  /\ resolveToken' = (resolveToken \/ block.resolveToken)
           /\ \E outcome \in Outcomes(block, verifier, ValidatorTypes) :
                 Round(outcome) /\ validators' = Created(validators, block, verifier, outcome)
    /\ UNCHANGED <<inputVars, c, seen, passed, logs, sdk, mutators, clientAuth>>

LoopEnds ==
    /\ \/ stage = "mutators" /\ at > MutatorCount /\ GoTo("validators")
       \/ stage = "validators" /\ at > ValidatorCount /\ GoTo("listener")
    /\ at' = 1
    /\ UNCHANGED <<inputVars, c, seen, passed, logs, sdk, builtVars>>

\* createTlsConfig is called for a CA file only; the listener's own certificate
\* is read by ListenAndServeTLS later.
ListenerTLS ==
    /\ stage = "listener"
    /\ \/ /\ GoTo("built")
          /\ clientAuth' = \E tls \in c.tls : tls.ca /\ ~tls.noClientCert
       \/ /\ ~readable /\ \E tls \in c.tls : tls.ca
          /\ Stop("files") /\ UNCHANGED clientAuth
    /\ UNCHANGED <<inputVars, c, loopVars, passed, logs, sdk, mutators, validators, resolveToken>>

Ended == stage \in {"built", "stopped"} /\ UNCHANGED vars

Next ==
    \/ buildConfig \/ CheckOuts
    \/ ValidateSettings \/ ValidateBlock \/ Validated
    \/ NewLoggerFactoryFromConfig \/ setupOpaSDK
    \/ Transport \/ createMutator \/ createValidator \/ LoopEnds \/ ListenerTLS
    \/ Ended

Spec == Init /\ [][Next]_vars

-----------------------------------------------------------------------------
(* What a correct configuration is, as an operator would say it *)

\* An absent max_sig_attempts is as good as a positive one.
GoodNotation(n) == n.files /\ n.attempts >= 0

\* Each type needs its own part and looks at no other.
GoodBlock(block, hasSdk) ==
    /\ block.name # ""
    /\ block.type \in {"opa", "opa_json_patch"} =>
          /\ \E r \in block.rule : r.filled /\ \A n \in r.notation : GoodNotation(n)
          /\ \A n \in block.notation : GoodNotation(n)
    /\ block.type \in {"webhook", "json_patch_webhook"} => block.webhook = {"callable"}
    /\ block.type \in {"opa_bundle", "opa_bundle_json_patch"} => hasSdk /\ block.sdkRule = {"path"}
    /\ block.type = "notation" => \E n \in block.notation : GoodNotation(n)

Unambiguous(blocks) ==
    \A i, k \in DOMAIN blocks : blocks[i].name = blocks[k].name => i = k

WellFormed(w) ==
    /\ w.port > 0 /\ w.port < 65536 /\ w.bind = "address" /\ w.address = "absolute"
    /\ \A tls \in w.tls : tls.pair
    /\ \A tls \in w.nomadTLS : tls.cert <=> tls.key
    /\ w.opaSdk # {"blank"}
    /\ "elsewhere" \notin w.textOut \cup w.jsonOut
    /\ \A i \in DOMAIN w.mutators :
          w.mutators[i].type \in MutatorTypes /\ GoodBlock(w.mutators[i], w.opaSdk # {})
    /\ \A i \in DOMAIN w.validators :
          w.validators[i].type \in ValidatorTypes /\ GoodBlock(w.validators[i], w.opaSdk # {})
    /\ Unambiguous(w.mutators) /\ Unambiguous(w.validators)

-----------------------------------------------------------------------------
(* Properties *)

\* CHANGELOG.md:88: "Invalid configurations that previously started now refuse
\* to start"; a -config that cannot be read is one of them, an absent one not.
OnlyWellFormedStarts == stage = "built" => given # "unreadable" /\ WellFormed(written)

\* The checks refuse nothing that is well formed, max_sig_attempts left out on
\* any level and a mutator and a validator of one name included.
WellFormedIsNotRefused == why = "invalid" => ~WellFormed(written)

\* What Validate has accepted, the constructors find complete: no guard of
\* theirs (a missing block, a nil SDK, an unknown type) nor the second Validate
\* stops the start.  What may stop it is the world outside the configuration,
\* a rule that calls notation_verify_image without a verifier, or the loggers.
AcceptedConfigBuilds ==
    stage = "stopped" /\ passed > 0 =>
        why \in {"sdk", "rego", "panic"} \cup IF readable THEN {} ELSE {"files"}

Image(blocks) == [i \in DOMAIN blocks |-> <<blocks[i].type, blocks[i].name>>]

\* The server that is built has the configured controllers, all and in order,
\* asks for the token iff one of them does, gives bundle controllers the SDK,
\* and asks clients for certificates iff a CA is there to check them against.
ServerIsTheConfigured ==
    stage = "built" =>
        /\ Image(mutators) = Image(written.mutators)
        /\ Image(validators) = Image(written.validators)
        /\ resolveToken <=> \E i \in DOMAIN (written.mutators \o written.validators) :
                               (written.mutators \o written.validators)[i].resolveToken
        /\ \A i \in DOMAIN (mutators \o validators) :
              LET built == (mutators \o validators)[i]
              IN  built.type \in {"opa_bundle", "opa_bundle_json_patch"} => built.sdk
        /\ clientAuth <=> \E tls \in written.tls : tls.ca /\ ~tls.noClientCert

\* Every verifier tries at least one signature: one with none would refuse all
\* images at request time.
VerifiersTry ==
    \A i \in DOMAIN (mutators \o validators) :
        \A attempts \in (mutators \o validators)[i].verifier : attempts >= 1

\* A log output that is switched on has a stream: none is dropped silently.
EnabledLogsAreOpen ==
    passed > 0 /\ stage \notin {"loggers", "stopped"} =>
        /\ TRUE \in written.text => logs.text # {}
        /\ TRUE \in written.json => logs.json # {}
        /\ TRUE \in written.otel => logs.otel

\* openwiki/policy-integrations.md:62: "An opa_rule can contain a notation
\* block. This registers notation_verify_image(string) -> bool".
NotationOfTheRuleIsRegistered ==
    why = "rego" =>
        LET blocks == IF Len(mutators) < MutatorCount THEN c.mutators ELSE c.validators
        IN  \A r \in blocks[at].rule : r.notation = {}

\* CHANGELOG.md:89: "Configuration is now checked after HCL decoding and when
\* building a server, instead of failing later at request time or panicking."
NoPanicOnConfiguration == why # "panic"

-----------------------------------------------------------------------------
(* The inductive invariant of ConfigProofs *)

FileConfig == [written EXCEPT !.mutators = WithDefaults(@), !.validators = WithDefaults(@)]

\* c is what was written with the defaults filled in.
Loaded ==
    /\ \/ given = "file" /\ written \in Configs
       \/ given \in {"absent", "unreadable"} /\ written = DefaultConfig
    /\ given = "unreadable" => stage = "config" \/ why = "unreadable"
    /\ c = IF stage = "config" \/ given = "unreadable" THEN DefaultConfig ELSE FileConfig

Building == {"transport", "mutators", "validators", "listener", "built"}

\* How often Validate has accepted c tells where main is, and the reverse.
Phases ==
    /\ stage \in {"config", "outs", "settings", "blocks", "loggers", "sdk", "stopped"}
                 \cup Building
    /\ stage \in {"config", "outs"} => passed = 0
    /\ stage \in {"settings", "blocks"} => passed < 2
    /\ stage \in {"loggers", "sdk"} => passed = 1
    /\ stage \in Building => passed = 2
    /\ at \in 1 .. BlockCount + 1
    /\ stage = "transport" => at = 1
    /\ stage = "mutators" => at <= MutatorCount + 1
    /\ stage = "validators" => at <= ValidatorCount + 1

OutsOpen == \A out \in {c.textOut, c.jsonOut} : out # {} /\ out \subseteq Streams
SettingsValid == validateListener /\ validateNomadConfig /\ "blank" \notin c.opaSdk

\* The first n blocks are valid and no two of them share a key.
BlocksValid(n) ==
    /\ \A k \in 1 .. n : validBlock(k)
    /\ \A j, k \in 1 .. n : Key(j) = Key(k) => j = k

\* What the checks have established stays so, since c is not written again.
Checked ==
    /\ stage \in {"settings", "blocks"} \/ passed > 0 => OutsOpen
    /\ stage = "blocks" \/ passed > 0 => SettingsValid
    /\ stage = "blocks" =>
          BlocksValid(at - 1) /\ seen = {Key(k) : k \in 1 .. at - 1}
    /\ passed > 0 => BlocksValid(BlockCount)

SdkBuilt ==
    stage \in Building \/ (stage \in {"settings", "blocks"} /\ passed = 1)
        => sdk = (c.opaSdk # {})

LogsOpen ==
    passed > 0 /\ stage \notin {"loggers", "stopped"} =>
        /\ TRUE \in c.text => logs.text # {}
        /\ TRUE \in c.json => logs.json # {}
        /\ TRUE \in c.otel => logs.otel

\* How many mutators, and how many validators, are there already.
MutatorsDone ==
    CASE stage = "mutators" -> at - 1
      [] stage \in {"validators", "listener", "built"} -> MutatorCount
      [] OTHER -> 0
ValidatorsDone ==
    CASE stage = "validators" -> at - 1
      [] stage \in {"listener", "built"} -> ValidatorCount
      [] OTHER -> 0

\* The first n blocks have become the controllers of built.
BuiltFrom(built, blocks, n) ==
    /\ Len(built) = n
    /\ \A i \in 1 .. n :
          /\ built[i].type = blocks[i].type /\ built[i].name = blocks[i].name
          /\ built[i].type \in {"opa_bundle", "opa_bundle_json_patch"} => built[i].sdk

TriesSome(built) == \A i \in DOMAIN built : \A attempts \in built[i].verifier : attempts >= 1

Built ==
    /\ TriesSome(mutators) /\ TriesSome(validators)
    /\ stage # "stopped" =>
          /\ BuiltFrom(mutators, c.mutators, MutatorsDone)
          /\ BuiltFrom(validators, c.validators, ValidatorsDone)
          /\ resolveToken <=>
                \/ \E i \in 1 .. MutatorsDone : c.mutators[i].resolveToken
                \/ \E i \in 1 .. ValidatorsDone : c.validators[i].resolveToken
    /\ stage = "built" => (clientAuth <=> \E tls \in c.tls : tls.ca /\ ~tls.noClientCert)

ConfigInv ==
    /\ ConfigTypeOK
    /\ Loaded /\ Phases /\ Checked /\ SdkBuilt /\ LogsOpen /\ Built
    /\ WellFormedIsNotRefused /\ AcceptedConfigBuilds
=============================================================================
