------------------------------ MODULE MCConfig ------------------------------
(* Small instances of Config for TLC: the configuration files it reads. *)
EXTENDS Config, SequencesExt

Optional(S) == {{}} \cup {{x} : x \in S}

Block == [type |-> "unknown", name |-> "a", rule |-> {}, sdkRule |-> {}, webhook |-> {},
          notation |-> {}, resolveToken |-> FALSE]
OfType(types) == {[Block EXCEPT !.type = type] : type \in types}

Notations == [files : BOOLEAN, attempts : {-1, 0, 1}]
Rules == [filled : BOOLEAN, verifies : BOOLEAN, notation : Optional(Notations)]

\* Every block with one part, and opa validators with a notation block beside
\* the rule.
RuleBlocks(type) ==
    {[b EXCEPT !.rule = rule] : b \in OfType({type}), rule \in Optional(Rules)}
WebhookBlocks(type) ==
    {[b EXCEPT !.webhook = w] : b \in OfType({type}),
        w \in Optional({"callable", "relative", "methodless"})}
BundleBlocks(type) ==
    {[b EXCEPT !.sdkRule = s] : b \in OfType({type}), s \in Optional({"path", "blank"})}
NotationBlocks(type) ==
    {[b EXCEPT !.notation = n] : b \in OfType({type}), n \in Optional(Notations)}
BothBlocks ==
    {[b EXCEPT !.notation = n] : b \in {x \in RuleBlocks("opa") : \E r \in x.rule : r.filled},
        n \in Optional(Notations)}

Varied(blocks) ==
    {[b EXCEPT !.name = name, !.resolveToken = resolve] :
        b \in blocks, name \in {"a", ""}, resolve \in BOOLEAN}

MutatorBlocks ==
    Varied(RuleBlocks("opa_json_patch") \cup WebhookBlocks("json_patch_webhook")
        \cup BundleBlocks("opa_bundle_json_patch") \cup OfType({"unknown", "webhook"}))
ValidatorBlocks ==
    Varied(RuleBlocks("opa") \cup WebhookBlocks("webhook") \cup BundleBlocks("opa_bundle")
        \cup NotationBlocks("notation") \cup OfType({"unknown", "opa_json_patch"}))
        \cup BothBlocks

WithBlocks(ms, vs, opa) ==
    [DefaultConfig EXCEPT !.mutators = ms, !.validators = vs, !.opaSdk = opa]

\* One block in full detail, alone or after a plain webhook of the same name.
PlainMutator   == [Block EXCEPT !.type = "json_patch_webhook", !.webhook = {"callable"}]
PlainValidator == [Block EXCEPT !.type = "webhook", !.webhook = {"callable"}]
\* Parts that the type of a block does not look at, however wrong they are.
StrayMutators   == {[PlainMutator EXCEPT !.rule = {r}] : r \in Rules}
StrayValidators == {[PlainValidator EXCEPT !.notation = {n}] : n \in Notations}
BlockFiles ==
    {WithBlocks(<<m>>, vs, opa) : m \in MutatorBlocks \cup StrayMutators,
        vs \in {<<>>, <<PlainValidator>>}, opa \in {{}, {"named"}}}
    \cup {WithBlocks(ms, <<v>>, opa) : v \in ValidatorBlocks \cup StrayValidators,
             ms \in {<<>>, <<PlainMutator>>}, opa \in {{}, {"named"}}}

\* Several blocks: order, names, who wants the token and who the SDK.
Plain(callable, bundle) ==
    {[Block EXCEPT !.type = callable, !.name = name, !.webhook = {"callable"},
                   !.resolveToken = name = "b"] : name \in {"a", "b"}}
    \cup {[Block EXCEPT !.type = bundle, !.name = name, !.sdkRule = {"path"}] : name \in {"a", "c"}}
ManyFiles ==
    {WithBlocks(ms, vs, {"named"}) :
        ms \in BoundedSeq(Plain("json_patch_webhook", "opa_bundle_json_patch"), 3),
        vs \in BoundedSeq(Plain("webhook", "opa_bundle"), 1)}
    \cup {WithBlocks(ms, vs, {"named"}) :
        ms \in BoundedSeq(Plain("json_patch_webhook", "opa_bundle_json_patch"), 1),
        vs \in BoundedSeq(Plain("webhook", "opa_bundle"), 3)}

ListenerFiles ==
    {[DefaultConfig EXCEPT !.port = port, !.bind = bind, !.tls = tls] :
        port \in {0, 1, 65535, 65536}, bind \in {"address", "blank"},
        tls \in Optional([pair : BOOLEAN, ca : BOOLEAN, noClientCert : BOOLEAN])}
NomadFiles ==
    {[DefaultConfig EXCEPT !.address = address, !.nomadTLS = tls, !.opaSdk = opa] :
        address \in {"absolute", "relative"},
        tls \in Optional([cert : BOOLEAN, key : BOOLEAN, ca : BOOLEAN]),
        opa \in Optional({"named", "blank"})}
LogFiles ==
    {[DefaultConfig EXCEPT !.level = level, !.text = text, !.textOut = textOut,
                           !.json = json, !.jsonOut = jsonOut, !.otel = otel] :
        level \in {"debug", "unknown"},
        text \in Optional(BOOLEAN), textOut \in Optional({"stderr", "elsewhere"}),
        json \in Optional(BOOLEAN), jsonOut \in Optional({"stdout", "elsewhere"}),
        otel \in Optional(BOOLEAN)}

\* Outputs and switches are all given, but the level may be misspelt.
LevelFiles == {w \in LogFiles : {} \notin {w.text, w.textOut, w.json, w.jsonOut, w.otel}}

MCFiles == BlockFiles \cup ManyFiles \cup ListenerFiles \cup NomadFiles \cup LogFiles
=============================================================================
