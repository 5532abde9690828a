----------------------------- MODULE ConfigProofs -----------------------------
(***************************************************************************)
(* Proofs about Config, for every set of configuration files: ConfigInv is *)
(* inductive, and from it follow the properties that the run               *)
(* config_builds checks on the files of MCConfig.                          *)
(***************************************************************************)
EXTENDS Config, TLAPS

-----------------------------------------------------------------------------
(* The defaults of LoadConfig *)

\* setNotationDefaults writes the number of attempts and nothing else.
LEMMA NotationDefaults ==
    ASSUME NEW notation \in Pointer(NotationVerifierConfig)
    PROVE  /\ setNotationDefaults(notation) \in Pointer(NotationVerifierConfig)
           /\ (setNotationDefaults(notation) = {}) <=> (notation = {})
           /\ validateNotation(setNotationDefaults(notation))
                 <=> \E n \in notation : GoodNotation(n)
<1> DEFINE Filled(n) == [n EXCEPT !.attempts = IF n.attempts = 0 THEN 50 ELSE n.attempts]
<1>1. setNotationDefaults(notation) = {Filled(n) : n \in notation}
  BY DEF setNotationDefaults
<1>2. \A n \in NotationVerifierConfig :
         /\ Filled(n) \in NotationVerifierConfig
         /\ Filled(n).files = n.files
         /\ Filled(n).attempts = IF n.attempts = 0 THEN 50 ELSE n.attempts
  BY DEF NotationVerifierConfig
<1>3. notation \subseteq NotationVerifierConfig /\ \A x, y \in notation : x = y
  BY DEF Pointer
<1> HIDE DEF Filled
<1>4. \A n \in notation :
         (Filled(n).files /\ Filled(n).attempts >= 1) <=> GoodNotation(n)
  BY <1>2, <1>3 DEF GoodNotation, NotationVerifierConfig
<1>5. setNotationDefaults(notation) \in Pointer(NotationVerifierConfig)
  BY <1>1, <1>2, <1>3 DEF Pointer
<1>6. validateNotation(setNotationDefaults(notation))
         <=> \E n \in notation : Filled(n).files /\ Filled(n).attempts >= 1
  BY <1>1 DEF validateNotation
<1> QED BY <1>1, <1>4, <1>5, <1>6

\* The same of the notation block inside an opa_rule.
LEMMA RuleDefaults ==
    ASSUME NEW rule \in Pointer(OpaRule),
           NEW after, after = {[r EXCEPT !.notation = setNotationDefaults(r.notation)] : r \in rule}
    PROVE  /\ after \in Pointer(OpaRule)
           /\ validateOpaRule(after)
                 <=> \E r \in rule : r.filled /\ \A n \in r.notation : GoodNotation(n)
<1> DEFINE Filled(r) == [r EXCEPT !.notation = setNotationDefaults(r.notation)]
<1>1. after = {Filled(r) : r \in rule}
  OBVIOUS
<1>2. rule \subseteq OpaRule /\ \A x, y \in rule : x = y
  BY DEF Pointer
<1>3. \A r \in OpaRule :
         /\ r.notation \in Pointer(NotationVerifierConfig)
         /\ Filled(r).filled = r.filled
         /\ Filled(r).notation = setNotationDefaults(r.notation)
  BY DEF OpaRule
<1>4. \A r \in OpaRule : Filled(r) \in OpaRule
  <2> SUFFICES ASSUME NEW r \in OpaRule PROVE Filled(r) \in OpaRule
    OBVIOUS
  <2>1. setNotationDefaults(r.notation) \in Pointer(NotationVerifierConfig)
    BY <1>3, NotationDefaults
  <2> QED
    BY <2>1 DEF OpaRule
<1> HIDE DEF Filled
<1>5. \A r \in rule :
         (Filled(r).notation # {} => validateNotation(Filled(r).notation))
            <=> \A n \in r.notation : GoodNotation(n)
  <2> SUFFICES ASSUME NEW r \in rule
               PROVE  (Filled(r).notation # {} => validateNotation(Filled(r).notation))
                         <=> \A n \in r.notation : GoodNotation(n)
    OBVIOUS
  <2>1. r.notation \in Pointer(NotationVerifierConfig)
    BY <1>2, <1>3
  <2>2. /\ (setNotationDefaults(r.notation) = {}) <=> (r.notation = {})
        /\ validateNotation(setNotationDefaults(r.notation))
              <=> \E n \in r.notation : GoodNotation(n)
    BY <2>1, NotationDefaults
  <2>3. \A x, y \in r.notation : x = y
    BY <2>1 DEF Pointer
  <2> QED
    BY <1>2, <1>3, <2>2, <2>3
<1>6. after \in Pointer(OpaRule)
  BY <1>1, <1>2, <1>4 DEF Pointer
<1>7. validateOpaRule(after)
         <=> \E r \in rule :
                Filled(r).filled
                   /\ (Filled(r).notation # {} => validateNotation(Filled(r).notation))
  BY <1>1 DEF validateOpaRule
<1> QED
  BY <1>2, <1>3, <1>5, <1>6, <1>7

\* A block with its defaults is a block that differs in its notation blocks only.
LEMMA DefaultsOfBlock ==
    ASSUME NEW block \in Blocks
    PROVE  LET after == BlockDefaults(block)
           IN  /\ after \in Blocks
               /\ after.type = block.type /\ after.name = block.name
               /\ after.sdkRule = block.sdkRule /\ after.webhook = block.webhook
               /\ after.resolveToken = block.resolveToken
               /\ after.notation = setNotationDefaults(block.notation)
               /\ block.notation = {} => after.notation = {}
               /\ validateOpaRule(after.rule)
                     <=> \E r \in block.rule : r.filled /\ \A n \in r.notation : GoodNotation(n)
<1> DEFINE notation == setNotationDefaults(block.notation)
           rule == {[r EXCEPT !.notation = setNotationDefaults(r.notation)] : r \in block.rule}
<1>1. block.notation \in Pointer(NotationVerifierConfig) /\ block.rule \in Pointer(OpaRule)
  BY DEF Blocks
<1>2. /\ notation \in Pointer(NotationVerifierConfig)
      /\ notation = {} <=> block.notation = {}
  BY <1>1, NotationDefaults
<1>3. /\ rule \in Pointer(OpaRule)
      /\ validateOpaRule(rule)
            <=> \E r \in block.rule : r.filled /\ \A n \in r.notation : GoodNotation(n)
  BY <1>1, RuleDefaults
<1>4. BlockDefaults(block) = [block EXCEPT !.notation = notation, !.rule = rule]
  BY DEF BlockDefaults
<1> HIDE DEF notation, rule
<1>5. /\ BlockDefaults(block) \in Blocks
      /\ BlockDefaults(block).notation = notation /\ BlockDefaults(block).rule = rule
      /\ BlockDefaults(block).type = block.type /\ BlockDefaults(block).name = block.name
      /\ BlockDefaults(block).sdkRule = block.sdkRule
      /\ BlockDefaults(block).webhook = block.webhook
      /\ BlockDefaults(block).resolveToken = block.resolveToken
  BY <1>2, <1>3, <1>4 DEF Blocks
<1>6. notation = setNotationDefaults(block.notation)
  BY DEF notation
<1> QED
  BY <1>2, <1>3, <1>5, <1>6

MutatorBlock == {b \in Blocks : b.notation = {}}

\* A list of blocks keeps its length and its order when defaults are filled in.
LEMMA DefaultsOfBlocks ==
    ASSUME NEW S, S \in {Blocks, MutatorBlock}, NEW blocks \in Seq(S)
    PROVE  /\ WithDefaults(blocks) \in Seq(S)
           /\ Len(WithDefaults(blocks)) = Len(blocks)
           /\ DOMAIN WithDefaults(blocks) = 1 .. Len(blocks)
           /\ \A i \in 1 .. Len(blocks) : WithDefaults(blocks)[i] = BlockDefaults(blocks[i])
<1> DEFINE n == Len(blocks)
           after == [i \in 1 .. n |-> BlockDefaults(blocks[i])]
<1>1. n \in Nat /\ DOMAIN blocks = 1 .. n /\ \A i \in 1 .. n : blocks[i] \in S
  OBVIOUS
<1>2. WithDefaults(blocks) = after
  BY <1>1 DEF WithDefaults
<1>3. \A i \in 1 .. n : BlockDefaults(blocks[i]) \in S
  <2> SUFFICES ASSUME NEW i \in 1 .. n PROVE BlockDefaults(blocks[i]) \in S
    OBVIOUS
  <2> DEFINE block == blocks[i]
  <2>1. block \in S /\ block \in Blocks
    BY <1>1 DEF MutatorBlock
  <2> HIDE DEF block
  <2>2. BlockDefaults(block) \in Blocks /\ (block.notation = {} => BlockDefaults(block).notation = {})
    BY <2>1, DefaultsOfBlock
  <2>3. BlockDefaults(block) \in S
    BY <2>1, <2>2 DEF MutatorBlock
  <2> QED
    BY <2>3 DEF block
<1> HIDE DEF n
<1>4. after \in Seq(S) /\ Len(after) = n /\ DOMAIN after = 1 .. n
  BY <1>1, <1>3
<1>5. \A i \in 1 .. n : after[i] = BlockDefaults(blocks[i])
  OBVIOUS
<1> QED
  BY <1>2, <1>4, <1>5 DEF n

\* LoadConfig leaves everything but the notation blocks as it is written.
LEMMA DefaultsOfFile ==
    ASSUME written \in Configs
    PROVE  /\ FileConfig \in Configs
           /\ FileConfig = [written EXCEPT !.mutators = WithDefaults(written.mutators),
                                           !.validators = WithDefaults(written.validators)]
           /\ FileConfig.mutators = WithDefaults(written.mutators)
           /\ FileConfig.validators = WithDefaults(written.validators)
           /\ FileConfig.port = written.port /\ FileConfig.bind = written.bind
           /\ FileConfig.tls = written.tls /\ FileConfig.address = written.address
           /\ FileConfig.nomadTLS = written.nomadTLS /\ FileConfig.opaSdk = written.opaSdk
           /\ FileConfig.text = written.text /\ FileConfig.textOut = written.textOut
           /\ FileConfig.json = written.json /\ FileConfig.jsonOut = written.jsonOut
           /\ FileConfig.otel = written.otel
<1>1. written.mutators \in Seq(MutatorBlock) /\ written.validators \in Seq(Blocks)
  BY DEF Configs, MutatorBlock
<1>2. WithDefaults(written.mutators) \in Seq(MutatorBlock)
  BY <1>1, DefaultsOfBlocks
<1>3. WithDefaults(written.validators) \in Seq(Blocks)
  BY <1>1, DefaultsOfBlocks
<1> DEFINE ms == WithDefaults(written.mutators)
           vs == WithDefaults(written.validators)
<1>4. FileConfig = [written EXCEPT !.mutators = ms, !.validators = vs]
  BY DEF FileConfig
<1>5. ms \in Seq({b \in Blocks : b.notation = {}}) /\ vs \in Seq(Blocks)
  BY <1>2, <1>3 DEF MutatorBlock
<1> HIDE DEF ms, vs
<1>6. FileConfig \in Configs
  BY <1>4, <1>5 DEF Configs
<1>7. /\ FileConfig.mutators = ms /\ FileConfig.validators = vs
      /\ FileConfig.port = written.port /\ FileConfig.bind = written.bind
      /\ FileConfig.tls = written.tls /\ FileConfig.address = written.address
      /\ FileConfig.nomadTLS = written.nomadTLS /\ FileConfig.opaSdk = written.opaSdk
      /\ FileConfig.text = written.text /\ FileConfig.textOut = written.textOut
      /\ FileConfig.json = written.json /\ FileConfig.jsonOut = written.jsonOut
      /\ FileConfig.otel = written.otel
  BY <1>4 DEF Configs
<1> QED
  BY <1>4, <1>6, <1>7 DEF ms, vs

\* The defaults are a configuration, and filling them in changes nothing.
LEMMA DefaultIsAConfig ==
    /\ DefaultConfig \in Configs
    /\ written = DefaultConfig => FileConfig = DefaultConfig
<1>1. DefaultConfig \in Configs
  <2>1. \A S : {} \in Pointer(S) /\ \A x \in S : {x} \in Pointer(S)
    BY DEF Pointer
  <2>2. {TRUE} \in Pointer(BOOLEAN) /\ {FALSE} \in Pointer(BOOLEAN)
    BY <2>1
  <2>3. {"stdout"} \in Pointer(Streams \cup {"elsewhere"})
    BY <2>1 DEF Streams
  <2>4. <<>> \in Seq(Blocks) /\ <<>> \in Seq({b \in Blocks : b.notation = {}})
    OBVIOUS
  <2>5. 6464 \in Int /\ "info" \in Levels \cup {"unknown"}
    BY DEF Levels
  <2> QED
    BY <2>1, <2>2, <2>3, <2>4, <2>5 DEF DefaultConfig, Configs
<1>2. WithDefaults(<<>>) = <<>>
  BY DEF WithDefaults
<1>3. ASSUME written = DefaultConfig PROVE FileConfig = DefaultConfig
  <2>1. DefaultConfig.mutators = <<>> /\ DefaultConfig.validators = <<>>
    BY DEF DefaultConfig
  <2>2. FileConfig = [DefaultConfig EXCEPT !.mutators = <<>>, !.validators = <<>>]
    BY <1>2, <1>3, <2>1 DEF FileConfig
  <2>3. \A d \in Configs :
           [d EXCEPT !.mutators = d.mutators, !.validators = d.validators] = d
    BY DEF Configs
  <2> QED
    BY <1>1, <2>1, <2>2, <2>3
<1> QED
  BY <1>1, <1>3

-----------------------------------------------------------------------------
(* The checks of Validate are exactly WellFormed *)

\* A block passes its check iff it is good as it was written.
LEMMA ValidMutatorIsGood ==
    ASSUME NEW block \in Blocks, block.notation = {}, c.opaSdk \in Pointer({"named", "blank"})
    PROVE  validateMutator(BlockDefaults(block))
              <=> block.type \in MutatorTypes /\ GoodBlock(block, c.opaSdk # {})
<1> DEFINE after == BlockDefaults(block)
<1>1. /\ after.type = block.type /\ after.name = block.name
      /\ after.sdkRule = block.sdkRule /\ after.webhook = block.webhook
      /\ validateOpaRule(after.rule)
            <=> \E r \in block.rule : r.filled /\ \A n \in r.notation : GoodNotation(n)
  BY DefaultsOfBlock
<1> HIDE DEF after
<1>2. validateMutator(after)
         <=> /\ block.name # ""
             /\ \/ block.type = "opa_json_patch" /\ validateOpaRule(after.rule)
                \/ block.type = "json_patch_webhook" /\ block.webhook = {"callable"}
                \/ /\ block.type = "opa_bundle_json_patch"
                   /\ c.opaSdk # {} /\ block.sdkRule = {"path"}
  BY <1>1 DEF validateMutator, validateWebhook, validateOpaSDKRule
<1>3. block.type \in MutatorTypes /\ GoodBlock(block, c.opaSdk # {})
         <=> /\ block.name # ""
             /\ \/ /\ block.type = "opa_json_patch"
                   /\ \E r \in block.rule : r.filled /\ \A n \in r.notation : GoodNotation(n)
                \/ block.type = "json_patch_webhook" /\ block.webhook = {"callable"}
                \/ /\ block.type = "opa_bundle_json_patch"
                   /\ c.opaSdk # {} /\ block.sdkRule = {"path"}
  BY DEF MutatorTypes, GoodBlock
<1> QED
  BY <1>1, <1>2, <1>3 DEF after

\* The same of a validator, whose own notation block is looked at as well.
LEMMA ValidValidatorIsGood ==
    ASSUME NEW block \in Blocks, c.opaSdk \in Pointer({"named", "blank"})
    PROVE  validateValidator(BlockDefaults(block))
              <=> block.type \in ValidatorTypes /\ GoodBlock(block, c.opaSdk # {})
<1> DEFINE after == BlockDefaults(block)
           notation == setNotationDefaults(block.notation)
<1>1. /\ after.type = block.type /\ after.name = block.name
      /\ after.sdkRule = block.sdkRule /\ after.webhook = block.webhook
      /\ after.notation = notation
      /\ validateOpaRule(after.rule)
            <=> \E r \in block.rule : r.filled /\ \A n \in r.notation : GoodNotation(n)
  BY DefaultsOfBlock
<1>2. block.notation \in Pointer(NotationVerifierConfig)
  BY DEF Blocks
<1>3. /\ (notation = {}) <=> (block.notation = {})
      /\ validateNotation(notation) <=> \E n \in block.notation : GoodNotation(n)
  BY <1>2, NotationDefaults
<1>4. \A x, y \in block.notation : x = y
  BY <1>2 DEF Pointer
<1> HIDE DEF after, notation
<1>5. (notation # {} => validateNotation(notation))
         <=> \A n \in block.notation : GoodNotation(n)
  BY <1>3, <1>4
<1>6. validateValidator(after)
         <=> /\ block.name # ""
             /\ \/ /\ block.type = "opa" /\ validateOpaRule(after.rule)
                   /\ notation # {} => validateNotation(notation)
                \/ block.type = "webhook" /\ block.webhook = {"callable"}
                \/ block.type = "opa_bundle" /\ c.opaSdk # {} /\ block.sdkRule = {"path"}
                \/ block.type = "notation" /\ validateNotation(notation)
  BY <1>1 DEF validateValidator, validateWebhook, validateOpaSDKRule
<1>7. block.type \in ValidatorTypes /\ GoodBlock(block, c.opaSdk # {})
         <=> /\ block.name # ""
             /\ \/ /\ block.type = "opa"
                   /\ \E r \in block.rule : r.filled /\ \A n \in r.notation : GoodNotation(n)
                   /\ \A n \in block.notation : GoodNotation(n)
                \/ block.type = "webhook" /\ block.webhook = {"callable"}
                \/ block.type = "opa_bundle" /\ c.opaSdk # {} /\ block.sdkRule = {"path"}
                \/ block.type = "notation" /\ \E n \in block.notation : GoodNotation(n)
  BY DEF ValidatorTypes, GoodBlock
<1> QED
  BY <1>1, <1>3, <1>5, <1>6, <1>7 DEF after

\* A configuration has as many blocks as its two lists have.
LEMMA CountIsANumber ==
    ASSUME NEW d \in Configs
    PROVE  Len(d.mutators) \in Nat /\ Len(d.validators) \in Nat
<1>1. d.mutators \in Seq({b \in Blocks : b.notation = {}}) /\ d.validators \in Seq(Blocks)
  BY DEF Configs
<1> QED
  BY <1>1

\* What validateControllers goes over, by position in the two lists.
LEMMA BlocksByPosition ==
    ASSUME c \in Configs
    PROVE  /\ MutatorCount \in Nat /\ ValidatorCount \in Nat /\ BlockCount \in Nat
           /\ \A k \in 1 .. MutatorCount :
                 k \in 1 .. BlockCount /\ InMutators(k) /\ BlockAt(k) = c.mutators[k]
           /\ \A k \in 1 .. ValidatorCount :
                 /\ MutatorCount + k \in 1 .. BlockCount
                 /\ ~InMutators(MutatorCount + k)
                 /\ BlockAt(MutatorCount + k) = c.validators[k]
           /\ \A p \in 1 .. BlockCount :
                 \/ p \in 1 .. MutatorCount
                 \/ \E k \in 1 .. ValidatorCount : p = MutatorCount + k
<1> DEFINE m == MutatorCount
           n == ValidatorCount
<1>1. m \in Nat /\ n \in Nat
  BY CountIsANumber DEF MutatorCount, ValidatorCount
<1>2. \A k : InMutators(k) <=> k <= m
  BY DEF InMutators
<1>3. \A k : BlockAt(k) = IF InMutators(k) THEN c.mutators[k] ELSE c.validators[k - m]
  BY DEF BlockAt
<1>4. BlockCount = m + n
  BY DEF BlockCount
<1> HIDE DEF m, n
<1>5. \A k \in 1 .. m : k \in 1 .. BlockCount /\ InMutators(k) /\ BlockAt(k) = c.mutators[k]
  BY <1>1, <1>2, <1>3, <1>4
<1>6. \A k \in 1 .. n : /\ m + k \in 1 .. BlockCount /\ ~InMutators(m + k)
                        /\ BlockAt(m + k) = c.validators[k]
  <2> SUFFICES ASSUME NEW k \in 1 .. n
               PROVE  /\ m + k \in 1 .. BlockCount /\ ~InMutators(m + k)
                      /\ BlockAt(m + k) = c.validators[k]
    OBVIOUS
  <2>1. ~ (m + k <= m) /\ (m + k) - m = k /\ m + k \in 1 .. BlockCount
    BY <1>1, <1>4
  <2> QED
    BY <1>2, <1>3, <2>1
<1>7. \A p \in 1 .. BlockCount : p \in 1 .. m \/ \E k \in 1 .. n : p = m + k
  <2> SUFFICES ASSUME NEW p \in 1 .. BlockCount, p \notin 1 .. m
               PROVE  \E k \in 1 .. n : p = m + k
    OBVIOUS
  <2>1. p - m \in 1 .. n /\ p = m + (p - m)
    BY <1>1, <1>4
  <2> QED
    BY <2>1
<1>8. BlockCount \in Nat
  BY <1>1, <1>4
<1> QED
  BY <1>1, <1>5, <1>6, <1>7, <1>8 DEF m, n

\* A key is of one kind and one name.
LEMMA PairKeys ==
    ASSUME NEW kind, NEW name, NEW otherKind, NEW otherName,
           <<kind, name>> = <<otherKind, otherName>>
    PROVE  kind = otherKind /\ name = otherName
OBVIOUS

\* validateControllers accepts the blocks iff each is good and no two of a kind
\* share a name.
LEMMA BlocksAreExact ==
    ASSUME written \in Configs, c = FileConfig
    PROVE  BlocksValid(BlockCount)
              <=> /\ \A i \in DOMAIN written.mutators :
                        /\ written.mutators[i].type \in MutatorTypes
                        /\ GoodBlock(written.mutators[i], written.opaSdk # {})
                  /\ \A i \in DOMAIN written.validators :
                        /\ written.validators[i].type \in ValidatorTypes
                        /\ GoodBlock(written.validators[i], written.opaSdk # {})
                  /\ Unambiguous(written.mutators) /\ Unambiguous(written.validators)
<1> DEFINE ms == written.mutators
           vs == written.validators
           m == Len(ms)
           n == Len(vs)
           Good(block) == GoodBlock(block, written.opaSdk # {})
<1>1. c \in Configs /\ c.opaSdk = written.opaSdk /\ c.opaSdk \in Pointer({"named", "blank"})
  BY DefaultsOfFile DEF Configs
<1>2. ms \in Seq(MutatorBlock) /\ vs \in Seq(Blocks)
  BY DEF Configs, MutatorBlock
<1>3. m \in Nat /\ n \in Nat /\ DOMAIN ms = 1 .. m /\ DOMAIN vs = 1 .. n
  BY <1>2
<1>4. /\ MutatorCount = m
      /\ \A k \in 1 .. m : c.mutators[k] = BlockDefaults(ms[k])
  BY <1>2, DefaultsOfFile, DefaultsOfBlocks DEF MutatorCount
<1>5. /\ ValidatorCount = n
      /\ \A k \in 1 .. n : c.validators[k] = BlockDefaults(vs[k])
  BY <1>2, DefaultsOfFile, DefaultsOfBlocks DEF ValidatorCount
<1>6. \A k \in 1 .. m :
         /\ validateMutator(c.mutators[k]) <=> ms[k].type \in MutatorTypes /\ Good(ms[k])
         /\ c.mutators[k].name = ms[k].name
  <2> SUFFICES ASSUME NEW k \in 1 .. m
               PROVE  /\ validateMutator(c.mutators[k])
                            <=> ms[k].type \in MutatorTypes /\ Good(ms[k])
                      /\ c.mutators[k].name = ms[k].name
    OBVIOUS
  <2> DEFINE block == ms[k]
  <2>1. block \in Blocks /\ block.notation = {}
    BY <1>2, <1>3 DEF MutatorBlock
  <2> HIDE DEF block
  <2>2. BlockDefaults(block).name = block.name
    BY <2>1, DefaultsOfBlock
  <2>3. validateMutator(BlockDefaults(block))
           <=> block.type \in MutatorTypes /\ GoodBlock(block, c.opaSdk # {})
    BY <1>1, <2>1, ValidMutatorIsGood
  <2> QED
    BY <1>1, <1>4, <2>2, <2>3 DEF block
<1>7. \A k \in 1 .. n :
         /\ validateValidator(c.validators[k]) <=> vs[k].type \in ValidatorTypes /\ Good(vs[k])
         /\ c.validators[k].name = vs[k].name
  <2> SUFFICES ASSUME NEW k \in 1 .. n
               PROVE  /\ validateValidator(c.validators[k])
                            <=> vs[k].type \in ValidatorTypes /\ Good(vs[k])
                      /\ c.validators[k].name = vs[k].name
    OBVIOUS
  <2> DEFINE block == vs[k]
  <2>1. block \in Blocks
    BY <1>2, <1>3
  <2> HIDE DEF block
  <2>2. BlockDefaults(block).name = block.name
    BY <2>1, DefaultsOfBlock
  <2>3. validateValidator(BlockDefaults(block))
           <=> block.type \in ValidatorTypes /\ GoodBlock(block, c.opaSdk # {})
    BY <1>1, <2>1, ValidValidatorIsGood
  <2> QED
    BY <1>1, <1>5, <2>2, <2>3 DEF block
<1> DEFINE MutatorsGood == \A k \in 1 .. m : ms[k].type \in MutatorTypes /\ Good(ms[k])
           ValidatorsGood == \A k \in 1 .. n : vs[k].type \in ValidatorTypes /\ Good(vs[k])
<1>8. /\ \A k \in 1 .. m : /\ k \in 1 .. BlockCount
                           /\ validBlock(k) <=> validateMutator(c.mutators[k])
                           /\ Key(k) = <<"mutator", ms[k].name>>
      /\ \A k \in 1 .. n : /\ m + k \in 1 .. BlockCount
                           /\ validBlock(m + k) <=> validateValidator(c.validators[k])
                           /\ Key(m + k) = <<"validator", vs[k].name>>
      /\ \A p \in 1 .. BlockCount : p \in 1 .. m \/ \E k \in 1 .. n : p = m + k
  <2> HIDE DEF ms, vs, m, n
  <2>1. /\ \A k \in 1 .. m : k \in 1 .. BlockCount /\ InMutators(k) /\ BlockAt(k) = c.mutators[k]
        /\ \A k \in 1 .. n : /\ m + k \in 1 .. BlockCount /\ ~InMutators(m + k)
                             /\ BlockAt(m + k) = c.validators[k]
        /\ \A p \in 1 .. BlockCount : p \in 1 .. m \/ \E k \in 1 .. n : p = m + k
    BY <1>1, <1>4, <1>5, BlocksByPosition
  <2>2. \A k : Key(k) = <<IF InMutators(k) THEN "mutator" ELSE "validator", BlockAt(k).name>>
    BY DEF Key
  <2>3. \A k : validBlock(k) <=> IF InMutators(k) THEN validateMutator(BlockAt(k))
                                                   ELSE validateValidator(BlockAt(k))
    BY DEF validBlock
  <2>4. \A k \in 1 .. m : validBlock(k) <=> validateMutator(c.mutators[k])
    BY <2>1, <2>3, Zenon
  <2>5. \A k \in 1 .. n : validBlock(m + k) <=> validateValidator(c.validators[k])
    BY <2>1, <2>3, Zenon
  <2> QED
    BY <1>6, <1>7, <2>1, <2>2, <2>4, <2>5
<1>9. (\A p \in 1 .. BlockCount : validBlock(p)) <=> MutatorsGood /\ ValidatorsGood
  <2> HIDE DEF ms, vs, m, n, Good
  <2> QED
    BY <1>6, <1>7, <1>8
<1>10. (\A j, k \in 1 .. BlockCount : Key(j) = Key(k) => j = k)
          <=> Unambiguous(ms) /\ Unambiguous(vs)
  <2>1. Unambiguous(ms) <=> \A i, k \in 1 .. m : ms[i].name = ms[k].name => i = k
    BY <1>3 DEF Unambiguous
  <2>2. Unambiguous(vs) <=> \A i, k \in 1 .. n : vs[i].name = vs[k].name => i = k
    BY <1>3 DEF Unambiguous
  <2> HIDE DEF ms, vs, m, n
  <2>3. \A i, k \in 1 .. n : m + i = m + k <=> i = k
    BY <1>3
  <2>4. ASSUME \A j, k \in 1 .. BlockCount : Key(j) = Key(k) => j = k
        PROVE  Unambiguous(ms) /\ Unambiguous(vs)
    <3>1. ASSUME NEW i \in 1 .. m, NEW k \in 1 .. m, ms[i].name = ms[k].name PROVE i = k
      BY <1>8, <2>4, <3>1
    <3>2. ASSUME NEW i \in 1 .. n, NEW k \in 1 .. n, vs[i].name = vs[k].name PROVE i = k
      <4>1. Key(m + i) = Key(m + k) /\ m + i \in 1 .. BlockCount /\ m + k \in 1 .. BlockCount
        BY <1>8, <3>2
      <4> QED
        BY <2>3, <2>4, <4>1
    <3> QED
      BY <2>1, <2>2, <3>1, <3>2
  <2>5. ASSUME Unambiguous(ms), Unambiguous(vs),
               NEW j \in 1 .. BlockCount, NEW k \in 1 .. BlockCount, Key(j) = Key(k)
        PROVE  j = k
    <3>1. CASE j \in 1 .. m /\ k \in 1 .. m
      BY <1>8, <2>1, <2>5, <3>1
    <3>2. CASE \E i \in 1 .. n : j = m + i
      <4>1. PICK i \in 1 .. n : j = m + i
        BY <3>2
      <4>2. Key(j) = <<"validator", vs[i].name>>
        BY <1>8, <4>1
      <4>3. CASE k \in 1 .. m
        <5>1. Key(k) = <<"mutator", ms[k].name>>
          BY <1>8, <4>3
        <5>2. Key(j) = Key(k)
          BY <2>5
        <5>3. <<"validator", vs[i].name>> = <<"mutator", ms[k].name>>
          BY <4>2, <5>1, <5>2
        <5> QED
          BY <5>3, PairKeys
      <4>4. CASE \E l \in 1 .. n : k = m + l
        <5>1. PICK l \in 1 .. n : k = m + l
          BY <4>4
        <5>2. Key(k) = <<"validator", vs[l].name>>
          BY <1>8, <5>1
        <5>3. vs[i].name = vs[l].name
          <6>1. Key(j) = Key(k)
            BY <2>5
          <6>2. <<"validator", vs[i].name>> = <<"validator", vs[l].name>>
            BY <4>2, <5>2, <6>1
          <6> QED
            BY <6>2, PairKeys
        <5> QED
          BY <2>2, <2>5, <4>1, <5>1, <5>3
      <4> QED
        BY <1>8, <4>3, <4>4
    <3>3. CASE j \in 1 .. m /\ \E l \in 1 .. n : k = m + l
      BY <1>8, <2>5, <3>3
    <3> QED
      BY <1>8, <3>1, <3>2, <3>3
  <2> QED
    BY <2>4, <2>5
<1> QED
  BY <1>3, <1>9, <1>10 DEF BlocksValid

\* A port number is one that a listener can have.
LEMMA PortRange ==
    ASSUME NEW port \in Int
    PROVE  port \in Ports <=> port > 0 /\ port < 65536
BY DEF Ports

\* The checks refuse a configuration iff it is not well formed.
LEMMA ChecksAreExact ==
    ASSUME written \in Configs, c = FileConfig
    PROVE  WellFormed(written)
              <=> /\ "elsewhere" \notin c.textOut \cup c.jsonOut
                  /\ SettingsValid
                  /\ BlocksValid(BlockCount)
<1>1. /\ written.port \in Int /\ written.bind \in {"address", "blank"}
      /\ written.opaSdk \in Pointer({"named", "blank"})
  BY DEF Configs
<1>2. "blank" \notin written.opaSdk <=> written.opaSdk # {"blank"}
  BY <1>1 DEF Pointer
<1>3. /\ \A tls \in written.nomadTLS : tls.cert \in BOOLEAN /\ tls.key \in BOOLEAN
  BY DEF Configs, Pointer
<1>4. SettingsValid
         <=> /\ written.port > 0 /\ written.port < 65536 /\ written.bind = "address"
             /\ \A tls \in written.tls : tls.pair
             /\ written.address = "absolute"
             /\ \A tls \in written.nomadTLS : tls.cert <=> tls.key
             /\ written.opaSdk # {"blank"}
  <2>1. /\ c.port = written.port /\ c.bind = written.bind /\ c.tls = written.tls
        /\ c.address = written.address /\ c.nomadTLS = written.nomadTLS
        /\ c.opaSdk = written.opaSdk
    BY DefaultsOfFile
  <2>2. (\A tls \in written.nomadTLS : tls.cert = tls.key)
           <=> (\A tls \in written.nomadTLS : tls.cert <=> tls.key)
    BY <1>3
  <2>3. written.port \in Ports <=> written.port > 0 /\ written.port < 65536
    BY <1>1, PortRange
  <2>4. written.bind # "blank" <=> written.bind = "address"
    BY <1>1
  <2>5. SettingsValid
           <=> /\ written.port \in Ports /\ written.bind # "blank"
               /\ \A tls \in written.tls : tls.pair
               /\ written.address = "absolute"
               /\ \A tls \in written.nomadTLS : tls.cert = tls.key
               /\ "blank" \notin written.opaSdk
    BY <2>1, Zenon DEF SettingsValid, validateListener, validateNomadConfig
  <2> QED
    BY <1>2, <2>2, <2>3, <2>4, <2>5
<1>5. c.textOut = written.textOut /\ c.jsonOut = written.jsonOut
  BY DefaultsOfFile
<1> QED
  BY <1>4, <1>5, BlocksAreExact DEF WellFormed

-----------------------------------------------------------------------------
(* Where main is, and what it has read *)

\* The given file is not written, and neither is the configuration once read.
LEMMA ConfigIsKept ==
    ASSUME [Next]_vars
    PROVE  /\ given' = given /\ written' = written /\ readable' = readable
           /\ stage = "config" => buildConfig \/ UNCHANGED vars
           /\ stage # "config" => c' = c
<1> USE DEF inputVars, loopVars, builtVars, vars
<1>1. CASE buildConfig
  BY <1>1 DEF buildConfig
<1>2. CASE CheckOuts
  BY <1>2 DEF CheckOuts
<1>3. CASE ValidateSettings \/ ValidateBlock \/ Validated
  BY <1>3 DEF ValidateSettings, ValidateBlock, Validated
<1>4. CASE NewLoggerFactoryFromConfig \/ setupOpaSDK \/ Transport \/ LoopEnds
  BY <1>4 DEF NewLoggerFactoryFromConfig, setupOpaSDK, Transport, LoopEnds
<1>5. CASE createMutator
  BY <1>5 DEF createMutator
<1>6. CASE createValidator
  BY <1>6 DEF createValidator
<1>7. CASE ListenerTLS
  BY <1>7 DEF ListenerTLS
<1>8. CASE Ended \/ UNCHANGED vars
  BY <1>8 DEF Ended
<1> QED
  BY <1>1, <1>2, <1>3, <1>4, <1>5, <1>6, <1>7, <1>8 DEF Next

\* LoadConfig reads what is written, and fails where it cannot be read.
LEMMA LoadedStep ==
    ASSUME ConfigInv, [Next]_vars
    PROVE  Loaded'
<1>1. given' = given /\ written' = written
  BY ConfigIsKept
<1>2. Loaded
  BY DEF ConfigInv
<1>3. CASE stage = "config"
  <2>1. CASE UNCHANGED vars
    BY <1>2, <2>1 DEF Loaded, FileConfig, vars, inputVars, loopVars, builtVars
  <2>2. CASE buildConfig
    <3>1. c = DefaultConfig /\ (given = "absent" => written = DefaultConfig)
      BY <1>2, <1>3 DEF Loaded
    <3>2. given = "absent" => FileConfig = DefaultConfig
      BY <3>1, DefaultIsAConfig
    <3>3. FileConfig' = FileConfig
      BY <1>1 DEF FileConfig
    <3>4. given = "file" => c' = FileConfig /\ stage' = "outs"
      BY <2>2 DEF buildConfig, FileConfig, GoTo
    <3>5. given = "absent" => c' = c /\ stage' = "settings"
      BY <2>2 DEF buildConfig, GoTo
    <3>6. given = "unreadable" => c' = c /\ stage' = "stopped" /\ why' = "unreadable"
      BY <2>2 DEF buildConfig, Stop
    <3> QED
      BY <1>1, <1>2, <3>1, <3>2, <3>3, <3>4, <3>5, <3>6 DEF Loaded
  <2> QED
    BY <1>3, <2>1, <2>2, ConfigIsKept
<1>4. CASE stage # "config"
  <2>1. c' = c
    BY <1>4, ConfigIsKept
  <2>2. stage' # "config"
    BY <1>4 DEF Next, buildConfig, CheckOuts, ValidateSettings, ValidateBlock, Validated,
                NewLoggerFactoryFromConfig, setupOpaSDK, Transport, createMutator,
                createValidator, LoopEnds, ListenerTLS, Ended, vars, Stop, GoTo, Round
  <2>3. given = "unreadable" => why' = why
    <3>1. given = "unreadable" => why # "none" /\ stage = "stopped"
      BY <1>2, <1>4 DEF Loaded, ConfigInv, ConfigTypeOK
    <3> QED
      BY <3>1 DEF Next, buildConfig, CheckOuts, ValidateSettings, ValidateBlock, Validated,
                  NewLoggerFactoryFromConfig, setupOpaSDK, Transport, createMutator,
                  createValidator, LoopEnds, ListenerTLS, Ended, vars
  <2>4. FileConfig' = FileConfig
    BY <1>1 DEF FileConfig
  <2> QED
    BY <1>1, <1>2, <1>4, <2>1, <2>2, <2>3, <2>4 DEF Loaded
<1> QED
  BY <1>3, <1>4

\* Whatever is read is a configuration; before it is read there are no blocks.
LEMMA ConfigIsTyped ==
    ASSUME ConfigInv, [Next]_vars
    PROVE  /\ c \in Configs /\ c' \in Configs
           /\ MutatorCount' \in Nat /\ ValidatorCount' \in Nat /\ BlockCount' \in Nat
           /\ MutatorCount \in Nat /\ ValidatorCount \in Nat /\ BlockCount \in Nat
           /\ BlockCount = MutatorCount + ValidatorCount
           /\ stage = "config" => at = 1 /\ BlockCount = 0
           /\ stage # "config" => /\ BlockCount' = BlockCount /\ MutatorCount' = MutatorCount
                                  /\ ValidatorCount' = ValidatorCount
<1>1. Loaded /\ Loaded' /\ given' = given /\ written' = written
  BY LoadedStep, ConfigIsKept DEF ConfigInv
<1>2. written \in Configs
  BY <1>1, DefaultIsAConfig DEF Loaded
<1>3. FileConfig' = FileConfig /\ FileConfig \in Configs /\ DefaultConfig \in Configs
  BY <1>1, <1>2, DefaultsOfFile, DefaultIsAConfig DEF FileConfig
<1>4. c' \in Configs /\ c \in Configs
  BY <1>1, <1>3 DEF Loaded
<1>5. /\ MutatorCount' \in Nat /\ ValidatorCount' \in Nat
      /\ MutatorCount \in Nat /\ ValidatorCount \in Nat
  BY <1>4, CountIsANumber DEF MutatorCount, ValidatorCount
<1>6. /\ BlockCount' = MutatorCount' + ValidatorCount'
      /\ BlockCount = MutatorCount + ValidatorCount
  BY DEF BlockCount
<1>7. BlockCount \in Nat /\ BlockCount' \in Nat
  <2>1. BlockCount \in Nat
    BY <1>5, <1>6
  <2>2. BlockCount' \in Nat
    <3> DEFINE m == MutatorCount'
               n == ValidatorCount'
               b == BlockCount'
    <3>1. m \in Nat /\ n \in Nat /\ b = m + n
      BY <1>5, <1>6
    <3> HIDE DEF m, n, b
    <3>2. b \in Nat
      BY <3>1
    <3> QED
      BY <3>2 DEF b
  <2> QED
    BY <2>1, <2>2
<1>8. stage = "config" => at = 1 /\ BlockCount = 0
  <2> SUFFICES ASSUME stage = "config" PROVE at = 1 /\ BlockCount = 0
    OBVIOUS
  <2>1. c = DefaultConfig
    BY <1>1 DEF Loaded
  <2>2. c.mutators = <<>> /\ c.validators = <<>>
    BY <2>1 DEF DefaultConfig
  <2>3. BlockCount = 0
    BY <1>6, <2>2 DEF MutatorCount, ValidatorCount
  <2>4. at \in 1 .. BlockCount + 1
    BY DEF ConfigInv, Phases
  <2> QED
    BY <2>3, <2>4
<1>9. stage # "config" => /\ BlockCount' = BlockCount /\ MutatorCount' = MutatorCount
                          /\ ValidatorCount' = ValidatorCount
  BY ConfigIsKept DEF BlockCount, MutatorCount, ValidatorCount
<1> QED
  BY <1>4, <1>5, <1>6, <1>7, <1>8, <1>9

\* main goes from place to place in one order, and validates twice.
LEMMA PhasesStep ==
    ASSUME ConfigInv, [Next]_vars
    PROVE  Phases'
<1> USE DEF inputVars, loopVars, builtVars, vars, GoTo, Stop
<1>1. Phases /\ passed \in 0 .. 2
  BY DEF ConfigInv, ConfigTypeOK
<1>2. /\ MutatorCount \in Nat /\ ValidatorCount \in Nat
      /\ BlockCount = MutatorCount + ValidatorCount /\ BlockCount \in Nat
      /\ BlockCount' \in Nat
      /\ stage = "config" => at = 1
      /\ stage # "config" => /\ BlockCount' = BlockCount /\ MutatorCount' = MutatorCount
                             /\ ValidatorCount' = ValidatorCount
  BY ConfigIsTyped, ConfigIsKept
<1>3. at \in 1 .. BlockCount + 1
  BY <1>1, <1>2 DEF Phases
<1>4. CASE buildConfig
  <2>1. given \in {"absent", "unreadable", "file"}
    BY DEF ConfigInv, Loaded
  <2>2. stage' \in {"settings", "outs", "stopped"}
    BY <1>4, <2>1 DEF buildConfig
  <2>3. at' = 1 /\ passed' = 0
    BY <1>1, <1>2, <1>4 DEF buildConfig, Phases
  <2>4. 1 \in 1 .. BlockCount' + 1
    <3> DEFINE b == BlockCount'
    <3>1. b \in Nat
      BY <1>2
    <3> HIDE DEF b
    <3>2. 1 \in 1 .. b + 1
      BY <3>1
    <3> QED
      BY <3>2 DEF b
  <2> QED
    BY <2>2, <2>3, <2>4 DEF Phases, Building
<1>5. CASE CheckOuts
  <2>1. stage' \in {"settings", "stopped"} /\ at' = at /\ passed' = passed /\ passed = 0
    BY <1>1, <1>5 DEF CheckOuts, Phases
  <2> QED
    BY <1>2, <1>3, <1>5, <2>1 DEF Phases, Building, CheckOuts
<1>6. CASE ValidateSettings
  BY <1>1, <1>2, <1>6 DEF ValidateSettings, Phases, Building
<1>7. CASE ValidateBlock
  BY <1>1, <1>2, <1>3, <1>7 DEF ValidateBlock, Phases, Building
<1>8. CASE Validated
  BY <1>1, <1>2, <1>8 DEF Validated, Phases, Building
<1>9. CASE NewLoggerFactoryFromConfig
  BY <1>1, <1>2, <1>3, <1>9 DEF NewLoggerFactoryFromConfig, Phases, Building
<1>10. CASE setupOpaSDK
  BY <1>1, <1>2, <1>3, <1>10 DEF setupOpaSDK, Phases, Building
<1>11. CASE Transport
  BY <1>1, <1>2, <1>3, <1>11 DEF Transport, Phases, Building
<1>12. CASE createMutator
  <2>1. /\ \/ stage' = stage /\ at' = at + 1
           \/ stage' = "stopped" /\ at' = at
        /\ passed' = passed /\ stage = "mutators" /\ at <= MutatorCount
    BY <1>12 DEF createMutator, Round
  <2> QED
    BY <1>1, <1>2, <1>3, <2>1 DEF Phases, Building
<1>13. CASE createValidator
  <2>1. /\ \/ stage' = stage /\ at' = at + 1
           \/ stage' = "stopped" /\ at' = at
        /\ passed' = passed /\ stage = "validators" /\ at <= ValidatorCount
    BY <1>13 DEF createValidator, Round
  <2> QED
    BY <1>1, <1>2, <1>3, <2>1 DEF Phases, Building
<1>14. CASE LoopEnds
  <2>1. /\ stage \in {"mutators", "validators"} /\ stage' \in {"validators", "listener"}
        /\ at' = 1 /\ passed' = passed
    BY <1>14 DEF LoopEnds
  <2>2. 1 \in 1 .. BlockCount + 1 /\ 1 <= ValidatorCount + 1
    BY <1>2
  <2> QED
    BY <1>1, <1>2, <2>1, <2>2 DEF Phases, Building
<1>15. CASE ListenerTLS
  BY <1>1, <1>2, <1>3, <1>15 DEF ListenerTLS, Phases, Building
<1>16. CASE Ended \/ UNCHANGED vars
  BY <1>1, <1>16 DEF Ended, Phases, BlockCount, MutatorCount, ValidatorCount
<1> QED
  BY <1>4, <1>5, <1>6, <1>7, <1>8, <1>9, <1>10, <1>11, <1>12, <1>13, <1>14, <1>15, <1>16
     DEF Next

-----------------------------------------------------------------------------
(* What the checks have established *)

\* The checks read the configuration only.
LEMMA ChecksReadTheConfig ==
    ASSUME c' = c
    PROVE  /\ OutsOpen' <=> OutsOpen
           /\ SettingsValid' <=> SettingsValid
           /\ \A k : (validBlock(k)' <=> validBlock(k)) /\ Key(k)' = Key(k)
           /\ \A n : BlocksValid(n)' <=> BlocksValid(n)
<1>1. OutsOpen' <=> OutsOpen
  BY DEF OutsOpen
<1>2. SettingsValid' <=> SettingsValid
  BY DEF SettingsValid, validateListener, validateNomadConfig
<1>3. \A k : BlockAt(k)' = BlockAt(k) /\ (InMutators(k)' <=> InMutators(k))
  BY DEF BlockAt, InMutators, MutatorCount
<1>4. \A k : Key(k)' = Key(k)
  BY DEF Key, BlockAt, InMutators, MutatorCount
<1>5. \A k : validBlock(k)' <=> validBlock(k)
  BY DEF validBlock, BlockAt, InMutators, MutatorCount,
         validateMutator, validateValidator, validateOpaSDKRule
<1>6. \A n : BlocksValid(n)' <=> BlocksValid(n)
  BY <1>4, <1>5 DEF BlocksValid
<1> QED
  BY <1>1, <1>2, <1>4, <1>5, <1>6

\* One more block that is valid under a key not met before.
LEMMA OneMoreBlock ==
    ASSUME NEW n \in Nat, BlocksValid(n), validBlock(n + 1),
           Key(n + 1) \notin {Key(k) : k \in 1 .. n}
    PROVE  BlocksValid(n + 1)
<1>1. \A k \in 1 .. n + 1 : k \in 1 .. n \/ k = n + 1
  OBVIOUS
<1>2. \A k \in 1 .. n : Key(k) # Key(n + 1)
  OBVIOUS
<1> QED
  BY <1>1, <1>2 DEF BlocksValid

\* What validateControllers has met, one block further.
LEMMA OneMoreKey ==
    ASSUME NEW n \in Nat
    PROVE  {Key(k) : k \in 1 .. n} \cup {Key(n + 1)} = {Key(k) : k \in 1 .. n + 1}
<1>1. \A k : k \in 1 .. n + 1 <=> k \in 1 .. n \/ k = n + 1
  OBVIOUS
<1> QED
  BY <1>1

\* The outputs of the default configuration are streams.
LEMMA DefaultOutsOpen ==
    c' = DefaultConfig => OutsOpen'
<1>1. DefaultConfig.textOut = {"stdout"} /\ DefaultConfig.jsonOut = {"stdout"}
  BY DEF DefaultConfig
<1> QED
  BY <1>1 DEF OutsOpen, Streams

\* What a check has established about the configuration is not lost, and
\* Validate returns only when all of it is established.
LEMMA CheckedStep ==
    ASSUME ConfigInv, [Next]_vars
    PROVE  Checked'
<1> USE DEF inputVars, loopVars, builtVars, vars, GoTo, Stop
<1>1. Checked /\ Phases /\ passed \in 0 .. 2 /\ c \in Configs /\ at \in 1 .. BlockCount + 1
  BY DEF ConfigInv, ConfigTypeOK, Phases
<1>2. BlockCount \in Nat
  BY ConfigIsTyped
<1>3. at - 1 \in Nat /\ (at - 1) + 1 = at /\ (at + 1) - 1 = at
  BY <1>1, <1>2
<1>4. CASE stage = "config"
  <2>1. CASE UNCHANGED vars
    BY <1>1, <1>4, <2>1, ChecksReadTheConfig DEF Checked, Phases
  <2>2. CASE buildConfig
    <3>1. given \in {"absent", "unreadable", "file"} /\ c = DefaultConfig /\ passed = 0
      BY <1>1, <1>4 DEF ConfigInv, Loaded, Phases
    <3>2. /\ passed' = 0 /\ stage' # "blocks"
          /\ stage' = "settings" => c' = DefaultConfig
      BY <2>2, <3>1 DEF buildConfig
    <3> QED
      BY <3>2, DefaultOutsOpen DEF Checked
  <2> QED
    BY <1>4, <2>1, <2>2, ConfigIsKept
<1> SUFFICES ASSUME stage # "config" PROVE Checked'
  BY <1>4
<1>5. /\ c' = c
      /\ OutsOpen' <=> OutsOpen
      /\ SettingsValid' <=> SettingsValid
      /\ \A k : (validBlock(k)' <=> validBlock(k)) /\ Key(k)' = Key(k)
      /\ \A n : BlocksValid(n)' <=> BlocksValid(n)
      /\ BlockCount' = BlockCount
  BY ConfigIsKept, ConfigIsTyped, ChecksReadTheConfig
<1>6. ASSUME passed' = passed, at' = at, seen' = seen, stage' # "settings", stage' # "blocks"
      PROVE  Checked'
  BY <1>1, <1>5, <1>6 DEF Checked
<1>7. CASE CheckOuts
  <2>1. passed' = passed /\ passed = 0 /\ stage' \in {"settings", "stopped"}
    BY <1>1, <1>7 DEF CheckOuts, Phases
  <2>2. stage' = "settings" => OutsOpen
    <3>1. c.textOut \in Pointer(Streams \cup {"elsewhere"})
      BY <1>1 DEF Configs
    <3>2. c.textOut # {} /\ c.textOut # {"elsewhere"} => c.textOut \subseteq Streams
      BY <3>1 DEF Pointer, Streams
    <3>3. stage' = "settings" =>
             /\ c.textOut # {} /\ c.textOut # {"elsewhere"}
             /\ c.jsonOut # {} /\ c.jsonOut \subseteq Streams
      BY <1>7 DEF CheckOuts
    <3> QED
      BY <3>2, <3>3 DEF OutsOpen
  <2> QED
    BY <1>5, <2>1, <2>2 DEF Checked
<1>8. CASE ValidateSettings
  <2>1. /\ stage = "settings" /\ passed' = passed /\ at' = 1 /\ seen' = {}
        /\ stage' \in {"blocks", "stopped"}
        /\ stage' = "blocks" => SettingsValid
    BY <1>8 DEF ValidateSettings, SettingsValid
  <2>2. BlocksValid(0) /\ {Key(k) : k \in 1 .. 0} = {}
    BY DEF BlocksValid
  <2>3. at' - 1 = 0
    BY <2>1
  <2>4. BlocksValid(at - 1)' /\ (seen = {Key(k) : k \in 1 .. at - 1})'
    BY <1>5, <2>1, <2>2, <2>3 DEF BlocksValid
  <2> QED
    BY <1>1, <1>5, <2>1, <2>4 DEF Checked
<1>9. CASE ValidateBlock
  <2>1. stage = "blocks" /\ passed' = passed /\ at <= BlockCount
    BY <1>9 DEF ValidateBlock
  <2>2. CASE validBlock(at) /\ Key(at) \notin seen
    <3>1. seen' = seen \cup {Key(at)} /\ at' = at + 1 /\ stage' = "blocks"
      BY <1>9, <2>2 DEF ValidateBlock
    <3>2. BlocksValid(at - 1) /\ seen = {Key(k) : k \in 1 .. at - 1}
      BY <1>1, <2>1 DEF Checked
    <3>3. BlocksValid(at)
      BY <1>3, <2>2, <3>2, OneMoreBlock
    <3>4. seen' = {Key(k) : k \in 1 .. at}
      BY <1>3, <3>1, <3>2, OneMoreKey
    <3>5. at' - 1 = at
      BY <1>3, <3>1
    <3>6. BlocksValid(at - 1)' /\ (seen = {Key(k) : k \in 1 .. at - 1})'
      BY <1>5, <3>3, <3>4, <3>5 DEF BlocksValid
    <3> QED
      BY <1>1, <1>5, <2>1, <3>1, <3>6 DEF Checked
  <2>3. CASE ~(validBlock(at) /\ Key(at) \notin seen)
    <3>1. stage' = "stopped" /\ at' = at /\ seen' = seen
      BY <1>9, <2>3 DEF ValidateBlock
    <3> QED
      BY <1>6, <2>1, <3>1
  <2> QED
    BY <2>2, <2>3
<1>10. CASE Validated
  <2>1. /\ stage = "blocks" /\ at > BlockCount /\ passed' = passed + 1
        /\ stage' \in {"loggers", "transport"}
    BY <1>10 DEF Validated
  <2>2. at - 1 = BlockCount
    BY <1>1, <1>2, <2>1
  <2>3. BlocksValid(BlockCount) /\ OutsOpen /\ SettingsValid
    BY <1>1, <2>1, <2>2 DEF Checked
  <2> QED
    BY <1>5, <2>1, <2>3 DEF Checked
<1>11. CASE NewLoggerFactoryFromConfig
  BY <1>6, <1>11 DEF NewLoggerFactoryFromConfig
<1>12. CASE setupOpaSDK
  <2>1. passed' = passed /\ passed = 1 /\ stage' # "blocks"
    BY <1>1, <1>12 DEF setupOpaSDK, Phases
  <2> QED
    BY <1>1, <1>5, <2>1 DEF Checked
<1>13. CASE Transport
  BY <1>6, <1>13 DEF Transport
<1>14. CASE createMutator
  <2>1. passed' = passed /\ passed = 2 /\ stage' \notin {"settings", "blocks"}
    BY <1>1, <1>14 DEF createMutator, Round, Phases, Building
  <2> QED
    BY <1>1, <1>5, <2>1 DEF Checked
<1>15. CASE createValidator
  <2>1. passed' = passed /\ passed = 2 /\ stage' \notin {"settings", "blocks"}
    BY <1>1, <1>15 DEF createValidator, Round, Phases, Building
  <2> QED
    BY <1>1, <1>5, <2>1 DEF Checked
<1>16. CASE LoopEnds
  <2>1. passed' = passed /\ passed = 2 /\ stage' \notin {"settings", "blocks"}
    BY <1>1, <1>16 DEF LoopEnds, Phases, Building
  <2> QED
    BY <1>1, <1>5, <2>1 DEF Checked
<1>17. CASE ListenerTLS
  BY <1>6, <1>17 DEF ListenerTLS
<1>18. CASE Ended \/ UNCHANGED vars
  <2>1. passed' = passed /\ at' = at /\ seen' = seen /\ stage' = stage
    BY <1>18 DEF Ended
  <2> QED
    BY <1>1, <1>5, <2>1 DEF Checked
<1> QED
  BY <1>7, <1>8, <1>9, <1>10, <1>11, <1>12, <1>13, <1>14, <1>15, <1>16, <1>17, <1>18
     DEF Next, buildConfig

-----------------------------------------------------------------------------
(* What stops the start *)

\* The configuration that is checked is the one written.
LEMMA CheckedIsWritten ==
    ASSUME ConfigInv, stage \notin {"config", "stopped"}
    PROVE  c = FileConfig /\ written \in Configs
<1>1. why = "none"
  BY DEF ConfigInv, ConfigTypeOK
<1>2. given # "unreadable" /\ c = FileConfig
  BY <1>1 DEF ConfigInv, Loaded
<1> QED
  BY <1>2, DefaultIsAConfig DEF ConfigInv, Loaded

\* A check refuses only what is not well formed, and only the first time.
LEMMA RefusalStep ==
    ASSUME ConfigInv, [Next]_vars, why' = "invalid", why # "invalid"
    PROVE  passed = 0 /\ passed' = 0 /\ ~WellFormed(written)
<1> USE DEF inputVars, loopVars, builtVars, vars, GoTo, Stop
<1>1. Checked /\ Phases /\ passed \in 0 .. 2 /\ at \in 1 .. BlockCount + 1 /\ c \in Configs
  BY DEF ConfigInv, ConfigTypeOK, Phases
<1>2. BlockCount \in Nat
  BY ConfigIsTyped
<1>3. stage \notin {"config", "stopped"} =>
         (WellFormed(written) <=> /\ "elsewhere" \notin c.textOut \cup c.jsonOut
                                  /\ SettingsValid
                                  /\ BlocksValid(BlockCount))
  BY CheckedIsWritten, ChecksAreExact
<1>4. CASE buildConfig
  <2>1. given \in {"absent", "unreadable", "file"}
    BY DEF ConfigInv, Loaded
  <2> QED
    BY <1>4, <2>1 DEF buildConfig
<1>5. CASE CheckOuts
  <2>1. stage = "outs" /\ passed' = passed /\ passed = 0
    BY <1>1, <1>5 DEF CheckOuts, Phases
  <2>2. \/ c.textOut = {"elsewhere"}
        \/ c.jsonOut # {} /\ ~(c.jsonOut \subseteq Streams)
    BY <1>5 DEF CheckOuts
  <2>3. c.jsonOut \in Pointer(Streams \cup {"elsewhere"})
    BY <1>1 DEF Configs
  <2>4. "elsewhere" \in c.textOut \cup c.jsonOut
    BY <2>2, <2>3 DEF Pointer
  <2> QED
    BY <1>3, <2>1, <2>4
<1>6. CASE ValidateSettings
  <2>1. stage = "settings" /\ passed' = passed /\ ~SettingsValid
    BY <1>6 DEF ValidateSettings, SettingsValid
  <2>2. passed = 0
    BY <1>1, <2>1 DEF Checked
  <2> QED
    BY <1>3, <2>1, <2>2
<1>7. CASE ValidateBlock
  <2>1. /\ stage = "blocks" /\ passed' = passed /\ at \in 1 .. BlockCount
        /\ ~(validBlock(at) /\ Key(at) \notin seen)
    BY <1>1, <1>2, <1>7 DEF ValidateBlock
  <2>2. seen = {Key(k) : k \in 1 .. at - 1}
    BY <1>1, <2>1 DEF Checked
  <2>3. ~BlocksValid(BlockCount)
    <3>1. CASE ~validBlock(at)
      BY <2>1, <3>1 DEF BlocksValid
    <3>2. CASE Key(at) \in seen
      <4>1. PICK k \in 1 .. at - 1 : Key(k) = Key(at)
        BY <2>2, <3>2
      <4>2. k \in 1 .. BlockCount /\ k # at
        BY <1>1, <1>2
      <4> QED
        BY <2>1, <4>1, <4>2 DEF BlocksValid
    <3> QED
      BY <2>1, <3>1, <3>2
  <2>4. passed = 0
    BY <1>1, <2>3 DEF Checked
  <2> QED
    BY <1>3, <2>1, <2>3, <2>4
<1>8. CASE Validated \/ NewLoggerFactoryFromConfig \/ setupOpaSDK \/ Transport
  BY <1>8 DEF Validated, NewLoggerFactoryFromConfig, setupOpaSDK, Transport
<1>9. CASE createMutator
  <2>1. why' \in {why, "missing", "rego", "files"}
    BY <1>9 DEF createMutator, Round, Outcomes
  <2> QED
    BY <2>1
<1>10. CASE createValidator
  <2>1. why' \in {why, "missing", "rego", "files"}
    BY <1>10 DEF createValidator, Round, Outcomes
  <2> QED
    BY <2>1
<1>11. CASE LoopEnds \/ ListenerTLS \/ Ended \/ UNCHANGED vars
  BY <1>11 DEF LoopEnds, ListenerTLS, Ended
<1> QED
  BY <1>4, <1>5, <1>6, <1>7, <1>8, <1>9, <1>10, <1>11 DEF Next

\* A refused configuration is not well formed.
LEMMA NotRefusedStep ==
    ASSUME ConfigInv, [Next]_vars
    PROVE  WellFormedIsNotRefused'
<1>1. written' = written
  BY ConfigIsKept
<1>2. why = "invalid" => ~WellFormed(written)
  BY DEF ConfigInv, WellFormedIsNotRefused
<1>3. why' = "invalid" => ~WellFormed(written)
  BY <1>2, RefusalStep
<1>4. WellFormed(written)' <=> WellFormed(written)
  BY <1>1
<1> QED
  BY <1>3, <1>4 DEF WellFormedIsNotRefused

\* The SDK is there from its setup on iff it is configured.
LEMMA SdkStep ==
    ASSUME ConfigInv, [Next]_vars
    PROVE  SdkBuilt'
<1> USE DEF inputVars, loopVars, builtVars, vars, GoTo, Stop
<1>1. SdkBuilt /\ Phases /\ passed \in 0 .. 2
  BY DEF ConfigInv, ConfigTypeOK
<1>2. CASE stage = "config"
  <2>1. CASE UNCHANGED vars
    BY <1>1, <1>2, <2>1 DEF SdkBuilt, Phases, Building
  <2>2. CASE buildConfig
    <3>1. given \in {"absent", "unreadable", "file"} /\ passed = 0
      BY <1>1, <1>2 DEF ConfigInv, Loaded, Phases
    <3>2. stage' \in {"outs", "settings", "stopped"} /\ passed' = 0
      BY <2>2, <3>1 DEF buildConfig
    <3> QED
      BY <3>2 DEF SdkBuilt, Building
  <2> QED
    BY <1>2, <2>1, <2>2, ConfigIsKept
<1> SUFFICES ASSUME stage # "config" PROVE SdkBuilt'
  BY <1>2
<1>3. c' = c
  BY ConfigIsKept
<1>4. CASE CheckOuts
  <2>1. passed' = 0 /\ stage' \in {"settings", "stopped"}
    BY <1>1, <1>4 DEF CheckOuts, Phases
  <2> QED
    BY <2>1 DEF SdkBuilt, Building
<1>5. CASE ValidateSettings
  BY <1>1, <1>3, <1>5 DEF ValidateSettings, SdkBuilt, Building
<1>6. CASE ValidateBlock
  BY <1>1, <1>3, <1>6 DEF ValidateBlock, SdkBuilt, Building
<1>7. CASE Validated
  <2>1. /\ stage = "blocks" /\ sdk' = sdk /\ passed' = passed + 1
        /\ stage' = IF passed = 0 THEN "loggers" ELSE "transport"
        /\ passed \in 0 .. 1
    BY <1>1, <1>7 DEF Validated, Phases
  <2> QED
    BY <1>1, <1>3, <2>1 DEF SdkBuilt, Building
<1>8. CASE NewLoggerFactoryFromConfig
  BY <1>8 DEF NewLoggerFactoryFromConfig, SdkBuilt, Building
<1>9. CASE setupOpaSDK
  BY <1>3, <1>9 DEF setupOpaSDK, SdkBuilt, Building
<1>10. CASE Transport
  BY <1>1, <1>3, <1>10 DEF Transport, SdkBuilt, Building
<1>11. CASE createMutator
  <2>1. stage \in Building /\ stage' \in {stage, "stopped"} /\ sdk' = sdk
    BY <1>11 DEF createMutator, Round, Building
  <2> QED
    BY <1>1, <1>3, <2>1 DEF SdkBuilt, Building
<1>12. CASE createValidator
  <2>1. stage \in Building /\ stage' \in {stage, "stopped"} /\ sdk' = sdk
    BY <1>12 DEF createValidator, Round, Building
  <2> QED
    BY <1>1, <1>3, <2>1 DEF SdkBuilt, Building
<1>13. CASE LoopEnds \/ ListenerTLS
  BY <1>1, <1>3, <1>13 DEF LoopEnds, ListenerTLS, SdkBuilt, Building
<1>14. CASE Ended \/ UNCHANGED vars
  BY <1>1, <1>14 DEF Ended, SdkBuilt
<1> QED
  BY <1>4, <1>5, <1>6, <1>7, <1>8, <1>9, <1>10, <1>11, <1>12, <1>13, <1>14
     DEF Next, buildConfig

\* An output that is switched on is open once the loggers are built.
LEMMA LogsStep ==
    ASSUME ConfigInv, [Next]_vars
    PROVE  LogsOpen'
<1> USE DEF inputVars, loopVars, builtVars, vars, GoTo, Stop
<1>1. LogsOpen /\ Phases /\ Checked /\ passed \in 0 .. 2
  BY DEF ConfigInv, ConfigTypeOK
<1>2. CASE stage = "config"
  <2>1. passed' = 0
    <3>1. CASE UNCHANGED vars
      BY <1>1, <1>2, <3>1 DEF Phases
    <3>2. CASE buildConfig
      BY <1>1, <1>2, <3>2 DEF Phases, buildConfig
    <3> QED
      BY <1>2, <3>1, <3>2, ConfigIsKept
  <2> QED
    BY <2>1 DEF LogsOpen
<1> SUFFICES ASSUME stage # "config" PROVE LogsOpen'
  BY <1>2
<1>3. c' = c
  BY ConfigIsKept
<1>4. CASE NewLoggerFactoryFromConfig
  <2>1. stage = "loggers" /\ OutsOpen
    BY <1>1, <1>4 DEF NewLoggerFactoryFromConfig, Phases, Checked
  <2>2. CASE stage' = "stopped"
    BY <2>2 DEF LogsOpen
  <2>3. CASE stage' # "stopped"
    <3>1. logs' = [text |-> IF TRUE \in c.text THEN outStrToWriter(c.textOut) ELSE {},
                   json |-> IF TRUE \in c.json THEN outStrToWriter(c.jsonOut) ELSE {},
                   otel |-> TRUE \in c.otel]
      BY <1>4, <2>3 DEF NewLoggerFactoryFromConfig
    <3>2. outStrToWriter(c.textOut) # {} /\ outStrToWriter(c.jsonOut) # {}
      BY <2>1 DEF OutsOpen, outStrToWriter
    <3> QED
      BY <1>3, <3>1, <3>2 DEF LogsOpen
  <2> QED
    BY <2>2, <2>3
<1>5. CASE Validated
  <2>1. /\ stage = "blocks" /\ logs' = logs
        /\ passed = 0 => stage' = "loggers"
    BY <1>5 DEF Validated
  <2>2. CASE passed = 0
    BY <2>1, <2>2 DEF LogsOpen
  <2>3. CASE passed # 0
    <3>1. passed > 0
      BY <1>1, <2>3
    <3> QED
      BY <1>1, <1>3, <2>1, <3>1 DEF LogsOpen
  <2> QED
    BY <2>2, <2>3
<1>6. ASSUME logs' = logs, passed' = passed, stage = "loggers" => stage' = "loggers",
             stage = "stopped" => stage' = "stopped"
      PROVE  LogsOpen'
  BY <1>1, <1>3, <1>6 DEF LogsOpen
<1>7. CASE CheckOuts \/ ValidateSettings \/ ValidateBlock
  BY <1>6, <1>7 DEF CheckOuts, ValidateSettings, ValidateBlock
<1>8. CASE setupOpaSDK \/ Transport \/ LoopEnds \/ ListenerTLS
  BY <1>6, <1>8 DEF setupOpaSDK, Transport, LoopEnds, ListenerTLS
<1>9. CASE createMutator
  BY <1>6, <1>9 DEF createMutator
<1>10. CASE createValidator
  BY <1>6, <1>10 DEF createValidator
<1>11. CASE Ended \/ UNCHANGED vars
  BY <1>6, <1>11 DEF Ended
<1> QED
  BY <1>4, <1>5, <1>7, <1>8, <1>9, <1>10, <1>11 DEF Next, buildConfig

-----------------------------------------------------------------------------
(* The constructors *)

\* The verifier that goes with a mutator's block and with a validator's.
MutatorVerifier(block) ==
    IF block.type = "opa_json_patch"
    THEN UNION {buildVerifier(r.notation) : r \in block.rule} ELSE {}
ValidatorVerifier(block) ==
    IF block.type \in {"opa", "notation"} THEN buildVerifier(block.notation) ELSE {}

\* A notation block makes one verifier, with the attempts it was checked for.
LEMMA VerifierOfNotation ==
    ASSUME NEW notation \in Pointer(NotationVerifierConfig)
    PROVE  /\ buildVerifier(notation) \in Pointer(Int)
           /\ validateNotation(notation) =>
                 buildVerifier(notation) # {} /\ \A a \in buildVerifier(notation) : a >= 1
<1>1. notation \subseteq NotationVerifierConfig /\ \A x, y \in notation : x = y
  BY DEF Pointer
<1>2. \A n \in notation : n.attempts \in Int
  BY <1>1 DEF NotationVerifierConfig
<1>3. buildVerifier(notation) \in Pointer(Int)
  BY <1>1, <1>2 DEF buildVerifier, Pointer
<1>4. validateNotation(notation) => notation # {} /\ \A n \in notation : n.attempts >= 1
  BY <1>1 DEF validateNotation
<1> QED
  BY <1>3, <1>4 DEF buildVerifier

\* A mutator's block that has passed its check is complete.
LEMMA ValidMutatorIsComplete ==
    ASSUME NEW block \in Blocks, validateMutator(block), sdk = (c.opaSdk # {})
    PROVE  /\ ~PartMissing(block, MutatorVerifier(block), MutatorTypes)
           /\ MutatorVerifier(block) \in Pointer(Int)
           /\ \A a \in MutatorVerifier(block) : a >= 1
           /\ block.type = "opa_bundle_json_patch" => sdk
           /\ block.type \in MutatorTypes
<1>1. block.type \in MutatorTypes
  BY DEF validateMutator, MutatorTypes
<1>2. CASE block.type = "opa_json_patch"
  <2>1. validateOpaRule(block.rule)
    BY <1>2 DEF validateMutator
  <2>2. PICK r \in block.rule : r.notation # {} => validateNotation(r.notation)
    BY <2>1 DEF validateOpaRule
  <2>3. block.rule \in Pointer(OpaRule)
    BY DEF Blocks
  <2>4. block.rule = {r} /\ r \in OpaRule
    BY <2>2, <2>3 DEF Pointer
  <2>5. r.notation \in Pointer(NotationVerifierConfig)
    BY <2>4 DEF OpaRule
  <2>6. MutatorVerifier(block) = buildVerifier(r.notation)
    BY <1>2, <2>4 DEF MutatorVerifier
  <2>7. \A a \in buildVerifier(r.notation) : a >= 1
    <3>1. CASE r.notation = {}
      BY <3>1 DEF buildVerifier
    <3>2. CASE r.notation # {}
      BY <2>2, <2>5, <3>2, VerifierOfNotation
    <3> QED
      BY <3>1, <3>2
  <2>8. ~PartMissing(block, MutatorVerifier(block), MutatorTypes)
    BY <1>1, <1>2, <2>2 DEF PartMissing
  <2> QED
    BY <1>1, <1>2, <2>5, <2>6, <2>7, <2>8, VerifierOfNotation
<1>3. CASE block.type # "opa_json_patch"
  <2>1. MutatorVerifier(block) = {}
    BY <1>3 DEF MutatorVerifier
  <2>2. \/ block.type = "json_patch_webhook" /\ block.webhook = {"callable"}
        \/ block.type = "opa_bundle_json_patch" /\ sdk /\ block.sdkRule = {"path"}
    BY <1>1, <1>3 DEF validateMutator, validateWebhook, validateOpaSDKRule, MutatorTypes
  <2>3. ~PartMissing(block, MutatorVerifier(block), MutatorTypes)
    BY <1>1, <2>2 DEF PartMissing
  <2> QED
    BY <1>1, <2>1, <2>2, <2>3 DEF Pointer
<1> QED
  BY <1>2, <1>3

\* So is a validator's.
LEMMA ValidValidatorIsComplete ==
    ASSUME NEW block \in Blocks, validateValidator(block), sdk = (c.opaSdk # {})
    PROVE  /\ ~PartMissing(block, ValidatorVerifier(block), ValidatorTypes)
           /\ ValidatorVerifier(block) \in Pointer(Int)
           /\ \A a \in ValidatorVerifier(block) : a >= 1
           /\ block.type = "opa_bundle" => sdk
           /\ block.type \in ValidatorTypes
<1>1. block.type \in ValidatorTypes
  BY DEF validateValidator, ValidatorTypes
<1>2. CASE block.type \in {"opa", "notation"}
  <2>1. block.notation # {} => validateNotation(block.notation)
    BY <1>2 DEF validateValidator
  <2>2. block.type = "opa" => block.rule # {}
    BY DEF validateValidator, validateOpaRule
  <2>3. block.type = "notation" => validateNotation(block.notation)
    BY DEF validateValidator
  <2>4. block.notation \in Pointer(NotationVerifierConfig)
    BY DEF Blocks
  <2>5. ValidatorVerifier(block) = buildVerifier(block.notation)
    BY <1>2 DEF ValidatorVerifier
  <2>6. \A a \in buildVerifier(block.notation) : a >= 1
    <3>1. CASE block.notation = {}
      BY <3>1 DEF buildVerifier
    <3>2. CASE block.notation # {}
      BY <2>1, <2>4, <3>2, VerifierOfNotation
    <3> QED
      BY <3>1, <3>2
  <2>7. block.type = "notation" => ValidatorVerifier(block) # {}
    BY <2>3, <2>4, <2>5, VerifierOfNotation
  <2>8. ~PartMissing(block, ValidatorVerifier(block), ValidatorTypes)
    BY <1>1, <1>2, <2>2, <2>7 DEF PartMissing
  <2> QED
    BY <1>1, <1>2, <2>4, <2>5, <2>6, <2>8, VerifierOfNotation
<1>3. CASE block.type \notin {"opa", "notation"}
  <2>1. ValidatorVerifier(block) = {}
    BY <1>3 DEF ValidatorVerifier
  <2>2. \/ block.type = "webhook" /\ block.webhook = {"callable"}
        \/ block.type = "opa_bundle" /\ sdk /\ block.sdkRule = {"path"}
    BY <1>1, <1>3 DEF validateValidator, validateWebhook, validateOpaSDKRule, ValidatorTypes
  <2>3. ~PartMissing(block, ValidatorVerifier(block), ValidatorTypes)
    BY <1>1, <2>2 DEF PartMissing
  <2> QED
    BY <1>1, <2>1, <2>2, <2>3 DEF Pointer
<1> QED
  BY <1>2, <1>3

\* createMutators goes over blocks that have passed their check.
LEMMA MutatorIsChecked ==
    ASSUME ConfigInv, [Next]_vars, stage = "mutators", at <= MutatorCount
    PROVE  /\ at \in 1 .. MutatorCount /\ c.mutators[at] \in Blocks
           /\ validateMutator(c.mutators[at]) /\ sdk = (c.opaSdk # {})
<1>1. Phases /\ Checked /\ SdkBuilt /\ c \in Configs
  BY DEF ConfigInv, ConfigTypeOK
<1>2. /\ MutatorCount \in Nat /\ BlockCount \in Nat
  BY ConfigIsTyped
<1>3. at \in 1 .. MutatorCount
  BY <1>1, <1>2 DEF Phases
<1>4. at \in 1 .. BlockCount /\ InMutators(at) /\ BlockAt(at) = c.mutators[at]
  BY <1>1, <1>3, BlocksByPosition
<1>5. BlocksValid(BlockCount)
  BY <1>1 DEF Phases, Checked, Building
<1>6. validateMutator(c.mutators[at])
  BY <1>4, <1>5 DEF BlocksValid, validBlock
<1>7. c.mutators[at] \in Blocks
  <2> DEFINE ms == c.mutators
  <2>1. ms \in Seq({b \in Blocks : b.notation = {}})
    BY <1>1 DEF Configs
  <2>2. at \in 1 .. Len(ms)
    BY <1>3 DEF MutatorCount
  <2> HIDE DEF ms
  <2>3. ms[at] \in Blocks
    BY <2>1, <2>2
  <2> QED
    BY <2>3 DEF ms
<1>8. sdk = (c.opaSdk # {})
  BY <1>1 DEF SdkBuilt, Building
<1> QED
  BY <1>3, <1>6, <1>7, <1>8

\* So does createValidators.
LEMMA ValidatorIsChecked ==
    ASSUME ConfigInv, [Next]_vars, stage = "validators", at <= ValidatorCount
    PROVE  /\ at \in 1 .. ValidatorCount /\ c.validators[at] \in Blocks
           /\ validateValidator(c.validators[at]) /\ sdk = (c.opaSdk # {})
<1>1. Phases /\ Checked /\ SdkBuilt /\ c \in Configs
  BY DEF ConfigInv, ConfigTypeOK
<1>2. /\ ValidatorCount \in Nat /\ BlockCount \in Nat
  BY ConfigIsTyped
<1>3. at \in 1 .. ValidatorCount
  BY <1>1, <1>2 DEF Phases
<1>4. /\ MutatorCount + at \in 1 .. BlockCount
      /\ ~InMutators(MutatorCount + at) /\ BlockAt(MutatorCount + at) = c.validators[at]
  BY <1>1, <1>3, BlocksByPosition
<1>5. BlocksValid(BlockCount)
  BY <1>1 DEF Phases, Checked, Building
<1>6. validateValidator(c.validators[at])
  BY <1>4, <1>5 DEF BlocksValid, validBlock
<1>7. c.validators[at] \in Blocks
  <2> DEFINE vs == c.validators
  <2>1. vs \in Seq(Blocks)
    BY <1>1 DEF Configs
  <2>2. at \in 1 .. Len(vs)
    BY <1>3 DEF ValidatorCount
  <2> HIDE DEF vs
  <2>3. vs[at] \in Blocks
    BY <2>1, <2>2
  <2> QED
    BY <2>3 DEF vs
<1>8. sdk = (c.opaSdk # {})
  BY <1>1 DEF SdkBuilt, Building
<1> QED
  BY <1>3, <1>6, <1>7, <1>8

\* Where the mutators end, createMutators has added one mutator or stops.
LEMMA MutatorStep ==
    ASSUME ConfigInv, createMutator
    PROVE  LET block == c.mutators[at]
           IN  /\ stage = "mutators" /\ at \in 1 .. MutatorCount
               /\ block \in Blocks /\ validateMutator(block) /\ sdk = (c.opaSdk # {})
               /\ UNCHANGED <<inputVars, c, seen, passed, logs, sdk, validators, clientAuth>>
               /\ resolveToken' = (resolveToken \/ block.resolveToken)
               /\ \/ /\ stage' = stage /\ why' = why /\ at' = at + 1
                     /\ mutators' = Append(mutators,
                           [type |-> block.type, name |-> block.name,
                            verifier |-> MutatorVerifier(block),
                            sdk |-> sdk /\ block.type \in {"opa_bundle", "opa_bundle_json_patch"}])
                  \/ /\ stage' = "stopped" /\ at' = at /\ mutators' = mutators
                     /\ why' = "rego" \/ (why' = "files" /\ ~readable)
<1> DEFINE block == c.mutators[at]
           verifier == MutatorVerifier(block)
<1>1. /\ stage = "mutators" /\ at <= MutatorCount
      /\ resolveToken' = (resolveToken \/ block.resolveToken)
      /\ \E outcome \in Outcomes(block, verifier, MutatorTypes) :
            Round(outcome) /\ mutators' = Created(mutators, block, verifier, outcome)
      /\ UNCHANGED <<inputVars, c, seen, passed, logs, sdk, validators, clientAuth>>
  BY DEF createMutator, MutatorVerifier
<1>2. [Next]_vars
  BY DEF Next
<1>3. /\ at \in 1 .. MutatorCount /\ block \in Blocks
      /\ validateMutator(block) /\ sdk = (c.opaSdk # {})
  BY <1>1, <1>2, MutatorIsChecked
<1>4. ~PartMissing(block, verifier, MutatorTypes)
  <2> HIDE DEF block
  <2> QED
    BY <1>3, ValidMutatorIsComplete
<1> HIDE DEF block, verifier
<1>5. PICK outcome \in {"none", "rego", "files"} :
         /\ Round(outcome) /\ mutators' = Created(mutators, block, verifier, outcome)
         /\ outcome = "files" => ~readable
  BY <1>1, <1>4 DEF Outcomes
<1>6. CASE outcome = "none"
  <2>1. stage' = stage /\ why' = why /\ at' = at + 1
    BY <1>5, <1>6 DEF Round
  <2>2. mutators' = Append(mutators,
           [type |-> block.type, name |-> block.name, verifier |-> verifier,
            sdk |-> sdk /\ block.type \in {"opa_bundle", "opa_bundle_json_patch"}])
    BY <1>5, <1>6 DEF Created
  <2> QED
    BY <1>1, <1>3, <2>1, <2>2 DEF block, verifier
<1>7. CASE outcome # "none"
  <2>1. stage' = "stopped" /\ why' = outcome /\ at' = at
    BY <1>5, <1>7 DEF Round, Stop
  <2>2. mutators' = mutators
    BY <1>5, <1>7 DEF Created
  <2> QED
    BY <1>1, <1>3, <1>5, <1>7, <2>1, <2>2 DEF block
<1> QED
  BY <1>6, <1>7

\* createValidators likewise.
LEMMA ValidatorStep ==
    ASSUME ConfigInv, createValidator
    PROVE  LET block == c.validators[at]
           IN  /\ stage = "validators" /\ at \in 1 .. ValidatorCount
               /\ block \in Blocks /\ validateValidator(block) /\ sdk = (c.opaSdk # {})
               /\ UNCHANGED <<inputVars, c, seen, passed, logs, sdk, mutators, clientAuth>>
               /\ resolveToken' = (resolveToken \/ block.resolveToken)
               /\ \/ /\ stage' = stage /\ why' = why /\ at' = at + 1
                     /\ validators' = Append(validators,
                           [type |-> block.type, name |-> block.name,
                            verifier |-> ValidatorVerifier(block),
                            sdk |-> sdk /\ block.type \in {"opa_bundle", "opa_bundle_json_patch"}])
                  \/ /\ stage' = "stopped" /\ at' = at /\ validators' = validators
                     /\ why' = "rego" \/ (why' = "files" /\ ~readable)
<1> DEFINE block == c.validators[at]
           verifier == ValidatorVerifier(block)
<1>1. /\ stage = "validators" /\ at <= ValidatorCount
      /\ resolveToken' = (resolveToken \/ block.resolveToken)
      /\ \E outcome \in Outcomes(block, verifier, ValidatorTypes) :
            Round(outcome) /\ validators' = Created(validators, block, verifier, outcome)
      /\ UNCHANGED <<inputVars, c, seen, passed, logs, sdk, mutators, clientAuth>>
  BY DEF createValidator, ValidatorVerifier
<1>2. [Next]_vars
  BY DEF Next
<1>3. /\ at \in 1 .. ValidatorCount /\ block \in Blocks
      /\ validateValidator(block) /\ sdk = (c.opaSdk # {})
  BY <1>1, <1>2, ValidatorIsChecked
<1>4. ~PartMissing(block, verifier, ValidatorTypes)
  <2> HIDE DEF block
  <2> QED
    BY <1>3, ValidValidatorIsComplete
<1> HIDE DEF block, verifier
<1>5. PICK outcome \in {"none", "rego", "files"} :
         /\ Round(outcome) /\ validators' = Created(validators, block, verifier, outcome)
         /\ outcome = "files" => ~readable
  BY <1>1, <1>4 DEF Outcomes
<1>6. CASE outcome = "none"
  <2>1. stage' = stage /\ why' = why /\ at' = at + 1
    BY <1>5, <1>6 DEF Round
  <2>2. validators' = Append(validators,
           [type |-> block.type, name |-> block.name, verifier |-> verifier,
            sdk |-> sdk /\ block.type \in {"opa_bundle", "opa_bundle_json_patch"}])
    BY <1>5, <1>6 DEF Created
  <2> QED
    BY <1>1, <1>3, <2>1, <2>2 DEF block, verifier
<1>7. CASE outcome # "none"
  <2>1. stage' = "stopped" /\ why' = outcome /\ at' = at
    BY <1>5, <1>7 DEF Round, Stop
  <2>2. validators' = validators
    BY <1>5, <1>7 DEF Created
  <2> QED
    BY <1>1, <1>3, <1>5, <1>7, <2>1, <2>2 DEF block
<1> QED
  BY <1>6, <1>7

\* What Validate has accepted is stopped by nothing in the configuration.
LEMMA AcceptedStep ==
    ASSUME ConfigInv, [Next]_vars
    PROVE  AcceptedConfigBuilds'
<1> USE DEF inputVars, loopVars, builtVars, vars, GoTo, Stop
<1>1. Phases /\ AcceptedConfigBuilds /\ passed \in 0 .. 2
  BY DEF ConfigInv, ConfigTypeOK
<1>2. readable' = readable
  BY ConfigIsKept
<1>3. ASSUME stage' # "stopped" \/ passed' = 0 PROVE AcceptedConfigBuilds'
  BY <1>3 DEF AcceptedConfigBuilds
<1>4. ASSUME why' \in {"sdk", "rego", "panic"} \/ (why' = "files" /\ ~readable)
      PROVE  AcceptedConfigBuilds'
  BY <1>2, <1>4 DEF AcceptedConfigBuilds
<1>5. CASE buildConfig \/ CheckOuts
  <2>1. passed' = 0
    BY <1>1, <1>5 DEF buildConfig, CheckOuts, Phases
  <2> QED
    BY <1>3, <2>1
<1>6. CASE ValidateSettings \/ ValidateBlock
  <2>1. CASE stage' = "stopped"
    <3>1. why' = "invalid" /\ why # "invalid"
      BY <1>6, <2>1 DEF ValidateSettings, ValidateBlock, ConfigInv, ConfigTypeOK
    <3>2. passed' = 0
      BY <3>1, RefusalStep
    <3> QED
      BY <1>3, <3>2
  <2>2. CASE stage' # "stopped"
    BY <1>3, <2>2
  <2> QED
    BY <2>1, <2>2
<1>7. CASE Validated \/ LoopEnds
  BY <1>3, <1>7 DEF Validated, LoopEnds
<1>8. CASE NewLoggerFactoryFromConfig \/ setupOpaSDK
  BY <1>3, <1>4, <1>8 DEF NewLoggerFactoryFromConfig, setupOpaSDK
<1>9. CASE Transport \/ ListenerTLS
  BY <1>3, <1>4, <1>9 DEF Transport, ListenerTLS
<1>10. CASE createMutator
  <2>1. (stage' = stage /\ stage = "mutators") \/ why' = "rego" \/ (why' = "files" /\ ~readable)
    BY <1>10, MutatorStep
  <2> QED
    BY <1>3, <1>4, <2>1
<1>11. CASE createValidator
  <2>1. (stage' = stage /\ stage = "validators") \/ why' = "rego" \/ (why' = "files" /\ ~readable)
    BY <1>11, ValidatorStep
  <2> QED
    BY <1>3, <1>4, <2>1
<1>12. CASE Ended \/ UNCHANGED vars
  BY <1>1, <1>12 DEF Ended, AcceptedConfigBuilds
<1> QED
  BY <1>5, <1>6, <1>7, <1>8, <1>9, <1>10, <1>11, <1>12 DEF Next

-----------------------------------------------------------------------------
(* The controllers that are built *)

\* One more block has become a controller.
LEMMA OneMoreController ==
    ASSUME NEW n \in Nat, NEW built \in Seq(Controllers), NEW blocks, NEW e \in Controllers,
           BuiltFrom(built, blocks, n), TriesSome(built),
           e.type = blocks[n + 1].type, e.name = blocks[n + 1].name,
           e.type \in {"opa_bundle", "opa_bundle_json_patch"} => e.sdk,
           \A a \in e.verifier : a >= 1
    PROVE  /\ Append(built, e) \in Seq(Controllers)
           /\ BuiltFrom(Append(built, e), blocks, n + 1)
           /\ TriesSome(Append(built, e))
<1> DEFINE after == Append(built, e)
<1>1. Len(built) = n /\ DOMAIN built = 1 .. n
  BY DEF BuiltFrom
<1>2. /\ after \in Seq(Controllers) /\ Len(after) = n + 1 /\ DOMAIN after = 1 .. n + 1
      /\ \A i \in 1 .. n : after[i] = built[i]
      /\ after[n + 1] = e
  BY <1>1
<1> HIDE DEF after
<1>3. \A i \in 1 .. n + 1 : i \in 1 .. n \/ i = n + 1
  OBVIOUS
<1>4. \A i \in 1 .. n :
         /\ built[i].type = blocks[i].type /\ built[i].name = blocks[i].name
         /\ built[i].type \in {"opa_bundle", "opa_bundle_json_patch"} => built[i].sdk
  BY DEF BuiltFrom
<1>5. BuiltFrom(after, blocks, n + 1)
  BY <1>2, <1>3, <1>4 DEF BuiltFrom
<1>6. \A i \in 1 .. n : \A a \in built[i].verifier : a >= 1
  BY <1>1 DEF TriesSome
<1>7. TriesSome(after)
  BY <1>2, <1>3, <1>6 DEF TriesSome
<1> QED
  BY <1>2, <1>5, <1>7 DEF after

\* A block further, one more may have asked for the token.
LEMMA OneMoreToken ==
    ASSUME NEW n \in Nat, NEW blocks
    PROVE  (\E i \in 1 .. n + 1 : blocks[i].resolveToken)
              <=> (\E i \in 1 .. n : blocks[i].resolveToken) \/ blocks[n + 1].resolveToken
<1>1. \A i : i \in 1 .. n + 1 <=> i \in 1 .. n \/ i = n + 1
  OBVIOUS
<1> QED
  BY <1>1

\* What createMutators and createValidators have built so far is the first
\* blocks of the configuration, in its order.
LEMMA BuiltStep ==
    ASSUME ConfigInv, [Next]_vars
    PROVE  /\ Built'
           /\ mutators' \in Seq(Controllers) /\ validators' \in Seq(Controllers)
<1> USE DEF inputVars, loopVars, builtVars, vars, GoTo, Stop
<1> DEFINE Typed == mutators \in Seq(Controllers) /\ validators \in Seq(Controllers)
           Late == {"mutators", "validators", "listener", "built"}
<1>1. Built /\ Phases /\ Typed /\ c \in Configs /\ resolveToken \in BOOLEAN /\ sdk \in BOOLEAN
  BY DEF ConfigInv, ConfigTypeOK
<1>2. MutatorCount \in Nat /\ ValidatorCount \in Nat /\ at \in 1 .. BlockCount + 1 /\ BlockCount \in Nat
  BY <1>1, ConfigIsTyped DEF Phases
<1>3. at - 1 \in Nat /\ (at - 1) + 1 = at /\ (at + 1) - 1 = at
  BY <1>2
<1>4. stage \notin Late => MutatorsDone = 0 /\ ValidatorsDone = 0
  BY DEF MutatorsDone, ValidatorsDone
<1>5. stage' \notin Late => MutatorsDone' = 0 /\ ValidatorsDone' = 0
  BY DEF MutatorsDone, ValidatorsDone
\* Nothing is built before or after the two loops.
<1>6. ASSUME stage # "stopped", stage' # "built",
             stage' = "stopped" \/
                (/\ MutatorsDone' = MutatorsDone /\ ValidatorsDone' = ValidatorsDone
                 /\ stage = "config" \/ c' = c
                 /\ stage = "config" => MutatorsDone = 0 /\ ValidatorsDone = 0),
             mutators' = mutators, validators' = validators, resolveToken' = resolveToken
      PROVE  Built' /\ Typed'
  <2>1. CASE stage' = "stopped"
    BY <1>1, <1>6, <2>1 DEF Built
  <2>2. CASE stage' # "stopped" /\ stage = "config"
    BY <1>1, <1>6, <2>2 DEF Built, BuiltFrom
  <2>3. CASE stage' # "stopped" /\ stage # "config"
    BY <1>1, <1>6, <2>3 DEF Built
  <2> QED
    BY <2>1, <2>2, <2>3
<1>7. CASE stage = "config"
  <2>1. CASE UNCHANGED vars
    BY <1>4, <1>5, <1>6, <1>7, <2>1
  <2>2. CASE buildConfig
    <3>1. given \in {"absent", "unreadable", "file"}
      BY DEF ConfigInv, Loaded
    <3>2. stage' \in {"settings", "outs", "stopped"} /\ UNCHANGED builtVars
      BY <2>2, <3>1 DEF buildConfig
    <3> QED
      BY <1>4, <1>5, <1>6, <1>7, <3>2
  <2> QED
    BY <1>7, <2>1, <2>2, ConfigIsKept
<1> SUFFICES ASSUME stage # "config" PROVE Built' /\ Typed'
  BY <1>7
<1>8. /\ c' = c /\ MutatorCount' = MutatorCount /\ ValidatorCount' = ValidatorCount
  BY ConfigIsKept, ConfigIsTyped
<1>9. CASE CheckOuts \/ ValidateSettings \/ ValidateBlock \/ Validated
  <2>1. /\ stage \in {"outs", "settings", "blocks"} /\ UNCHANGED builtVars
        /\ stage' \in {"settings", "blocks", "loggers", "transport", "stopped"}
    BY <1>9 DEF CheckOuts, ValidateSettings, ValidateBlock, Validated
  <2> QED
    BY <1>4, <1>5, <1>6, <1>8, <2>1
<1>10. CASE NewLoggerFactoryFromConfig \/ setupOpaSDK
  <2>1. /\ stage \in {"loggers", "sdk"} /\ UNCHANGED builtVars
        /\ stage' \in {"sdk", "settings", "stopped"}
    BY <1>10 DEF NewLoggerFactoryFromConfig, setupOpaSDK
  <2> QED
    BY <1>4, <1>5, <1>6, <1>8, <2>1
<1>11. CASE Transport
  <2>1. /\ stage = "transport" /\ UNCHANGED builtVars /\ at' = at /\ at = 1
        /\ stage' \in {"mutators", "stopped"}
    BY <1>1, <1>11 DEF Transport, Phases
  <2>2. at - 1 = 0
    BY <2>1
  <2>3. stage' = "mutators" => MutatorsDone' = 0 /\ ValidatorsDone' = 0
    BY <2>1, <2>2 DEF MutatorsDone, ValidatorsDone
  <2> QED
    BY <1>4, <1>6, <1>8, <2>1, <2>3
<1>12. CASE createMutator
  <2> DEFINE block == c.mutators[at]
             e == [type |-> block.type, name |-> block.name,
                   verifier |-> MutatorVerifier(block),
                   sdk |-> sdk /\ block.type \in {"opa_bundle", "opa_bundle_json_patch"}]
  <2>1. /\ stage = "mutators" /\ block \in Blocks /\ validateMutator(block)
        /\ sdk = (c.opaSdk # {}) /\ validators' = validators /\ clientAuth' = clientAuth
        /\ resolveToken' = (resolveToken \/ block.resolveToken)
        /\ \/ stage' = stage /\ at' = at + 1 /\ mutators' = Append(mutators, e)
           \/ stage' = "stopped" /\ mutators' = mutators
    BY <1>12, MutatorStep
  <2> HIDE DEF block
  <2>2. /\ MutatorVerifier(block) \in Pointer(Int) /\ block.type \in MutatorTypes
        /\ \A a \in MutatorVerifier(block) : a >= 1
        /\ block.type = "opa_bundle_json_patch" => sdk
    BY <2>1, ValidMutatorIsComplete
  <2>3. /\ e \in Controllers /\ e.type = block.type /\ e.name = block.name
        /\ e.type \in {"opa_bundle", "opa_bundle_json_patch"} => e.sdk
        /\ \A a \in e.verifier : a >= 1
    <3>1. block.name \in STRING
      BY <2>1 DEF Blocks
    <3> QED
      BY <2>2, <3>1 DEF Controllers, MutatorTypes
  <2> HIDE DEF e
  <2>4. CASE stage' = "stopped"
    BY <1>1, <2>1, <2>4 DEF Built
  <2>5. CASE stage' = stage /\ at' = at + 1 /\ mutators' = Append(mutators, e)
    <3>1. MutatorsDone = at - 1 /\ ValidatorsDone = 0
      BY <2>1 DEF MutatorsDone, ValidatorsDone
    <3>2. MutatorsDone' = at /\ ValidatorsDone' = 0
      BY <1>3, <2>1, <2>5 DEF MutatorsDone, ValidatorsDone
    <3>3. /\ BuiltFrom(mutators, c.mutators, at - 1) /\ TriesSome(mutators)
          /\ BuiltFrom(validators, c.validators, 0) /\ TriesSome(validators)
          /\ resolveToken <=> \/ \E i \in 1 .. at - 1 : c.mutators[i].resolveToken
                              \/ \E i \in 1 .. 0 : c.validators[i].resolveToken
      BY <1>1, <2>1, <3>1 DEF Built
    <3>4. e.type = c.mutators[at].type /\ e.name = c.mutators[at].name
      BY <2>3 DEF block
    <3>5. /\ mutators' \in Seq(Controllers) /\ TriesSome(mutators')
          /\ BuiltFrom(mutators', c.mutators, at)
      BY <1>1, <1>3, <2>3, <2>5, <3>3, <3>4, OneMoreController
    <3>6. (\E i \in 1 .. at : c.mutators[i].resolveToken)
             <=> (\E i \in 1 .. at - 1 : c.mutators[i].resolveToken) \/ block.resolveToken
      BY <1>3, OneMoreToken DEF block
    <3>7. resolveToken' <=> \/ \E i \in 1 .. at : c.mutators[i].resolveToken
                            \/ \E i \in 1 .. 0 : c.validators[i].resolveToken
      BY <1>1, <2>1, <3>3, <3>6
    <3> QED
      BY <1>1, <1>8, <2>1, <2>5, <3>2, <3>3, <3>5, <3>7 DEF Built
  <2> QED
    BY <2>1, <2>4, <2>5
<1>13. CASE createValidator
  <2> DEFINE block == c.validators[at]
             e == [type |-> block.type, name |-> block.name,
                   verifier |-> ValidatorVerifier(block),
                   sdk |-> sdk /\ block.type \in {"opa_bundle", "opa_bundle_json_patch"}]
  <2>1. /\ stage = "validators" /\ block \in Blocks /\ validateValidator(block)
        /\ sdk = (c.opaSdk # {}) /\ mutators' = mutators /\ clientAuth' = clientAuth
        /\ resolveToken' = (resolveToken \/ block.resolveToken)
        /\ \/ stage' = stage /\ at' = at + 1 /\ validators' = Append(validators, e)
           \/ stage' = "stopped" /\ validators' = validators
    BY <1>13, ValidatorStep
  <2> HIDE DEF block
  <2>2. /\ ValidatorVerifier(block) \in Pointer(Int) /\ block.type \in ValidatorTypes
        /\ \A a \in ValidatorVerifier(block) : a >= 1
        /\ block.type = "opa_bundle" => sdk
    BY <2>1, ValidValidatorIsComplete
  <2>3. /\ e \in Controllers /\ e.type = block.type /\ e.name = block.name
        /\ e.type \in {"opa_bundle", "opa_bundle_json_patch"} => e.sdk
        /\ \A a \in e.verifier : a >= 1
    <3>1. block.name \in STRING
      BY <2>1 DEF Blocks
    <3> QED
      BY <2>2, <3>1 DEF Controllers, ValidatorTypes
  <2> HIDE DEF e
  <2>4. CASE stage' = "stopped"
    BY <1>1, <2>1, <2>4 DEF Built
  <2>5. CASE stage' = stage /\ at' = at + 1 /\ validators' = Append(validators, e)
    <3>1. MutatorsDone = MutatorCount /\ ValidatorsDone = at - 1
      BY <2>1 DEF MutatorsDone, ValidatorsDone
    <3>2. MutatorsDone' = MutatorCount /\ ValidatorsDone' = at
      BY <1>3, <1>8, <2>1, <2>5 DEF MutatorsDone, ValidatorsDone
    <3>3. /\ BuiltFrom(mutators, c.mutators, MutatorCount) /\ TriesSome(mutators)
          /\ BuiltFrom(validators, c.validators, at - 1) /\ TriesSome(validators)
          /\ resolveToken <=> \/ \E i \in 1 .. MutatorCount : c.mutators[i].resolveToken
                              \/ \E i \in 1 .. at - 1 : c.validators[i].resolveToken
      BY <1>1, <2>1, <3>1 DEF Built
    <3>4. e.type = c.validators[at].type /\ e.name = c.validators[at].name
      BY <2>3 DEF block
    <3>5. /\ validators' \in Seq(Controllers) /\ TriesSome(validators')
          /\ BuiltFrom(validators', c.validators, at)
      BY <1>1, <1>3, <2>3, <2>5, <3>3, <3>4, OneMoreController
    <3>6. (\E i \in 1 .. at : c.validators[i].resolveToken)
             <=> (\E i \in 1 .. at - 1 : c.validators[i].resolveToken) \/ block.resolveToken
      BY <1>3, OneMoreToken DEF block
    <3>7. resolveToken' <=> \/ \E i \in 1 .. MutatorCount : c.mutators[i].resolveToken
                            \/ \E i \in 1 .. at : c.validators[i].resolveToken
      BY <1>1, <2>1, <3>3, <3>6
    <3> QED
      BY <1>1, <1>8, <2>1, <2>5, <3>2, <3>3, <3>5, <3>7 DEF Built
  <2> QED
    BY <2>1, <2>4, <2>5
<1>14. CASE LoopEnds
  <2>1. UNCHANGED builtVars /\ at' = 1 /\ at' - 1 = 0
    BY <1>14 DEF LoopEnds
  <2>2. CASE stage = "mutators"
    <3>1. stage' = "validators" /\ at > MutatorCount
      BY <1>14, <2>2 DEF LoopEnds
    <3>2. at - 1 = MutatorCount
      BY <1>1, <1>2, <2>2, <3>1 DEF Phases
    <3>3. MutatorsDone' = MutatorsDone /\ ValidatorsDone' = ValidatorsDone
      BY <1>8, <2>1, <2>2, <3>1, <3>2 DEF MutatorsDone, ValidatorsDone
    <3> QED
      BY <1>6, <1>8, <2>1, <2>2, <3>1, <3>3
  <2>3. CASE stage = "validators"
    <3>1. stage' = "listener" /\ at > ValidatorCount
      BY <1>14, <2>3 DEF LoopEnds
    <3>2. at - 1 = ValidatorCount
      BY <1>1, <1>2, <2>3, <3>1 DEF Phases
    <3>3. MutatorsDone' = MutatorsDone /\ ValidatorsDone' = ValidatorsDone
      BY <1>8, <2>3, <3>1, <3>2 DEF MutatorsDone, ValidatorsDone
    <3> QED
      BY <1>6, <1>8, <2>1, <2>3, <3>1, <3>3
  <2> QED
    BY <1>14, <2>2, <2>3 DEF LoopEnds
<1>15. CASE ListenerTLS
  <2>1. /\ stage = "listener" /\ mutators' = mutators /\ validators' = validators
        /\ resolveToken' = resolveToken
        /\ \/ /\ stage' = "built"
              /\ clientAuth' = \E tls \in c.tls : tls.ca /\ ~tls.noClientCert
           \/ stage' = "stopped"
    BY <1>15 DEF ListenerTLS
  <2>2. CASE stage' = "stopped"
    BY <1>6, <2>1, <2>2
  <2>3. CASE stage' = "built"
    <3>1. MutatorsDone' = MutatorsDone /\ ValidatorsDone' = ValidatorsDone
      BY <1>8, <2>1, <2>3 DEF MutatorsDone, ValidatorsDone
    <3> QED
      BY <1>1, <1>8, <2>1, <2>3, <3>1 DEF Built
  <2> QED
    BY <2>1, <2>2, <2>3
<1>16. CASE Ended \/ UNCHANGED vars
  <2>1. UNCHANGED vars
    BY <1>16 DEF Ended
  <2>2. MutatorsDone' = MutatorsDone /\ ValidatorsDone' = ValidatorsDone
    BY <1>8, <2>1 DEF MutatorsDone, ValidatorsDone
  <2> QED
    BY <1>1, <2>1, <2>2 DEF Built
<1> QED
  BY <1>9, <1>10, <1>11, <1>12, <1>13, <1>14, <1>15, <1>16 DEF Next, buildConfig

-----------------------------------------------------------------------------
(* The invariant *)

\* Every block has a name.
LEMMA KeysAreTyped ==
    ASSUME c \in Configs, NEW k \in 1 .. BlockCount
    PROVE  Key(k) \in {"mutator", "validator"} \X STRING
<1>1. BlockAt(k) \in Blocks
  <2> DEFINE ms == c.mutators
             vs == c.validators
  <2>1. ms \in Seq({b \in Blocks : b.notation = {}}) /\ vs \in Seq(Blocks)
    BY DEF Configs
  <2>2. CASE k \in 1 .. MutatorCount
    <3>1. k \in 1 .. Len(ms) /\ BlockAt(k) = ms[k]
      BY <2>2, BlocksByPosition DEF MutatorCount
    <3> HIDE DEF ms
    <3>2. ms[k] \in Blocks
      BY <2>1, <3>1
    <3> QED
      BY <3>1, <3>2
  <2>3. CASE \E j \in 1 .. ValidatorCount : k = MutatorCount + j
    <3>1. PICK j \in 1 .. ValidatorCount : k = MutatorCount + j
      BY <2>3
    <3>2. j \in 1 .. Len(vs) /\ BlockAt(k) = vs[j]
      BY <3>1, BlocksByPosition DEF ValidatorCount
    <3> HIDE DEF vs
    <3>3. vs[j] \in Blocks
      BY <2>1, <3>2
    <3> QED
      BY <3>2, <3>3
  <2> QED
    BY <2>2, <2>3, BlocksByPosition
<1>2. BlockAt(k).name \in STRING
  BY <1>1 DEF Blocks
<1> QED
  BY <1>2 DEF Key

\* Every variable keeps its type, and main stops for a reason.
LEMMA TypeStep ==
    ASSUME ConfigInv, [Next]_vars
    PROVE  ConfigTypeOK'
<1> USE DEF inputVars, loopVars, builtVars, vars, GoTo, Stop
<1>1. ConfigTypeOK /\ Phases /\ Phases'
  BY PhasesStep DEF ConfigInv
<1>2. /\ c' \in Configs /\ (at \in 1 .. BlockCount + 1)'
      /\ mutators' \in Seq(Controllers) /\ validators' \in Seq(Controllers)
  BY <1>1, ConfigIsTyped, BuiltStep DEF Phases
<1>3. c \in Configs /\ BlockCount \in Nat /\ at \in 1 .. BlockCount + 1
  BY <1>1, ConfigIsTyped DEF Phases
<1> DEFINE Rest == /\ seen \subseteq {"mutator", "validator"} \X STRING
                   /\ passed \in 0 .. 2
                   /\ logs \in [text : Pointer(Streams), json : Pointer(Streams), otel : BOOLEAN]
                   /\ sdk \in BOOLEAN
                   /\ resolveToken \in BOOLEAN /\ clientAuth \in BOOLEAN
           Reason == why \in Reasons /\ ((why # "none") <=> (stage = "stopped"))
<1>4. Rest /\ Reason
  BY <1>1 DEF ConfigTypeOK
<1> SUFFICES Rest' /\ Reason'
  BY <1>2 DEF ConfigTypeOK
<1>5. CASE buildConfig
  <2>1. given \in {"absent", "unreadable", "file"}
    BY DEF ConfigInv, Loaded
  <2> QED
    BY <1>4, <1>5, <2>1 DEF buildConfig, Reasons
<1>6. CASE CheckOuts
  BY <1>4, <1>6 DEF CheckOuts, Reasons
<1>7. CASE ValidateSettings
  BY <1>4, <1>7 DEF ValidateSettings, Reasons
<1>8. CASE ValidateBlock
  <2>1. Key(at) \in {"mutator", "validator"} \X STRING
    <3>1. at \in 1 .. BlockCount
      BY <1>3, <1>8 DEF ValidateBlock
    <3> QED
      BY <1>3, <3>1, KeysAreTyped
  <2> QED
    BY <1>4, <1>8, <2>1 DEF ValidateBlock, Reasons
<1>9. CASE Validated
  <2>1. passed \in 0 .. 1
    BY <1>1, <1>4, <1>9 DEF Validated, Phases
  <2>2. passed' \in 0 .. 2
    BY <1>9, <2>1 DEF Validated
  <2> QED
    BY <1>4, <1>9, <2>2 DEF Validated
<1>10. CASE NewLoggerFactoryFromConfig
  <2>1. /\ UNCHANGED <<seen, passed, sdk, resolveToken, clientAuth>>
        /\ Reason'
    BY <1>4, <1>10 DEF NewLoggerFactoryFromConfig, Reasons
  <2>2. CASE logs' = logs
    BY <1>4, <2>1, <2>2
  <2>3. CASE logs' # logs
    <3>1. logs' = [text |-> IF TRUE \in c.text THEN outStrToWriter(c.textOut) ELSE {},
                   json |-> IF TRUE \in c.json THEN outStrToWriter(c.jsonOut) ELSE {},
                   otel |-> TRUE \in c.otel]
      BY <1>10, <2>3 DEF NewLoggerFactoryFromConfig
    <3>2. c.textOut \in Pointer(Streams \cup {"elsewhere"})
          /\ c.jsonOut \in Pointer(Streams \cup {"elsewhere"})
      BY <1>3 DEF Configs
    <3>3. /\ outStrToWriter(c.textOut) \in Pointer(Streams)
          /\ outStrToWriter(c.jsonOut) \in Pointer(Streams)
          /\ {} \in Pointer(Streams)
      BY <3>2 DEF outStrToWriter, Pointer
    <3> DEFINE text == IF TRUE \in c.text THEN outStrToWriter(c.textOut) ELSE {}
               json == IF TRUE \in c.json THEN outStrToWriter(c.jsonOut) ELSE {}
    <3>4. text \in Pointer(Streams) /\ json \in Pointer(Streams)
      BY <3>3
    <3>5. logs' = [text |-> text, json |-> json, otel |-> TRUE \in c.otel]
      BY <3>1
    <3> HIDE DEF text, json
    <3>6. logs' \in [text : Pointer(Streams), json : Pointer(Streams), otel : BOOLEAN]
      BY <3>4, <3>5
    <3> QED
      BY <1>4, <2>1, <3>6
  <2> QED
    BY <2>2, <2>3
<1>11. CASE setupOpaSDK
  BY <1>4, <1>11 DEF setupOpaSDK, Reasons
<1>12. CASE Transport
  BY <1>4, <1>12 DEF Transport, Reasons
<1>13. CASE createMutator
  <2>1. /\ UNCHANGED <<seen, passed, logs, sdk, clientAuth>> /\ resolveToken' \in BOOLEAN
        /\ stage = "mutators"
        /\ \/ stage' = stage /\ why' = why
           \/ stage' = "stopped" /\ why' \in {"rego", "files"}
    BY <1>13, MutatorStep
  <2> QED
    BY <1>4, <2>1 DEF Reasons
<1>14. CASE createValidator
  <2>1. /\ UNCHANGED <<seen, passed, logs, sdk, clientAuth>> /\ resolveToken' \in BOOLEAN
        /\ stage = "validators"
        /\ \/ stage' = stage /\ why' = why
           \/ stage' = "stopped" /\ why' \in {"rego", "files"}
    BY <1>14, ValidatorStep
  <2> QED
    BY <1>4, <2>1 DEF Reasons
<1>15. CASE LoopEnds
  BY <1>4, <1>15 DEF LoopEnds
<1>16. CASE ListenerTLS
  BY <1>4, <1>16 DEF ListenerTLS, Reasons
<1>17. CASE Ended \/ UNCHANGED vars
  BY <1>4, <1>17 DEF Ended
<1> QED
  BY <1>5, <1>6, <1>7, <1>8, <1>9, <1>10, <1>11, <1>12, <1>13, <1>14, <1>15, <1>16, <1>17
     DEF Next

\* main starts with the defaults and with nothing built.
LEMMA ConfigInit ==
    Init => ConfigInv
<1> SUFFICES ASSUME Init PROVE ConfigInv
  OBVIOUS
<1>1. c = DefaultConfig /\ c \in Configs
  BY DefaultIsAConfig DEF Init
<1>2. BlockCount \in Nat
  BY <1>1, BlocksByPosition
<1>3. 1 \in 1 .. BlockCount + 1
  BY <1>2
<1>4. ConfigTypeOK
  <2>1. {} \in Pointer(Streams)
    BY DEF Pointer
  <2>2. logs \in [text : Pointer(Streams), json : Pointer(Streams), otel : BOOLEAN]
    BY <2>1 DEF Init
  <2> QED
    <3>1. mutators \in Seq(Controllers) /\ validators \in Seq(Controllers)
      BY DEF Init
    <3>2. why \in Reasons /\ ((why # "none") <=> (stage = "stopped")) /\ passed \in 0 .. 2
      BY DEF Init, Reasons
    <3>3. /\ seen \subseteq {"mutator", "validator"} \X STRING /\ sdk \in BOOLEAN
          /\ resolveToken \in BOOLEAN /\ clientAuth \in BOOLEAN /\ at \in 1 .. BlockCount + 1
      BY <1>3 DEF Init
    <3> QED
      BY <1>1, <2>2, <3>1, <3>2, <3>3 DEF ConfigTypeOK
<1>5. Loaded
  BY <1>1, ConfigAssumption DEF Init, Loaded
<1>6. Phases
  BY <1>3 DEF Init, Phases, Building
<1>7. Checked /\ SdkBuilt /\ LogsOpen
  BY DEF Init, Checked, SdkBuilt, LogsOpen, Building
<1>8. Built
  <2>1. MutatorsDone = 0 /\ ValidatorsDone = 0
    BY DEF Init, MutatorsDone, ValidatorsDone
  <2> QED
    BY <2>1 DEF Init, Built, BuiltFrom, TriesSome
<1>9. WellFormedIsNotRefused /\ AcceptedConfigBuilds
  BY DEF Init, WellFormedIsNotRefused, AcceptedConfigBuilds
<1> QED
  BY <1>4, <1>5, <1>6, <1>7, <1>8, <1>9 DEF ConfigInv

\* Whatever the files hold, ConfigInv is true from the first step of main to the
\* built server.
THEOREM ConfigInvariant ==
    Spec => []ConfigInv
<1>1. ConfigInv /\ [Next]_vars => ConfigInv'
  BY TypeStep, LoadedStep, PhasesStep, CheckedStep, SdkStep, LogsStep, BuiltStep,
     NotRefusedStep, AcceptedStep DEF ConfigInv
<1> QED
  BY ConfigInit, <1>1, PTL DEF Spec

\* The configuration that is used, and whatever is built from it, is typed.
THEOREM ConfigIsTypeCorrect ==
    Spec => []ConfigTypeOK
<1>1. ConfigInv => ConfigTypeOK
  BY DEF ConfigInv
<1> QED
  BY <1>1, ConfigInvariant, PTL

\* LoadConfig and Validate refuse nothing that is well formed.
THEOREM ChecksAreNotTooStrict ==
    Spec => []WellFormedIsNotRefused
<1>1. ConfigInv => WellFormedIsNotRefused
  BY DEF ConfigInv
<1> QED
  BY <1>1, ConfigInvariant, PTL

\* The constructors of buildServer find everything that Validate asked for.
THEOREM ChecksAreEnough ==
    Spec => []AcceptedConfigBuilds
<1>1. ConfigInv => AcceptedConfigBuilds
  BY DEF ConfigInv
<1> QED
  BY <1>1, ConfigInvariant, PTL

\* A server is built from a well-formed configuration only.
THEOREM ChecksAreStrictEnough ==
    Spec => []OnlyWellFormedStarts
<1>1. ASSUME ConfigInv, stage = "built" PROVE given # "unreadable" /\ WellFormed(written)
  <2>1. passed > 0 /\ why = "none"
    BY <1>1 DEF ConfigInv, ConfigTypeOK, Phases, Building
  <2>2. OutsOpen /\ SettingsValid /\ BlocksValid(BlockCount)
    BY <1>1, <2>1 DEF ConfigInv, Checked
  <2>3. "elsewhere" \notin c.textOut \cup c.jsonOut
    BY <2>2 DEF OutsOpen, Streams
  <2>4. c = FileConfig /\ written \in Configs
    BY <1>1, CheckedIsWritten
  <2>5. given # "unreadable"
    BY <1>1, <2>1 DEF ConfigInv, Loaded
  <2> QED
    BY <2>2, <2>3, <2>4, <2>5, ChecksAreExact
<1>2. ConfigInv => OnlyWellFormedStarts
  BY <1>1 DEF OnlyWellFormedStarts
<1> QED
  BY <1>2, ConfigInvariant, PTL

\* A log output that is switched on has its stream from the logger factory on.
THEOREM LogsAreNotDropped ==
    Spec => []EnabledLogsAreOpen
<1>1. ASSUME ConfigInv, passed > 0, stage \notin {"loggers", "stopped"}
      PROVE  /\ TRUE \in written.text => logs.text # {}
             /\ TRUE \in written.json => logs.json # {}
             /\ TRUE \in written.otel => logs.otel
  <2>1. stage # "config"
    BY <1>1 DEF ConfigInv, Phases
  <2>2. c = FileConfig /\ written \in Configs
    BY <1>1, <2>1, CheckedIsWritten
  <2>3. c.text = written.text /\ c.json = written.json /\ c.otel = written.otel
    BY <2>2, DefaultsOfFile
  <2> QED
    BY <1>1, <2>3 DEF ConfigInv, LogsOpen
<1>2. ConfigInv => EnabledLogsAreOpen
  BY <1>1 DEF EnabledLogsAreOpen
<1> QED
  BY <1>2, ConfigInvariant, PTL

-----------------------------------------------------------------------------
(* The server that is built *)

EntriesOf(both, s, t) ==
    /\ \A i \in DOMAIN both : \/ \E k \in DOMAIN s : both[i] = s[k]
                             \/ \E k \in DOMAIN t : both[i] = t[k]
    /\ \A k \in DOMAIN s : \E i \in DOMAIN both : both[i] = s[k]
    /\ \A k \in DOMAIN t : \E i \in DOMAIN both : both[i] = t[k]

\* The entries of two lists, one after the other, are the entries of the two.
LEMMA EntriesOfBoth ==
    ASSUME NEW S, NEW s \in Seq(S), NEW t \in Seq(S)
    PROVE  EntriesOf(s \o t, s, t)
<1> DEFINE m == Len(s)
           n == Len(t)
           both == s \o t
<1>1. m \in Nat /\ n \in Nat /\ DOMAIN s = 1 .. m /\ DOMAIN t = 1 .. n
  OBVIOUS
<1>2. /\ DOMAIN both = 1 .. m + n
      /\ \A i \in 1 .. m + n : both[i] = IF i <= m THEN s[i] ELSE t[i - m]
  OBVIOUS
<1> HIDE DEF m, n, both
<1>3. \A i \in 1 .. m + n : i \in 1 .. m \/ (i - m \in 1 .. n /\ ~(i <= m))
  BY <1>1
<1>4. \A k \in 1 .. m : k \in 1 .. m + n /\ k <= m
  BY <1>1
<1>5. \A k \in 1 .. n : m + k \in 1 .. m + n /\ ~(m + k <= m) /\ (m + k) - m = k
  BY <1>1
<1>6. \A i \in DOMAIN both : \/ \E k \in DOMAIN s : both[i] = s[k]
                             \/ \E k \in DOMAIN t : both[i] = t[k]
  <2> SUFFICES ASSUME NEW i \in 1 .. m + n
               PROVE  \/ \E k \in DOMAIN s : both[i] = s[k]
                      \/ \E k \in DOMAIN t : both[i] = t[k]
    BY <1>2
  <2>1. CASE i \in 1 .. m
    <3>1. both[i] = s[i]
      BY <1>1, <1>2, <2>1
    <3> QED
      BY <1>1, <2>1, <3>1
  <2>2. CASE i - m \in 1 .. n /\ ~(i <= m)
    <3>1. both[i] = t[i - m]
      BY <1>1, <1>2, <2>2
    <3> QED
      BY <1>1, <2>2, <3>1
  <2> QED
    BY <1>3, <2>1, <2>2
<1>7. \A k \in DOMAIN s : \E i \in DOMAIN both : both[i] = s[k]
  BY <1>1, <1>2, <1>4
<1>8. \A k \in DOMAIN t : \E i \in DOMAIN both : both[i] = t[k]
  BY <1>1, <1>2, <1>5
<1> QED
  BY <1>6, <1>7, <1>8 DEF EntriesOf, both

\* A verifier tries at least one signature.
THEOREM EveryVerifierTries ==
    Spec => []VerifiersTry
<1>1. ASSUME ConfigInv PROVE VerifiersTry
  <2>1. /\ mutators \in Seq(Controllers) /\ validators \in Seq(Controllers)
        /\ TriesSome(mutators) /\ TriesSome(validators)
    BY <1>1 DEF ConfigInv, ConfigTypeOK, Built
  <2> DEFINE both == mutators \o validators
  <2>2. \A i \in DOMAIN both : \/ \E k \in DOMAIN mutators : both[i] = mutators[k]
                               \/ \E k \in DOMAIN validators : both[i] = validators[k]
    <3>1. EntriesOf(both, mutators, validators)
      BY <2>1, EntriesOfBoth
    <3> HIDE DEF both
    <3> QED
      BY <3>1 DEF EntriesOf
  <2> HIDE DEF both
  <2>3. \A i \in DOMAIN both : \A attempts \in both[i].verifier : attempts >= 1
    BY <2>1, <2>2 DEF TriesSome
  <2> QED
    BY <2>3 DEF VerifiersTry, both
<1> QED
  BY <1>1, ConfigInvariant, PTL

\* Controllers built from blocks with their defaults are those written.
LEMMA ImageOfBuilt ==
    ASSUME NEW S, S \in {Blocks, MutatorBlock}, NEW blocks \in Seq(S),
           NEW built \in Seq(Controllers), BuiltFrom(built, WithDefaults(blocks), Len(blocks))
    PROVE  /\ Image(built) = Image(blocks)
           /\ \A i \in DOMAIN built :
                 built[i].type \in {"opa_bundle", "opa_bundle_json_patch"} => built[i].sdk
<1> DEFINE n == Len(blocks)
<1>1. n \in Nat /\ DOMAIN blocks = 1 .. n /\ DOMAIN built = 1 .. n
  BY DEF BuiltFrom
<1>2. \A i \in 1 .. n : blocks[i] \in Blocks
  BY <1>1 DEF MutatorBlock
<1>3. \A i \in 1 .. n : WithDefaults(blocks)[i] = BlockDefaults(blocks[i])
  BY DefaultsOfBlocks
<1>4. \A i \in 1 .. n : built[i].type = blocks[i].type /\ built[i].name = blocks[i].name
  <2> SUFFICES ASSUME NEW i \in 1 .. n
               PROVE  built[i].type = blocks[i].type /\ built[i].name = blocks[i].name
    OBVIOUS
  <2> DEFINE block == blocks[i]
  <2>1. block \in Blocks
    BY <1>2
  <2> HIDE DEF block
  <2>2. BlockDefaults(block).type = block.type /\ BlockDefaults(block).name = block.name
    BY <2>1, DefaultsOfBlock
  <2>3. /\ built[i].type = WithDefaults(blocks)[i].type
        /\ built[i].name = WithDefaults(blocks)[i].name
    BY DEF BuiltFrom
  <2> QED
    BY <1>3, <2>2, <2>3 DEF block
<1>5. Image(built) = Image(blocks)
  BY <1>1, <1>4 DEF Image
<1> QED
  BY <1>1, <1>5 DEF BuiltFrom

\* Whether a block asks for the token does not depend on the defaults.
LEMMA TokenOfBlocks ==
    ASSUME NEW S, S \in {Blocks, MutatorBlock}, NEW blocks \in Seq(S)
    PROVE  (\E i \in 1 .. Len(blocks) : WithDefaults(blocks)[i].resolveToken)
              <=> \E i \in DOMAIN blocks : blocks[i].resolveToken
<1> DEFINE n == Len(blocks)
<1>1. DOMAIN blocks = 1 .. n /\ \A i \in 1 .. n : blocks[i] \in Blocks
  BY DEF MutatorBlock
<1>2. \A i \in 1 .. n : WithDefaults(blocks)[i] = BlockDefaults(blocks[i])
  BY DefaultsOfBlocks
<1>3. \A i \in 1 .. n : WithDefaults(blocks)[i].resolveToken = blocks[i].resolveToken
  <2> SUFFICES ASSUME NEW i \in 1 .. n
               PROVE  WithDefaults(blocks)[i].resolveToken = blocks[i].resolveToken
    OBVIOUS
  <2> DEFINE block == blocks[i]
  <2>1. block \in Blocks
    BY <1>1
  <2> HIDE DEF block
  <2>2. BlockDefaults(block).resolveToken = block.resolveToken
    BY <2>1, DefaultsOfBlock
  <2> QED
    BY <1>2, <2>2 DEF block
<1> QED
  BY <1>1, <1>3

\* The built server is the configured one: every controller in its place, the
\* token, the SDK and client certificates exactly where they are asked for.
THEOREM ServerIsAsConfigured ==
    Spec => []ServerIsTheConfigured
<1>1. ASSUME ConfigInv, stage = "built" PROVE ServerIsTheConfigured
  <2> DEFINE ms == written.mutators
             vs == written.validators
  <2>1. c = FileConfig /\ written \in Configs
    BY <1>1, CheckedIsWritten
  <2>2. /\ c.mutators = WithDefaults(ms) /\ c.validators = WithDefaults(vs) /\ c.tls = written.tls
    BY <2>1, DefaultsOfFile
  <2>3. ms \in Seq(MutatorBlock) /\ vs \in Seq(Blocks)
    BY <2>1 DEF Configs, MutatorBlock
  <2>4. /\ MutatorsDone = MutatorCount /\ ValidatorsDone = ValidatorCount
    BY <1>1 DEF MutatorsDone, ValidatorsDone
  <2>5. MutatorCount = Len(ms)
    BY <2>2, <2>3, DefaultsOfBlocks DEF MutatorCount
  <2>6. ValidatorCount = Len(vs)
    BY <2>2, <2>3, DefaultsOfBlocks DEF ValidatorCount
  <2> HIDE DEF ms, vs
  <2>7. /\ mutators \in Seq(Controllers) /\ validators \in Seq(Controllers)
        /\ BuiltFrom(mutators, WithDefaults(ms), Len(ms))
        /\ BuiltFrom(validators, WithDefaults(vs), Len(vs))
        /\ resolveToken <=> \/ \E i \in 1 .. Len(ms) : WithDefaults(ms)[i].resolveToken
                            \/ \E i \in 1 .. Len(vs) : WithDefaults(vs)[i].resolveToken
        /\ clientAuth <=> \E tls \in written.tls : tls.ca /\ ~tls.noClientCert
    BY <1>1, <2>2, <2>4, <2>5, <2>6 DEF ConfigInv, ConfigTypeOK, Built
  <2>8. /\ Image(mutators) = Image(ms)
        /\ \A i \in DOMAIN mutators :
              mutators[i].type \in {"opa_bundle", "opa_bundle_json_patch"} => mutators[i].sdk
    BY <2>3, <2>7, ImageOfBuilt
  <2>9. /\ Image(validators) = Image(vs)
        /\ \A i \in DOMAIN validators :
              validators[i].type \in {"opa_bundle", "opa_bundle_json_patch"} => validators[i].sdk
    BY <2>3, <2>7, ImageOfBuilt
  <2>10. resolveToken <=> \E i \in DOMAIN (ms \o vs) : (ms \o vs)[i].resolveToken
    <3> DEFINE both == ms \o vs
    <3>1. ms \in Seq(Blocks)
      BY <2>3 DEF MutatorBlock
    <3>2. /\ \A i \in DOMAIN both : \/ \E k \in DOMAIN ms : both[i] = ms[k]
                                    \/ \E k \in DOMAIN vs : both[i] = vs[k]
          /\ \A k \in DOMAIN ms : \E i \in DOMAIN both : both[i] = ms[k]
          /\ \A k \in DOMAIN vs : \E i \in DOMAIN both : both[i] = vs[k]
      <4>1. EntriesOf(both, ms, vs)
        BY <2>3, <3>1, EntriesOfBoth
      <4> HIDE DEF both
      <4> QED
        BY <4>1 DEF EntriesOf
    <3>3. (\E i \in 1 .. Len(ms) : WithDefaults(ms)[i].resolveToken)
             <=> \E i \in DOMAIN ms : ms[i].resolveToken
      BY <2>3, TokenOfBlocks
    <3>4. (\E i \in 1 .. Len(vs) : WithDefaults(vs)[i].resolveToken)
             <=> \E i \in DOMAIN vs : vs[i].resolveToken
      BY <2>3, TokenOfBlocks
    <3> HIDE DEF both
    <3>5. resolveToken <=> \E i \in DOMAIN both : both[i].resolveToken
      BY <2>7, <3>2, <3>3, <3>4
    <3> QED
      BY <3>5 DEF both
  <2>11. \A i \in DOMAIN (mutators \o validators) :
            (mutators \o validators)[i].type \in {"opa_bundle", "opa_bundle_json_patch"}
               => (mutators \o validators)[i].sdk
    <3> DEFINE both == mutators \o validators
    <3>1. \A i \in DOMAIN both : \/ \E k \in DOMAIN mutators : both[i] = mutators[k]
                                 \/ \E k \in DOMAIN validators : both[i] = validators[k]
      <4>1. EntriesOf(both, mutators, validators)
        BY <2>7, EntriesOfBoth
      <4> HIDE DEF both
      <4> QED
        BY <4>1 DEF EntriesOf
    <3> HIDE DEF both
    <3>2. \A i \in DOMAIN both :
             both[i].type \in {"opa_bundle", "opa_bundle_json_patch"} => both[i].sdk
      BY <2>8, <2>9, <3>1
    <3> QED
      BY <3>2 DEF both
  <2> QED
    BY <2>7, <2>8, <2>9, <2>10, <2>11 DEF ServerIsTheConfigured, ms, vs
<1>2. ConfigInv => ServerIsTheConfigured
  BY <1>1 DEF ServerIsTheConfigured
<1> QED
  BY <1>2, ConfigInvariant, PTL

===============================================================================
