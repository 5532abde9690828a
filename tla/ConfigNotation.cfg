\* What the policy guide says of a notation block in an opa_rule.
SPECIFICATION Spec
CONSTANTS
    Files <- BlockFiles
INVARIANTS
    NotationOfTheRuleIsRegistered
