SPECIFICATION FairSpec
CONSTANTS
    Rules = {r1, r2}
    Apps = {a1, a2}
    Dirs = {d1}
    Whens = {x}
    Workers = {w1, w2}
    NoRule = NoRule
    Omitted = Omitted
INVARIANTS
    EngineGoesByAcceptedRules
    PatchesAreKept
    RuleKeepsWhatItNames
PROPERTIES
    LoopComesFree
