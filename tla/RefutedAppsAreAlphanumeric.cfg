SPECIFICATION ContentSpec
CONSTANTS
    Requests = {r1}
    Dirs = {d1}
    Exts = {x1}
    Groups = {g1}
    OktaApps <- ThreeNames
INVARIANTS
    AppsAreAlphanumeric
CHECK_DEADLOCK FALSE
