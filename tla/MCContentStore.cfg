SPECIFICATION ContentFairSpec
CONSTANTS
    Requests = {r1, r2}
    Dirs = {d1, d2}
    Exts = {x1}
    Groups = {g1, g2}
    OktaApps <- ThreeNames
CHECK_DEADLOCK FALSE
INVARIANTS
    DocumentsAreConsistent
PROPERTIES
    ReplacedMeansOne
    ImportedAppsExist
    EveryImportEnds
