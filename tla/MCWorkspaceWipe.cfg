SPECIFICATION FairSpec
CONSTANTS
    Deleters = {d1, d2}
    Writers = {w1}
    Authors = {a1}
    Secrets = {s1}
    Old = Old
INVARIANTS
    RowsAreConsistent
    GoneMeansForgotten
PROPERTIES
    TablesGoTogether
    EveryWipeEnds
