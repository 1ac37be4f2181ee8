SPECIFICATION Spec
CONSTANTS
    Convs = {c1, c2}
    Workers = {w1, w2}
    NoConv = NoConv
    NoRow = NoRow
    NoWorker = NoWorker
    MaxCalls = 1
PROPERTIES
    CancelsOnlyActive
