SPECIFICATION Spec
CONSTANTS
    Convs = {c1, c2}
    Workers = {w1}
    NoConv = NoConv
    NoRow = NoRow
    NoWorker = NoWorker
    MaxCalls = 2
PROPERTIES
    CompletedIsTheEnd
