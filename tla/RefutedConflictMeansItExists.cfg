SPECIFICATION Spec
CONSTANTS
    Rules = {r1}
    Apps = {a1, a2}
    Dirs = {d1}
    Whens = {x}
    Workers = {w1, w2}
    NoRule = NoRule
    Omitted = Omitted
PROPERTIES
    ConflictMeansItExists
