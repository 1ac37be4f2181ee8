SPECIFICATION Spec
CONSTANTS
    Deleters = {d1}
    Writers = {w1}
    Authors = {a1}
    Secrets = {s1}
    Old = Old
PROPERTIES
    DeletedSuccessfully
