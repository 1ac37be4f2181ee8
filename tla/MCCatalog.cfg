SPECIFICATION Spec
CONSTANTS
    Homes = {h1, h2}
    Tokens = {h1, h2}
    External <- OneForAll
    Old = {o1}
    Clients = {c1, c2}
    Walkers = {w1}
    Names <- TwoNames
    Asked = {"aliases", "extra_instructions", "read_config", "logo_url"}
    Limit = 1
    None = None
SYMMETRY Symmetry
CHECK_DEADLOCK FALSE
INVARIANTS
    CatalogIsConsistent
    WalkMissesNothing
PROPERTIES
    PatchChangesItsField
    WritesKeepTheirPlace
