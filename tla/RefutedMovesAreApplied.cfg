SPECIFICATION Spec
CONSTANTS
    Homes = {h1, h2}
    Tokens = {h1, h2}
    External <- OneForAll
    Old = {o1}
    Clients = {c1}
    Walkers = {}
    Names <- TwoNames
    Asked = {"aliases", "extra_instructions", "read_config", "logo_url"}
    Limit = 1
    None = None
SYMMETRY Symmetry
CHECK_DEADLOCK FALSE
PROPERTIES
    MovesAreApplied
