SPECIFICATION HistorySpec
CONSTANTS
    Workers = {w1, w2}
    MaxTurns = 3
    MaxSteps = 4
    Window = 2
INVARIANTS
    GuardrailIsHeeded
    AnsweredByTheRightHand
    EdgesLeadHome
    AloneHistoryIsRemembered
PROPERTIES
    EveryTurnEnds
