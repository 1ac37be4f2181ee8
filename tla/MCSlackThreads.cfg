SPECIFICATION HistorySpec
CONSTANTS
    Users = {ann, bob}
    Workspaces = {w1, w2}
    Threads = {t1, t2, t3}
    Convs = {c1, c2, c3}
    Listeners = {l1, l2}
    MaxInbox = 1
    None = None
SYMMETRY Symmetry
CHECK_DEADLOCK FALSE
INVARIANTS
    ThreadsAreConsistent
    AloneThreadsLeadHome
