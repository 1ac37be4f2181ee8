SPECIFICATION VaultSpec
CONSTANTS
    Workspaces <- TwoIds
    Paths <- ThreePaths
    Upper <- UpperCase
    Lower <- LowerCase
    Places = {"x1", "x2"}
    Callers = {"c1", "c2"}
    None = None
    ClusterIds <- DashedIds
    ClusterPaths <- DashedPaths
    ClusterLower <- SameCase
    ClusterDashed <- WithDashes
    ClusterShared = TRUE
    ClusterCallers = {"c1", "c2", "c3"}
CHECK_DEADLOCK FALSE
INVARIANTS
    ResolvedToItsOwn
    ListedCanBeDeleted
    ClusterIsConsistent
PROPERTIES
    IsABoxEach
