------------------------------- MODULE MCVault -------------------------------
(***************************************************************************)
(* The instance of the two vaults that TLC explores.  The settings choose  *)
(* one of them (VAULT_URI, provide_vault); the other one is left as it is. *)
(***************************************************************************)
EXTENDS EnvVault

CONSTANTS
    ClusterIds,     \* ids of workspaces of a server that uses the cluster
    ClusterPaths,   \* paths, as its configurations write them
    ClusterLower,   \* the label of each id
    ClusterDashed,  \* what names say of each id and path
    ClusterShared,  \* the vault was given a namespace
    ClusterCallers  \* requests that use it

\* Ids of workspaces differ in more than the case of their letters, and so do labels.
ASSUME LabelsDiffer == \A v, w \in ClusterIds : ClusterLower[v] = ClusterLower[w] => v = w

VARIABLES
    protocol,       \* the scheme of VAULT_URI
    cluster, stage, asks, got, listed

\* Two workspaces; a path written in lower, in upper and in mixed case, and another.
TwoIds == {"ws1", "ws2"}
ThreePaths == {"okta", "Okta", "smtp"}
UpperCase == [x \in TwoIds \cup ThreePaths |->
    CASE x = "ws1" -> "WS1" [] x = "ws2" -> "WS2" [] x = "smtp" -> "SMTP" [] OTHER -> "OKTA"]
LowerCase == [x \in {"OKTA", "SMTP"} |-> IF x = "OKTA" THEN "okta" ELSE "smtp"]

\* For the cluster, two ids that differ in a dash, and two paths that do.
DashedIds == {"ws_1", "ws-1"}
DashedPaths == {"okta_key", "okta-key"}
SameCase == [w \in DashedIds |-> w]
WithDashes == [x \in DashedIds \cup DashedPaths |->
                  IF x \in DashedIds THEN "ws-1" ELSE "okta-key"]

Cluster == INSTANCE ClusterVault WITH
    Workspaces <- ClusterIds,
    Paths <- ClusterPaths,
    Lower <- ClusterLower,
    Dashed <- ClusterDashed,
    Shared <- ClusterShared,
    Callers <- ClusterCallers,
    pc <- stage,
    names <- listed

clusterVars == <<cluster, stage, asks, got, listed>>

\* The variables of the vault that was not chosen have one value.
VaultInit ==
    /\ Init
    /\ protocol \in {"env", "k8s"}
    /\ protocol = "k8s" =>
           /\ environ = [k \in Keys |-> None]
           /\ acts = [c \in Callers |-> CHOOSE w \in Workspaces : TRUE]
    /\ Cluster!Init
    /\ protocol = "env" => \A c \in ClusterCallers :
           asks[c] = CHOOSE r \in Cluster!Request : TRUE

VaultNext ==
    \/ protocol = "env" /\ Next /\ UNCHANGED <<protocol, clusterVars>>
    \/ protocol = "k8s" /\ Cluster!Next /\ UNCHANGED <<protocol, vars>>

VaultSpec == VaultInit /\ [][VaultNext]_<<protocol, vars, clusterVars>>

-----------------------------------------------------------------------------
\* The cluster has one secret of a name in a namespace; two ids may give one name in
\* a shared namespace, and yet no workspace is given another's secret (get_secret
\* compares the label).
ClusterIsConsistent == Cluster!TypeOK /\ Cluster!GivenItsOwn

\* What set_secret and delete_secret say of a secret that exists and of one that
\* does not: neither holds (RefutedExistingIsUpdated, RefutedMissingIsDeleted).
ClusterUpdatesExisting == Cluster!ExistingIsUpdated
ClusterDeletesMissing == Cluster!MissingIsDeleted

=============================================================================
