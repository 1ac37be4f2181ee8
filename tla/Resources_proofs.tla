--------------------------- MODULE Resources_proofs ---------------------------
(***************************************************************************)
(* What holds of the resources that a server has beside its tables: of the *)
(* secrets in either vault, of the connections of the database's pool, and *)
(* of the documents in a workspace's vector store.                         *)
(*                                                                         *)
(* The vaults, for any workspaces, paths, callers and configurations: no   *)
(* workspace is given a secret of another one.  In the environment a       *)
(* deletion meets no missing secret, and the environment is one box of     *)
(* secrets for each workspace; in the cluster a name in a namespace is one *)
(* secret.                                                                 *)
(*                                                                         *)
(* The pool, for any listeners, turns and routes: Slack alone never waits, *)
(* and it takes several tools of the portal to keep every connection from  *)
(* being returned.                                                         *)
(*                                                                         *)
(* The documents, for any requests, directories, groups and names: what    *)
(* was accepted is found, and imports neither mix nor outrun their         *)
(* applications.                                                           *)
(***************************************************************************)
EXTENDS MCVault, MCConnectionPool, MCContentStore, Integers, Sequences, FiniteSets,
        FiniteSetTheorems, TLAPS

-----------------------------------------------------------------------------
(***************************************************************************)
(* The vaults.                                                             *)
(***************************************************************************)

\* One deletion at a time is listing and deleting, and what it has listed is in
\* lower case: two of its paths are never one variable.
OneIsClearing == \A c, d \in Callers : pc[c] = "clearing" /\ pc[d] = "clearing" => c = d
ListedAreClearing == \A c \in Callers : names[c] # {} => pc[c] = "clearing"
ListedAreFolded == \A c \in Callers : \A p \in names[c] : Lower[Upper[p]] = p

IInv ==
    /\ TypeOK
    /\ KeysTellOwners
    /\ ResolvedToItsOwn
    /\ ListedCanBeDeleted
    /\ OneIsClearing
    /\ ListedAreClearing
    /\ ListedAreFolded

\* A name has one workspace and one path up to case.
LEMMA KeysAreInjective ==
    ASSUME NEW v \in Workspaces, NEW w \in Workspaces, NEW p \in Paths, NEW q \in Paths,
           Key(v, p) = Key(w, q)
    PROVE v = w /\ Upper[p] = Upper[q]
BY IdsDiffer DEF Key

\* The server starts in a state of the invariant.
LEMMA InitOK == Init => IInv
<1> SUFFICES ASSUME Init PROVE IInv
    OBVIOUS
<1> PICK given \in SUBSET Keys :
        environ = [k \in Keys |-> IF k \in given
                                  THEN CHOOSE w \in Workspaces : Upper[w] = k[1] ELSE None]
    BY DEF Init
<1>1. ASSUME NEW v \in Workspaces, NEW p \in Paths
      PROVE environ[Key(v, p)] \in {v, None}
    <2>1. Key(v, p) \in Keys /\ Key(v, p)[1] = Upper[v]
        BY DEF Keys, Key
    <2>2. (CHOOSE w \in Workspaces : Upper[w] = Upper[v]) = v
        BY IdsDiffer
    <2> QED
        BY <2>1, <2>2
<1>2. environ \in [Keys -> Workspaces \cup {None}]
    <2> SUFFICES ASSUME NEW k \in Keys PROVE environ[k] \in Workspaces \cup {None}
        OBVIOUS
    <2>1. PICK v \in Workspaces, p \in Paths : k = Key(v, p)
        BY DEF Keys
    <2>2. environ[k] \in {v, None}
        BY <1>1, <2>1
    <2> QED
        BY <2>2
<1>3. TypeOK
    BY <1>2 DEF Init, TypeOK
<1> QED
    BY <1>1, <1>3 DEF Init, IInv, KeysTellOwners, ResolvedToItsOwn, ListedCanBeDeleted,
        OneIsClearing, ListedAreClearing, ListedAreFolded

\* Setting a secret.
LEMMA SetSecretOK ==
    ASSUME IInv, NEW w \in Workspaces, NEW p \in Paths, SetSecret(w, p)
    PROVE IInv'
<1> USE NoneIsNoWorkspace DEF IInv
<1>1. Key(w, p) \in Keys
    BY DEF Keys
<1>2. TypeOK'
    BY <1>1 DEF TypeOK, SetSecret, callers
<1>3. KeysTellOwners'
    <2> SUFFICES ASSUME NEW v \in Workspaces, NEW q \in Paths
                 PROVE environ'[Key(v, q)] \in {v, None}
        BY DEF KeysTellOwners, Key
    <2>1. Key(v, q) \in Keys
        BY DEF Keys
    <2> QED
        BY <1>1, <2>1, KeysAreInjective DEF TypeOK, SetSecret, KeysTellOwners
<1>4. ListedCanBeDeleted'
    <2> SUFFICES ASSUME NEW c \in Callers, NEW q \in names[c]
                 PROVE environ'[Key(acts[c], q)] # None
        BY DEF ListedCanBeDeleted, GetSecret, SetSecret, callers, Key
    <2>1. Key(acts[c], q) \in Keys /\ environ[Key(acts[c], q)] # None
        BY DEF Keys, TypeOK, ListedCanBeDeleted, GetSecret
    <2> QED
        BY <1>1, <2>1 DEF TypeOK, SetSecret
<1> QED
    BY <1>2, <1>3, <1>4 DEF SetSecret, callers, ResolvedToItsOwn, OneIsClearing,
        ListedAreClearing, ListedAreFolded

\* Resolving one place of a configuration.
LEMMA ResolveOK ==
    ASSUME IInv, NEW c \in Callers, Resolve(c)
    PROVE IInv'
<1> USE DEF IInv
<1> PICK x \in Places, path \in Paths : Replace(c, x, GetSecret(acts[c], path))
    BY DEF Resolve
<1>1. GetSecret(acts[c], path) \in {acts[c], None} /\ acts[c] \in Workspaces
    BY DEF TypeOK, KeysTellOwners, GetSecret
<1>2. TypeOK'
    BY <1>1 DEF TypeOK, Replace
<1>3. ResolvedToItsOwn'
    BY <1>1 DEF TypeOK, Replace, ResolvedToItsOwn
<1>4. ListedCanBeDeleted'
    BY DEF Replace, ListedCanBeDeleted, GetSecret, Key
<1>5. KeysTellOwners'
    BY DEF Replace, KeysTellOwners, Key
<1> QED
    BY <1>2, <1>3, <1>4, <1>5 DEF TypeOK, Replace, OneIsClearing, ListedAreClearing, ListedAreFolded

\* Listing the secrets of a workspace.
LEMMA BeginClearingOK ==
    ASSUME IInv, NEW c \in Callers, BeginClearing(c)
    PROVE IInv'
<1> USE DEF IInv
<1>1. ASSUME NEW p \in ListSecrets(acts[c])
      PROVE p \in Paths /\ Lower[Upper[p]] = p /\ environ[Key(acts[c], p)] # None
    <2>1. PICK k \in Keys : k[1] = Upper[acts[c]] /\ environ[k] # None /\ p = Lower[k[2]]
        BY DEF ListSecrets
    <2>2. k[2] \in Folded /\ k = <<k[1], k[2]>>
        BY DEF Keys, Key, Folded
    <2> QED
        BY <2>1, <2>2, FoldingIsStable DEF Key
<1>2. TypeOK'
    BY <1>1 DEF TypeOK, BeginClearing
<1>3. ListedCanBeDeleted'
    BY <1>1 DEF TypeOK, BeginClearing, ListedCanBeDeleted, GetSecret, Key
<1>4. ListedAreFolded'
    BY <1>1 DEF TypeOK, BeginClearing, ListedAreFolded
<1>5. OneIsClearing' /\ ListedAreClearing'
    BY DEF TypeOK, BeginClearing, OneIsClearing, ListedAreClearing
<1>6. KeysTellOwners' /\ ResolvedToItsOwn'
    BY DEF BeginClearing, KeysTellOwners, ResolvedToItsOwn, Key
<1> QED
    BY <1>2, <1>3, <1>4, <1>5, <1>6

\* Deleting one of them.
LEMMA ClearNextOK ==
    ASSUME IInv, NEW c \in Callers, ClearNext(c)
    PROVE IInv'
<1> USE DEF IInv
<1> PICK p \in names[c] :
        /\ DeleteSecret(acts[c], p)
        /\ names' = [names EXCEPT ![c] = @ \ {p}]
    BY DEF ClearNext
<1>1. p \in Paths /\ acts[c] \in Workspaces /\ Key(acts[c], p) \in Keys
    BY DEF TypeOK, Keys
<1>2. TypeOK'
    BY <1>1 DEF TypeOK, ClearNext, DeleteSecret
<1>3. KeysTellOwners'
    <2> SUFFICES ASSUME NEW v \in Workspaces, NEW q \in Paths
                 PROVE environ'[Key(v, q)] \in {v, None}
        BY DEF KeysTellOwners, Key
    <2>1. Key(v, q) \in Keys
        BY DEF Keys
    <2> QED
        BY <1>1, <2>1 DEF TypeOK, DeleteSecret, KeysTellOwners
<1>4. ListedCanBeDeleted'
    <2> SUFFICES ASSUME NEW d \in Callers, NEW q \in names'[d]
                 PROVE environ'[Key(acts[d], q)] # None
        BY DEF ListedCanBeDeleted, GetSecret, ClearNext, Key
    <2>1. d = c /\ q \in names[c] /\ q # p
        BY DEF TypeOK, ClearNext, OneIsClearing, ListedAreClearing
    <2>2. Upper[q] # Upper[p] /\ q \in Paths
        BY <2>1 DEF TypeOK, ListedAreFolded
    <2>3. Key(acts[c], q) # Key(acts[c], p) /\ Key(acts[c], q) \in Keys
        BY <1>1, <2>2 DEF Key, Keys
    <2>4. environ[Key(acts[c], q)] # None
        BY <2>1 DEF ListedCanBeDeleted, GetSecret
    <2> QED
        BY <1>1, <2>1, <2>3, <2>4 DEF TypeOK, DeleteSecret
<1>5. ListedAreClearing' /\ ListedAreFolded'
    BY DEF TypeOK, ClearNext, ListedAreClearing, ListedAreFolded
<1>6. ResolvedToItsOwn' /\ OneIsClearing'
    BY DEF ClearNext, ResolvedToItsOwn, OneIsClearing
<1> QED
    BY <1>2, <1>3, <1>4, <1>5, <1>6

\* And coming to the end.
LEMMA EndClearingOK ==
    ASSUME IInv, NEW c \in Callers, EndClearing(c)
    PROVE IInv'
BY DEF IInv, EndClearing, TypeOK, KeysTellOwners, ResolvedToItsOwn, ListedCanBeDeleted,
    GetSecret, Key, OneIsClearing, ListedAreClearing, ListedAreFolded

\* Every step keeps the invariant.
LEMMA StepOK == IInv /\ [Next]_vars => IInv'
<1> SUFFICES ASSUME IInv, [Next]_vars PROVE IInv'
    OBVIOUS
<1>1. CASE UNCHANGED vars
    BY <1>1 DEF vars, callers, IInv, TypeOK, KeysTellOwners, ResolvedToItsOwn,
        ListedCanBeDeleted, GetSecret, Key, OneIsClearing, ListedAreClearing, ListedAreFolded
<1>2. CASE Next
    BY <1>2, SetSecretOK, ResolveOK, BeginClearingOK, ClearNextOK, EndClearingOK DEF Next
<1> QED
    BY <1>1, <1>2

\* The invariant holds in every reachable state.
THEOREM Inductive == Spec => []IInv
<1> QED
    BY InitOK, StepOK, PTL DEF Spec

\* The environment starts as a box each, and every step is one of the boxes or none:
\* clearing deletes one secret at a time, and a reader changes nothing.
LEMMA BoxInit == Init => Box!Init
<1> SUFFICES ASSUME Init PROVE Box!Init
    OBVIOUS
<1>1. TypeOK
    BY InitOK DEF IInv
<1>2. ASSUME NEW w \in Workspaces, NEW u \in Folded
      PROVE environ[<<Upper[w], u>>] \in Workspaces \cup {None}
    BY <1>1 DEF TypeOK, Keys, Key, Folded
<1> QED
    BY <1>2 DEF Box!Init, boxes

\* Writing a variable is writing one secret of one box.
LEMMA OneBoxIsWritten ==
    ASSUME TypeOK, NEW w \in Workspaces, NEW p \in Paths, NEW v,
           environ' = [environ EXCEPT ![Key(w, p)] = v]
    PROVE boxes' = [boxes EXCEPT ![<<w, Upper[p]>>] = v]
<1>1. ASSUME NEW x \in Workspaces, NEW u \in Folded
      PROVE /\ <<Upper[x], u>> \in Keys
            /\ <<Upper[x], u>> = Key(w, p) <=> <<x, u>> = <<w, Upper[p]>>
    BY IdsDiffer DEF Keys, Key, Folded
<1> DEFINE written(wp) == IF wp = <<w, Upper[p]>> THEN v ELSE boxes[wp]
<1>2. ASSUME NEW wp \in Workspaces \X Folded
      PROVE environ'[<<Upper[wp[1]], wp[2]>>] = written(wp)
    <2>1. PICK x \in Workspaces, u \in Folded : wp = <<x, u>>
        OBVIOUS
    <2>2. environ'[<<Upper[x], u>>] =
            IF <<Upper[x], u>> = Key(w, p) THEN v ELSE environ[<<Upper[x], u>>]
        BY <1>1 DEF TypeOK
    <2> QED
        BY <1>1, <2>1, <2>2 DEF boxes
<1>3. boxes' = [wp \in Workspaces \X Folded |-> written(wp)]
    BY <1>2 DEF boxes
<1>4. [boxes EXCEPT ![<<w, Upper[p]>>] = v] = [wp \in Workspaces \X Folded |-> written(wp)]
    BY DEF boxes
<1> QED
    BY <1>3, <1>4

LEMMA BoxStep == IInv /\ [Next]_vars => [Box!Next]_boxes
<1> SUFFICES ASSUME IInv, [Next]_vars PROVE [Box!Next]_boxes
    OBVIOUS
<1>1. ASSUME NEW p \in Paths PROVE Upper[p] \in Folded
    BY DEF Folded
<1>2. ASSUME UNCHANGED environ PROVE UNCHANGED boxes
    BY <1>2 DEF boxes
<1>3. ASSUME NEW w \in Workspaces, NEW p \in Paths, SetSecret(w, p)
      PROVE Box!Next
    <2>1. Box!SetSecret(w, Upper[p], w)
        BY <1>3, OneBoxIsWritten DEF IInv, SetSecret, Box!SetSecret
    <2> QED
        BY <1>1, <2>1 DEF Box!Next
<1>4. ASSUME NEW c \in Callers, ClearNext(c)
      PROVE Box!Next
    <2>1. PICK p \in names[c] : DeleteSecret(acts[c], p)
        BY <1>4 DEF ClearNext
    <2>2. acts[c] \in Workspaces /\ p \in Paths
        BY DEF IInv, TypeOK
    <2>3. boxes[<<acts[c], Upper[p]>>] # None
        BY <1>1, <2>1, <2>2 DEF boxes, DeleteSecret, Key
    <2>4. Box!DeleteSecret(acts[c], Upper[p])
        BY <2>1, <2>2, <2>3, OneBoxIsWritten DEF IInv, DeleteSecret, Box!DeleteSecret
    <2> QED
        BY <1>1, <2>2, <2>4 DEF Box!Next
<1> QED
    BY <1>2, <1>3, <1>4 DEF Next, vars, Resolve, Replace, BeginClearing, EndClearing

\* The vault of the environment does what VaultAPI promises.
THEOREM IsABox == Spec => IsABoxEach
<1> QED
    BY Inductive, BoxInit, BoxStep, PTL DEF Spec, IsABoxEach, Box!Spec

\* The variables have their types.
THEOREM TypeCorrect == Spec => []TypeOK
<1>1. IInv => TypeOK
    BY DEF IInv
<1> QED
    BY <1>1, Inductive, PTL

\* No configuration is given a secret of another workspace (EnvVarVault.get_secret,
\* WorkspaceVaultSecretResolver).
THEOREM SecretsStayAtHome == Spec => []ResolvedToItsOwn
<1>1. IInv => ResolvedToItsOwn
    BY DEF IInv
<1> QED
    BY <1>1, Inductive, PTL

\* Whatever a deletion has listed it can delete (wipe_workspace).
THEOREM ClearingDoesNotFail == Spec => []ListedCanBeDeleted
<1>1. IInv => ListedCanBeDeleted
    BY DEF IInv
<1> QED
    BY <1>1, Inductive, PTL

-----------------------------------------------------------------------------
\* In the cluster a secret has the label of the workspace whose value it holds.
LabelsTellOwners == \A s \in cluster : s.label = ClusterLower[s.of]

ClusterInv == Cluster!TypeOK /\ Cluster!GivenItsOwn /\ LabelsTellOwners

\* The cluster starts empty, with requests that have begun nothing.
LEMMA ClusterInitOK == Cluster!Init => ClusterInv
BY DEF Cluster!Init, ClusterInv, Cluster!TypeOK, Cluster!GivenItsOwn, LabelsTellOwners

\* What a request ends with.
LEMMA EndOK ==
    ASSUME Cluster!TypeOK, NEW c \in ClusterCallers, NEW outcome \in {"done", "failed"},
           Cluster!End(c, outcome)
    PROVE /\ stage' \in [ClusterCallers -> {"idle", "clearing", "done", "failed"}]
          /\ UNCHANGED <<asks, listed>>
BY DEF Cluster!TypeOK, Cluster!End

\* A request that fails changes nothing.
LEMMA FailOK ==
    ASSUME ClusterInv, NEW c \in ClusterCallers, Cluster!Fail(c)
    PROVE ClusterInv'
BY EndOK DEF ClusterInv, Cluster!Fail, Cluster!TypeOK, Cluster!GivenItsOwn, LabelsTellOwners

\* Reading: a secret with the label of a workspace is its own.
LEMMA GetFromClusterOK ==
    ASSUME ClusterInv, NEW c \in ClusterCallers, Cluster!GetSecret(c)
    PROVE ClusterInv'
<1> DEFINE w == asks[c].workspace
<1>1. w \in ClusterIds
    BY DEF ClusterInv, Cluster!TypeOK, Cluster!Request
<1>2. ASSUME NEW s \in Cluster!Called(w, asks[c].path), Cluster!Labelled(s, w),
             Cluster!End(c, "done"), got' = [got EXCEPT ![c] = s.of], UNCHANGED cluster
      PROVE ClusterInv'
    <2>1. s \in cluster /\ s.of \in ClusterIds
        BY DEF ClusterInv, Cluster!TypeOK, Cluster!Called, Cluster!Secret
    <2>2. s.of = w
        BY <1>1, <1>2, <2>1, LabelsDiffer DEF ClusterInv, LabelsTellOwners, Cluster!Labelled
    <2>3. Cluster!TypeOK'
        BY <1>2, <2>1, EndOK DEF ClusterInv, Cluster!TypeOK
    <2>4. Cluster!GivenItsOwn'
        BY <1>2, <2>2, EndOK DEF ClusterInv, Cluster!TypeOK, Cluster!GivenItsOwn
    <2> QED
        BY <1>2, <2>3, <2>4 DEF ClusterInv, LabelsTellOwners
<1> QED
    BY <1>2, FailOK DEF Cluster!GetSecret

\* Setting: a new name is no other secret's.
LEMMA SetInClusterOK ==
    ASSUME ClusterInv, NEW c \in ClusterCallers, Cluster!SetSecret(c)
    PROVE ClusterInv'
<1> DEFINE w == asks[c].workspace
           p == asks[c].path
           new == [namespace |-> Cluster!Namespace(w), name |-> Cluster!Name(w, p),
                   label |-> ClusterLower[w], of |-> w]
<1>1. w \in ClusterIds /\ p \in ClusterPaths
    BY DEF ClusterInv, Cluster!TypeOK, Cluster!Request
<1>2. CASE /\ Cluster!Called(w, p) = {}
           /\ Cluster!End(c, "done")
           /\ cluster' = cluster \cup {new}
           /\ UNCHANGED got
    <2>1. new \in Cluster!Secret
        BY <1>1 DEF Cluster!Secret, Cluster!Namespace
    <2>2. \A s \in cluster : ~(s.namespace = new.namespace /\ s.name = new.name)
        BY <1>2 DEF Cluster!Called
    <2>3. Cluster!TypeOK'
        BY <1>2, <2>1, <2>2, EndOK DEF ClusterInv, Cluster!TypeOK
    <2> QED
        BY <1>2, <2>3, EndOK DEF ClusterInv, Cluster!GivenItsOwn, LabelsTellOwners
<1> QED
    BY <1>2, FailOK DEF Cluster!SetSecret

\* Deleting.
LEMMA DeleteFromClusterOK ==
    ASSUME ClusterInv, NEW c \in ClusterCallers, Cluster!DeleteSecret(c)
    PROVE ClusterInv'
BY FailOK, EndOK DEF ClusterInv, Cluster!DeleteSecret, Cluster!TypeOK, Cluster!GivenItsOwn,
    LabelsTellOwners

\* Listing, and the deletion that comes to nothing.
LEMMA ClearClusterOK ==
    ASSUME ClusterInv, NEW c \in ClusterCallers, Cluster!ListSecrets(c) \/ Cluster!ClearNext(c)
    PROVE ClusterInv'
<1>1. CASE Cluster!ListSecrets(c)
    <2> DEFINE found == {s.name : s \in {t \in cluster :
                            /\ t.namespace = Cluster!Namespace(asks[c].workspace)
                            /\ Cluster!Labelled(t, asks[c].workspace)}}
    <2>1. found \subseteq {s.name : s \in Cluster!Secret}
        BY DEF ClusterInv, Cluster!TypeOK
    <2>2. listed' = [listed EXCEPT ![c] = found]
        BY <1>1 DEF Cluster!ListSecrets
    <2> HIDE DEF found
    <2> QED
        BY <1>1, <2>1, <2>2 DEF ClusterInv, Cluster!ListSecrets, Cluster!TypeOK,
            Cluster!GivenItsOwn, LabelsTellOwners
<1>2. CASE Cluster!ClearNext(c)
    BY <1>2 DEF ClusterInv, Cluster!ClearNext, Cluster!TypeOK, Cluster!GivenItsOwn, LabelsTellOwners
<1> QED
    BY <1>1, <1>2

\* Whichever vault was chosen: the other one rests.
LEMMA ClusterStepOK ==
    ClusterInv /\ [VaultNext]_<<protocol, vars, clusterVars>> => ClusterInv'
<1> SUFFICES ASSUME ClusterInv, [VaultNext]_<<protocol, vars, clusterVars>> PROVE ClusterInv'
    OBVIOUS
<1>1. CASE UNCHANGED clusterVars
    BY <1>1 DEF clusterVars, ClusterInv, Cluster!TypeOK, Cluster!GivenItsOwn, LabelsTellOwners
<1>2. CASE Cluster!Next
    BY <1>2, GetFromClusterOK, SetInClusterOK, DeleteFromClusterOK, ClearClusterOK DEF Cluster!Next
<1> QED
    BY <1>1, <1>2 DEF VaultNext

\* In the cluster a name in a namespace is one secret, and no workspace is given
\* another's, even where their ids give one name (KubernetesVaultImpl.get_secret).
THEOREM ClusterSecretsStayAtHome == VaultSpec => []ClusterIsConsistent
<1>1. VaultInit => ClusterInv
    BY ClusterInitOK DEF VaultInit
<1>2. ClusterInv => ClusterIsConsistent
    BY DEF ClusterInv, ClusterIsConsistent
<1> QED
    BY <1>1, <1>2, ClusterStepOK, PTL DEF VaultSpec

\* A server keeps what is proved of the environment, whichever vault it has chosen.
THEOREM ServersHaveTheEnvironment == VaultSpec => Spec
<1>1. VaultInit => Init
    BY DEF VaultInit
<1>2. [VaultNext]_<<protocol, vars, clusterVars>> => [Next]_vars
    BY DEF VaultNext
<1> QED
    BY <1>1, <1>2, PTL DEF VaultSpec, Spec

-----------------------------------------------------------------------------
(***************************************************************************)
(* The pool of connections.                                                *)
(***************************************************************************)

\* Whoever waits for a connection has fewer than it may have.
PoolInv ==
    /\ Pool!TypeOK
    /\ \A u \in Pool!Users : want[u] = "want" => held[u] < Pool!Depth(u)

\* What the pool counts with is what the theorems on finite sets are about.
LEMMA PoolCounts ==
    \A S : /\ Pool!IsFiniteSet(S) <=> IsFiniteSet(S)
           /\ Pool!Cardinality(S) = Cardinality(S)
BY DEF Pool!IsFiniteSet, IsFiniteSet, Pool!Cardinality, Cardinality

\* Users of one kind have as many connections as their kind needs.
LEMMA DepthIs ==
    ASSUME NEW u \in Pool!Users
    PROVE /\ u \in Listeners => Pool!Depth(u) = 3
          /\ u \in Streams => Pool!Depth(u) = IF Pool!InTool(u) THEN 2 ELSE 1
          /\ u \in Routes => Pool!Depth(u) = 1
          /\ Pool!Depth(u) \in {1, 2, 3}
BY ListenersFit DEF Pool!ListenersHaveRoom, Pool!Users, Pool!Coroutines, Pool!Depth, Pool!InTool

\* The connections handed out where each user has as many as h says.
Connections(h) == UNION {{u} \X (1..h[u]) : u \in Pool!Users}

\* They are finite, and each user has the first ones of its own.
LEMMA ConnectionsAre ==
    ASSUME NEW h \in [Pool!Users -> Nat], \A u \in Pool!Users : h[u] <= 3
    PROVE /\ IsFiniteSet(Connections(h))
          /\ Cardinality(Connections(h)) \in Nat
          /\ \A x : x \in Connections(h) <=>
                \E u \in Pool!Users : \E n \in 1..h[u] : x = <<u, n>>
<1>1. \A x : x \in Connections(h) <=> \E u \in Pool!Users : \E n \in 1..h[u] : x = <<u, n>>
    BY DEF Connections
<1>2. Connections(h) \in SUBSET (Pool!Users \X (1..3))
    <2>1. ASSUME NEW u \in Pool!Users, NEW n \in 1..h[u] PROVE n \in 1..3
        OBVIOUS
    <2> QED
        BY <1>1, <2>1
<1>3. IsFiniteSet(Pool!Users \X (1..3))
    <2>1. 1 \in Int /\ 3 \in Int
        OBVIOUS
    <2>2. IsFiniteSet(1..3)
        BY <2>1, FS_Interval
    <2>3. IsFiniteSet(Pool!Users)
        BY ListenersFit, PoolCounts DEF Pool!ListenersHaveRoom
    <2> QED
        BY <2>2, <2>3, FS_Product
<1>4. IsFiniteSet(Connections(h))
    BY <1>2, <1>3, FS_Subset
<1> QED
    BY <1>1, <1>4, FS_CardinalityType

\* A number n of connections for each listener.
LEMMA ListenersTimes ==
    ASSUME NEW n \in Nat
    PROVE /\ IsFiniteSet(Listeners \X (1..n))
          /\ Cardinality(Listeners) \in Nat
          /\ Cardinality(Listeners \X (1..n)) = Cardinality(Listeners) * n
<1>1. IsFiniteSet(Listeners)
    <2>1. IsFiniteSet(Pool!Users) /\ Listeners \in SUBSET Pool!Users
        BY ListenersFit, PoolCounts DEF Pool!ListenersHaveRoom, Pool!Users, Pool!Coroutines
    <2> QED
        BY <2>1, FS_Subset
<1>2. 1 \in Int /\ n \in Int
    OBVIOUS
<1>3. IsFiniteSet(1..n) /\ Cardinality(1..n) = n
    BY <1>2, FS_Interval
<1> QED
    BY <1>1, <1>3, FS_Product, FS_CardinalityType

\* What is free is what is not handed out.
LEMMA FreeIs ==
    PoolSize \in Nat \ {0} /\ Pool!Free = PoolSize - Cardinality(Connections(held))
BY ListenersFit, PoolCounts DEF Pool!ListenersHaveRoom, Pool!Free, Pool!HandedOut, Connections

\* Everybody is idle, and nothing is handed out.
LEMMA PoolInitOK == Pool!Init => PoolInv
<1> SUFFICES ASSUME Pool!Init PROVE PoolInv
    OBVIOUS
<1>1. held \in [Pool!Users -> Nat] /\ \A u \in Pool!Users : held[u] = 0 /\ want[u] = "idle"
    BY DEF Pool!Init
<1>2. Connections(held) = {}
    BY <1>1, ConnectionsAre
<1>3. Pool!Free >= 0
    BY <1>2, FS_EmptySet, FreeIs
<1>4. \A u \in Pool!Users : held[u] <= Pool!Depth(u) /\ held[u] < Pool!Depth(u)
    BY <1>1, DepthIs
<1> QED
    BY <1>1, <1>3, <1>4 DEF PoolInv, Pool!TypeOK, Pool!Init

\* A step of one user leaves the pool in order if the user does not have more than
\* it had, or if it takes one where one was free, and if it moves between the event
\* loop and a thread only with nothing.
LEMMA PoolGoes ==
    ASSUME PoolInv,
           NEW u \in Pool!Users, NEW where \in {"idle", "want", "run", "ready"},
           NEW n \in Nat, Pool!Goes(u, where, n),
           at' \in [Pool!Coroutines -> {"loop", "thread"}],
           \A s \in Pool!Coroutines : s # u => at'[s] = at[s],
           at' = at \/ (n = 0 /\ where # "ready"),
           where \in {"idle", "ready"} => n = 0,
           where = "ready" => u \in Pool!Coroutines /\ at[u] = "thread",
           where = "want" => n < Pool!Depth(u),
           where = "want" => at' = at,
           n <= Pool!Depth(u),
           n <= held[u] \/ (n = held[u] + 1 /\ Pool!Free > 0)
    PROVE PoolInv'
<1>1. \A v \in Pool!Users : Pool!Depth(v) \in {1, 2, 3}
    BY DepthIs
<1>2. /\ held \in [Pool!Users -> Nat]
      /\ \A v \in Pool!Users : held[v] <= Pool!Depth(v)
    BY DEF PoolInv, Pool!TypeOK
<1> DEFINE h == [held EXCEPT ![u] = n]
<1>3. held' = h /\ h \in [Pool!Users -> Nat] /\ \A v \in Pool!Users : h[v] <= Pool!Depth(v)
    BY <1>2 DEF Pool!Goes
<1>4. /\ h[u] = n
      /\ \A v \in Pool!Users : v # u => h[v] = held[v]
    BY <1>2
<1> HIDE DEF h
<1>5. \A v \in Pool!Users : held[v] <= 3 /\ h[v] <= 3
    BY <1>1, <1>2, <1>3
<1>6. /\ IsFiniteSet(Connections(held)) /\ Cardinality(Connections(held)) \in Nat
      /\ IsFiniteSet(Connections(h)) /\ Cardinality(Connections(h)) \in Nat
    BY <1>2, <1>3, <1>5, ConnectionsAre
<1>7. \A v \in Pool!Users, m \in Nat :
          /\ <<v, m>> \in Connections(held) <=> m \in 1..held[v]
          /\ <<v, m>> \in Connections(h) <=> m \in 1..h[v]
    BY <1>2, <1>3, <1>5, ConnectionsAre
<1>8. /\ Connections(held) \subseteq Pool!Users \X Nat
      /\ Connections(h) \subseteq Pool!Users \X Nat
    BY <1>2, <1>3, <1>5, ConnectionsAre
<1>9. PoolSize - Cardinality(Connections(h)) >= 0
    <2>1. PoolSize - Cardinality(Connections(held)) >= 0
        BY FreeIs DEF PoolInv, Pool!TypeOK
    <2>2. CASE n <= held[u]
        <3>1. Connections(h) \subseteq Connections(held)
            BY <2>2, <1>2, <1>3, <1>4, <1>7, <1>8
        <3> QED
            BY <3>1, <2>1, <1>6, FS_Subset, FreeIs
    <2>3. CASE n = held[u] + 1 /\ Pool!Free > 0
        <3>1. Connections(h) = Connections(held) \cup {<<u, n>>}
            <4>1. \A v \in Pool!Users, m \in Nat :
                      m \in 1..h[v] <=> m \in 1..held[v] \/ <<v, m>> = <<u, n>>
                BY <2>3, <1>2, <1>3, <1>4
            <4> QED
                BY <4>1, <1>7, <1>8
        <3>2. Cardinality(Connections(held) \cup {<<u, n>>}) <= Cardinality(Connections(held)) + 1
            <4>1. <<u, n>> \notin Connections(held)
                BY <2>3, <1>2, <1>7
            <4>2. Cardinality(Connections(held) \cup {<<u, n>>}) =
                      IF <<u, n>> \in Connections(held) THEN Cardinality(Connections(held))
                                                         ELSE Cardinality(Connections(held)) + 1
                BY <1>6, FS_AddElement, Zenon
            <4> QED
                BY <4>1, <4>2, <1>6
        <3> QED
            BY <2>3, <3>1, <3>2, <1>6, FreeIs
    <2> QED
        BY <2>2, <2>3
<1>10. Pool!Free' >= 0
    BY <1>3, <1>9, PoolCounts DEF Pool!Free, Pool!HandedOut, Connections
<1>11. \A v \in Pool!Users : v # u => Pool!Depth(v)' = Pool!Depth(v) /\ Pool!InThread(v)' = Pool!InThread(v)
    BY DEF Pool!Depth, Pool!InTool, Pool!InThread, Pool!Coroutines
<1>12. /\ Pool!Depth(u)' \in {1, 2, 3}
       /\ at' = at => Pool!Depth(u)' = Pool!Depth(u) /\ Pool!InThread(u)' = Pool!InThread(u)
    BY DEF Pool!Depth, Pool!InTool, Pool!InThread
<1>13. \A v \in Pool!Users : held'[v] <= Pool!Depth(v)'
    <2>1. CASE at' = at
        BY <2>1, <1>2, <1>3, <1>4, <1>11, <1>12
    <2>2. CASE n = 0
        BY <2>2, <1>2, <1>3, <1>4, <1>11, <1>12
    <2> QED
        BY <2>1, <2>2
<1>14. /\ want' \in [Pool!Users -> {"idle", "want", "run", "ready"}]
       /\ want'[u] = where
       /\ \A v \in Pool!Users : v # u => want'[v] = want[v]
    BY DEF Pool!Goes, PoolInv, Pool!TypeOK
<1>15. \A v \in Pool!Users : want'[v] \in {"idle", "ready"} => held'[v] = 0
    BY <1>3, <1>4, <1>14 DEF PoolInv, Pool!TypeOK
<1>16. \A v \in Pool!Users : want'[v] = "ready" => Pool!InThread(v)'
    <2>1. where = "ready" => Pool!InThread(u)
        BY DEF Pool!InThread
    <2> QED
        BY <2>1, <1>11, <1>12, <1>14 DEF PoolInv, Pool!TypeOK
<1>17. \A v \in Pool!Users : want'[v] = "want" => held'[v] < Pool!Depth(v)'
    BY <1>3, <1>4, <1>11, <1>12, <1>14 DEF PoolInv
<1> QED
    BY <1>3, <1>10, <1>13, <1>14, <1>15, <1>16, <1>17 DEF PoolInv, Pool!TypeOK

\* Every step of the pool's users.
LEMMA PoolStepOK ==
    PoolInv /\ [Pool!Next]_(Pool!vars) => PoolInv'
<1> SUFFICES ASSUME PoolInv, [Pool!Next]_(Pool!vars) PROVE PoolInv'
    OBVIOUS
<1>1. CASE UNCHANGED Pool!vars
    BY <1>1 DEF Pool!vars, PoolInv, Pool!TypeOK, Pool!Free, Pool!HandedOut, Pool!Depth, Pool!InTool, Pool!InThread
<1>2. ASSUME NEW u \in Pool!Users,
             \/ Pool!Begin(u) \/ Pool!Open(u) \/ Pool!Connect(u)
             \/ Pool!Close(u) \/ Pool!Finish(u) \/ Pool!TimeOut(u)
      PROVE PoolInv'
    <2>1. /\ held[u] \in Nat /\ held[u] <= Pool!Depth(u) /\ Pool!Depth(u) \in {1, 2, 3}
          /\ want[u] \in {"idle", "ready"} => held[u] = 0
          /\ want[u] = "want" => held[u] < Pool!Depth(u)
          /\ at \in [Pool!Coroutines -> {"loop", "thread"}]
        BY DepthIs DEF PoolInv, Pool!TypeOK
    <2>2. CASE Pool!Begin(u)
        BY <2>1, <2>2, PoolGoes DEF Pool!Begin
    <2>3. CASE Pool!Open(u)
        BY <2>1, <2>3, PoolGoes DEF Pool!Open
    <2>4. CASE Pool!Connect(u)
        BY <2>1, <2>4, PoolGoes DEF Pool!Connect
    <2>5. CASE Pool!Close(u)
        <3>1. held[u] - 1 \in Nat /\ Pool!Goes(u, "run", held[u] - 1) /\ at' = at
            BY <2>1, <2>5 DEF Pool!Close
        <3> QED
            BY <2>1, <3>1, PoolGoes
    <2>6. CASE Pool!Finish(u)
        BY <2>1, <2>6, PoolGoes DEF Pool!Finish
    <2>7. CASE Pool!TimeOut(u)
        <3>1. CASE Pool!Goes(u, "idle", 0)
            BY <2>1, <2>7, <3>1, PoolGoes DEF Pool!TimeOut
        <3>2. CASE Pool!InThread(u) /\ Pool!Goes(u, "ready", 0)
            BY <2>1, <2>7, <3>2, PoolGoes DEF Pool!TimeOut, Pool!InThread
        <3>3. CASE held[u] > 0 /\ Pool!Goes(u, "run", held[u] - 1)
            <4>1. held[u] - 1 \in Nat /\ at' = at
                BY <2>1, <2>7, <3>3 DEF Pool!TimeOut
            <4> QED
                BY <2>1, <3>3, <4>1, PoolGoes
        <3> QED
            BY <2>7, <3>1, <3>2, <3>3 DEF Pool!TimeOut
    <2> QED
        BY <1>2, <2>2, <2>3, <2>4, <2>5, <2>6, <2>7
<1>3. ASSUME NEW s \in Pool!Coroutines, Pool!CallThread(s) \/ Pool!EndThread(s) \/ Pool!Return(s)
      PROVE PoolInv'
    <2>1. /\ s \in Pool!Users
          /\ held \in [Pool!Users -> Nat]
          /\ want \in [Pool!Users -> {"idle", "want", "run", "ready"}]
          /\ at \in [Pool!Coroutines -> {"loop", "thread"}]
          /\ held[s] <= Pool!Depth(s) /\ Pool!Depth(s) \in {1, 2, 3}
        BY DepthIs DEF Pool!Users, Pool!Coroutines, PoolInv, Pool!TypeOK
    <2>2. CASE Pool!CallThread(s)
        <3>1. want[s] = "run" /\ held[s] = 0
            BY <2>2 DEF Pool!CallThread, Pool!Runs
        <3>2. Pool!Goes(s, "run", 0)
            BY <2>1, <2>2, <3>1 DEF Pool!CallThread, Pool!Goes
        <3> QED
            BY <2>1, <2>2, <3>2, PoolGoes DEF Pool!CallThread
    <2>3. CASE Pool!EndThread(s)
        <3>1. at' = at /\ Pool!InThread(s) /\ Pool!Goes(s, "ready", 0)
            BY <2>3 DEF Pool!EndThread
        <3>2. 0 \in Nat /\ 0 <= held[s] /\ 0 <= Pool!Depth(s)
            BY <2>1
        <3>3. at[s] = "thread"
            BY <3>1 DEF Pool!InThread
        <3> QED
            BY <2>1, <3>1, <3>2, <3>3, PoolGoes
    <2>4. CASE Pool!Return(s)
        BY <2>1, <2>4, PoolGoes DEF Pool!Return
    <2> QED
        BY <1>3, <2>2, <2>3, <2>4
<1> QED
    BY <1>1, <1>2, <1>3 DEF Pool!Next

\* Where only listeners have connections, n each at most, that is the product.
LEMMA ListenersAlone ==
    ASSUME PoolInv, NEW n \in 0..3,
           \A u \in Pool!Users : held[u] > 0 => u \in Listeners /\ held[u] <= n
    PROVE /\ Connections(held) \subseteq Listeners \X (1..n)
          /\ Cardinality(Connections(held)) \in Nat
          /\ Cardinality(Connections(held)) <= n * Cardinality(Listeners)
          /\ Cardinality(Connections(held)) = n * Cardinality(Listeners) =>
                Connections(held) = Listeners \X (1..n)
<1>1. held \in [Pool!Users -> Nat] /\ \A u \in Pool!Users : held[u] <= 3
    BY DepthIs DEF PoolInv, Pool!TypeOK
<1>2. ASSUME NEW u \in Pool!Users, NEW m \in 1..held[u]
      PROVE <<u, m>> \in Listeners \X (1..n)
    BY <1>1
<1>3. Connections(held) \subseteq Listeners \X (1..n)
    BY <1>1, <1>2, ConnectionsAre
<1>4. /\ IsFiniteSet(Listeners \X (1..n))
      /\ Cardinality(Listeners) \in Nat
      /\ Cardinality(Listeners \X (1..n)) = n * Cardinality(Listeners)
    <2>1. n \in Nat
        OBVIOUS
    <2>2. /\ IsFiniteSet(Listeners \X (1..n))
          /\ Cardinality(Listeners) \in Nat
          /\ Cardinality(Listeners \X (1..n)) = Cardinality(Listeners) * n
        BY <2>1, ListenersTimes
    <2> QED
        BY <2>1, <2>2
<1>5. Cardinality(Connections(held)) \in Nat
    BY <1>1, ConnectionsAre
<1> QED
    BY <1>3, <1>4, <1>5, FS_Subset

\* A listener that waits has not its third connection, so that listeners alone
\* leave one.
LEMMA SlackAlone ==
    PoolInv => Pool!SlackAloneNeverWaits
<1> SUFFICES ASSUME PoolInv,
                    \A u \in Pool!Users \ Listeners : held[u] = 0,
                    NEW l \in Listeners, want[l] = "want"
             PROVE Pool!Free > 0
    BY DEF Pool!SlackAloneNeverWaits
<1>1. l \in Pool!Users /\ held[l] < 3
    BY DepthIs DEF PoolInv, Pool!Users, Pool!Coroutines
<1>2. held \in [Pool!Users -> Nat] /\ \A u \in Pool!Users : held[u] <= 3
    BY DepthIs DEF PoolInv, Pool!TypeOK
<1>3. \A u \in Pool!Users : held[u] > 0 => u \in Listeners /\ held[u] <= 3
    BY <1>2
<1>4. <<l, 3>> \in Listeners \X (1..3) /\ <<l, 3>> \notin Connections(held)
    BY <1>1, <1>2, ConnectionsAre
<1>5. /\ Cardinality(Connections(held)) \in Nat
      /\ Cardinality(Connections(held)) <= 3 * Cardinality(Listeners)
      /\ Cardinality(Connections(held)) # 3 * Cardinality(Listeners)
    <2>1. 3 \in 0..3
        OBVIOUS
    <2> QED
        BY <2>1, <1>3, <1>4, ListenersAlone
<1>6. /\ 3 * Cardinality(Listeners) <= PoolSize
      /\ Cardinality(Listeners) \in Nat
    <2>1. 3 \in Nat
        OBVIOUS
    <2> QED
        BY <2>1, ListenersFit, PoolCounts, ListenersTimes DEF Pool!ListenersHaveRoom
<1> QED
    BY <1>5, <1>6, FreeIs

\* Where everybody who has a connection waits, a listener has two at most, a tool of
\* the portal has one, and nobody else has any.
LEMMA KnotIsOfTools ==
    PoolInv => Pool!KnotTakesTools
<1> DEFINE tools == {s \in Streams : Pool!InTool(s) /\ held[s] > 0}
<1> SUFFICES ASSUME PoolInv, Pool!Knot
             PROVE Cardinality(tools) >= PoolSize - 2 * Cardinality(Listeners)
    BY PoolCounts DEF Pool!KnotTakesTools
<1>1. held \in [Pool!Users -> Nat] /\ \A u \in Pool!Users : held[u] <= 3
    BY DepthIs DEF PoolInv, Pool!TypeOK
<1>2. ASSUME NEW u \in Pool!Users, NEW m \in 1..held[u]
      PROVE <<u, m>> \in (Listeners \X (1..2)) \cup (tools \X {1})
    <2>1. held[u] > 0
        BY <1>1
    <2>2. held[u] < Pool!Depth(u)
        BY <2>1 DEF Pool!Knot, PoolInv
    <2>3. CASE u \in Listeners
        BY <1>1, <2>2, <2>3, DepthIs
    <2>4. CASE u \in Streams
        <3>1. Pool!InTool(u) /\ held[u] = 1
            BY <1>1, <2>1, <2>2, <2>4, DepthIs
        <3> QED
            BY <2>4, <3>1
    <2>5. CASE u \in Routes
        BY <1>1, <2>1, <2>2, <2>5, DepthIs
    <2> QED
        BY <2>3, <2>4, <2>5 DEF Pool!Users, Pool!Coroutines
<1> HIDE DEF tools
<1>3. Connections(held) \subseteq (Listeners \X (1..2)) \cup (tools \X {1})
    BY <1>1, <1>2, ConnectionsAre
<1>4. /\ IsFiniteSet(Listeners \X (1..2))
      /\ Cardinality(Listeners) \in Nat
      /\ Cardinality(Listeners \X (1..2)) = Cardinality(Listeners) * 2
    <2>1. 2 \in Nat
        OBVIOUS
    <2> QED
        BY <2>1, ListenersTimes
<1>5. /\ IsFiniteSet(tools) /\ Cardinality(tools) \in Nat
      /\ IsFiniteSet(tools \X {1}) /\ Cardinality(tools \X {1}) = Cardinality(tools)
    <2>1. IsFiniteSet(Pool!Users) /\ tools \in SUBSET Pool!Users
        BY ListenersFit, PoolCounts DEF Pool!ListenersHaveRoom, Pool!Users, Pool!Coroutines, tools
    <2>2. IsFiniteSet(tools) /\ Cardinality(tools) \in Nat
        BY <2>1, FS_Subset, FS_CardinalityType
    <2>3. IsFiniteSet({1}) /\ Cardinality({1}) = 1
        BY FS_Singleton
    <2>4. IsFiniteSet(tools \X {1}) /\ Cardinality(tools \X {1}) = Cardinality(tools) * Cardinality({1})
        BY <2>2, <2>3, FS_Product
    <2> QED
        BY <2>2, <2>3, <2>4
<1>6. /\ IsFiniteSet((Listeners \X (1..2)) \cup (tools \X {1}))
      /\ Cardinality((Listeners \X (1..2)) \cup (tools \X {1}))
             <= Cardinality(Listeners) * 2 + Cardinality(tools)
    <2> DEFINE A == Listeners \X (1..2)
               B == tools \X {1}
    <2>1. IsFiniteSet(A) /\ IsFiniteSet(B)
        BY <1>4, <1>5
    <2>2. /\ IsFiniteSet(A \cup B) /\ IsFiniteSet(A \cap B)
          /\ Cardinality(A \cup B) = Cardinality(A) + Cardinality(B) - Cardinality(A \cap B)
        <3> HIDE DEF A, B
        <3> QED
            BY <2>1, FS_Union, FS_Intersection
    <2>3. Cardinality(A \cap B) \in Nat
        BY <2>2, FS_CardinalityType
    <2> QED
        BY <1>4, <1>5, <2>2, <2>3
<1>7. /\ Cardinality(Connections(held)) \in Nat
      /\ Cardinality(Connections(held)) <= Cardinality(Listeners) * 2 + Cardinality(tools)
    <2>1. /\ Cardinality(Connections(held)) \in Nat
          /\ Cardinality((Listeners \X (1..2)) \cup (tools \X {1})) \in Nat
          /\ Cardinality(Connections(held)) <= Cardinality((Listeners \X (1..2)) \cup (tools \X {1}))
        BY <1>1, <1>3, <1>6, ConnectionsAre, FS_Subset, FS_CardinalityType
    <2> QED
        BY <1>4, <1>5, <1>6, <2>1
<1>8. PoolSize = Cardinality(Connections(held))
    BY <1>7, FreeIs DEF Pool!Knot
<1> QED
    BY <1>4, <1>5, <1>7, <1>8

\* The pool is large enough for Slack, and a knot takes as many tools of the portal as
\* the pool has connections beyond two a listener, whatever times out: for any number
\* of threads and turns, and any pool that has three connections for each listener
\* (SQLAlchemyTransactionContext).
THEOREM PoolHolds == PoolSpec => []PoolHoldsOut
<1>1. PoolInv => PoolHoldsOut
    BY SlackAlone, KnotIsOfTools DEF PoolInv, PoolHoldsOut, Pool!PoolHoldsOut
<1> QED
    BY <1>1, PoolInitOK, PoolStepOK, PTL DEF PoolSpec, Pool!Spec

-----------------------------------------------------------------------------
(***************************************************************************)
(* The documents: the names that applications are given.                   *)
(***************************************************************************)

\* A set of numbers that is not empty has a least one.
LEMMA LeastNumber ==
    ASSUME NEW T \in SUBSET Nat, T # {}
    PROVE \E x \in T : \A y \in T : x <= y
<1> DEFINE Segments == {0..x : x \in T}
<1>1. Segments \subseteq FiniteSubsetsOf(Nat) /\ Segments # {}
    <2>1. ASSUME NEW x \in T PROVE 0..x \in FiniteSubsetsOf(Nat)
        <3>1. x \in Int /\ 0 \in Int
            OBVIOUS
        <3>2. IsFiniteSet(0..x)
            BY <3>1, FS_Interval
        <3> QED
            BY <3>2 DEF FiniteSubsetsOf
    <2> QED
        BY <2>1
<1>2. PICK S \in Segments : \A U \in Segments : ~(<<U, S>> \in StrictSubsetOrdering(Nat))
    <2> HIDE DEF Segments
    <2> QED
        BY <1>1, FS_StrictSubsetOrderingWellFounded, WFMin
<1>3. PICK x \in T : S = 0..x
    BY <1>2
<1>4. ASSUME NEW y \in T, y < x PROVE FALSE
    <2>1. 0..y \in Segments /\ 0..y \subseteq 0..x /\ x \in 0..x /\ x \notin 0..y
        BY <1>4
    <2>2. <<0..y, 0..x>> \in StrictSubsetOrdering(Nat)
        BY <2>1 DEF StrictSubsetOrdering
    <2> QED
        BY <2>1, <2>2, <1>2, <1>3
<1> QED
    BY <1>4

\* What create_app_name keeps of the first i characters, for i up to n.
Keeps(name, n, g) ==
    g = [i \in 0..n |->
            IF i = 0 THEN <<>>
            ELSE IF name[i] = "_" THEN g[i - 1] ELSE Append(g[i - 1], name[i])]

\* There is such a function for every n: the least n without one would be had from
\* that of n - 1.
LEMMA KeptIsDefined ==
    ASSUME NEW name
    PROVE \A n \in Nat : \E g : Keeps(name, n, g)
<1> DEFINE Has(n) == \E g : Keeps(name, n, g)
<1> DEFINE T == {n \in Nat : ~Has(n)}
<1> SUFFICES ASSUME T # {} PROVE FALSE
    <2> HIDE DEF Has
    <2>1. (T = {}) => \A n \in Nat : Has(n)
        OBVIOUS
    <2> QED
        BY <2>1 DEF Has
<1>1. PICK n \in T : \A m \in T : n <= m
    <2> HIDE DEF Has
    <2>1. T \in SUBSET Nat
        OBVIOUS
    <2> HIDE DEF T
    <2> QED
        BY <2>1, LeastNumber
<1>2. n \in Nat /\ ~Has(n) /\ \A m \in Nat : m < n => Has(m)
    <2> HIDE DEF Has
    <2> QED
        BY <1>1
<1>3. n # 0
    <2> HIDE DEF T
    <2>1. Keeps(name, 0, [i \in 0..0 |-> <<>>])
        BY DEF Keeps
    <2> QED
        BY <2>1, <1>2
<1>4. n - 1 \in Nat /\ n - 1 < n
    BY <1>2, <1>3
<1>5. PICK g : Keeps(name, n - 1, g)
    BY <1>2, <1>4
<1> DEFINE Kept(i) == IF name[i] = "_" THEN g[i - 1] ELSE Append(g[i - 1], name[i])
<1> DEFINE h == [i \in 0..n |-> IF i < n THEN g[i] ELSE Kept(n)]
<1>6. ASSUME NEW i \in 0..n, i # 0 PROVE h[i] = Kept(i) /\ h[i - 1] = g[i - 1]
    <2>1. n \in Nat /\ i \in Nat /\ i - 1 \in 0..n /\ i - 1 < n
        BY <1>2, <1>6
    <2>2. h[i - 1] = g[i - 1]
        <3> HIDE DEF Kept
        <3> QED
            BY <2>1
    <2>3. CASE i = n
        <3> HIDE DEF Kept
        <3> QED
            BY <2>1, <2>2, <2>3
    <2>4. CASE i < n
        <3>1. i \in 0..(n - 1)
            BY <2>1, <2>4, <1>6
        <3>2. g[i] = Kept(i)
            BY <1>5, <1>6, <3>1 DEF Keeps
        <3> HIDE DEF Kept
        <3> QED
            BY <2>1, <2>2, <2>4, <3>2
    <2> HIDE DEF h, Kept
    <2> QED
        BY <2>1, <2>3, <2>4
<1>7. h[0] = <<>>
    <2>1. 0 \in 0..(n - 1) /\ 0 \in 0..n /\ 0 < n
        BY <1>2, <1>3
    <2>2. g[0] = <<>>
        BY <1>5, <2>1 DEF Keeps
    <2> HIDE DEF Kept
    <2> QED
        BY <2>1, <2>2
<1>8. h = [i \in 0..n |-> h[i]]
    OBVIOUS
<1>9. Keeps(name, n, h)
    <2>1. ASSUME NEW i \in 0..n, i # 0
          PROVE h[i] = IF name[i] = "_" THEN h[i - 1] ELSE Append(h[i - 1], name[i])
        BY <1>6, <2>1
    <2> HIDE DEF h
    <2> QED
        BY <1>7, <1>8, <2>1 DEF Keeps
<1> QED
    BY <1>2, <1>9

\* An application's name has the characters of Okta's, and no "_".
LEMMA NamesAreMade ==
    ASSUME NEW S, NEW name \in Seq(S)
    PROVE Content!create_app_name(name) \in Seq(S \ {"_"})
<1> DEFINE kept == CHOOSE g : Keeps(name, Len(name), g)
<1>1. Content!create_app_name(name) = kept[Len(name)]
    BY DEF Content!create_app_name, Keeps
<1>2. Len(name) \in Nat /\ \A i \in 1..Len(name) : name[i] \in S
    OBVIOUS
<1>3. Keeps(name, Len(name), kept)
    BY <1>2, KeptIsDefined
<1> HIDE DEF kept
<1> DEFINE Word(s) == s \in Seq(S \ {"_"})
<1>4. Word(<<>>)
    OBVIOUS
<1>5. ASSUME NEW s, Word(s), NEW c \in S, c # "_" PROVE Word(Append(s, c))
    <2> DEFINE R == S \ {"_"}
    <2>1. s \in Seq(R) /\ c \in R
        BY <1>5
    <2>2. Append(s, c) \in Seq(R)
        <3> HIDE DEF R
        <3> QED
            BY <2>1
    <2> QED
        BY <2>2
<1> DEFINE T == {i \in 0..Len(name) : ~Word(kept[i])}
<1>6. ASSUME T # {} PROVE FALSE
    <2> HIDE DEF Word
    <2>1. T \in SUBSET Nat
        OBVIOUS
    <2>2. PICK i \in T : \A j \in T : i <= j
        <3> HIDE DEF T
        <3> QED
            BY <1>6, <2>1, LeastNumber
    <2>3. i \in 0..Len(name) /\ ~Word(kept[i])
        OBVIOUS
    <2>4. kept[i] = IF i = 0 THEN <<>>
                    ELSE IF name[i] = "_" THEN kept[i - 1] ELSE Append(kept[i - 1], name[i])
        BY <1>3, <2>3 DEF Keeps
    <2>5. i # 0
        BY <1>4, <2>3, <2>4
    <2>6. i - 1 \in 0..Len(name) /\ i - 1 < i /\ i \in 1..Len(name)
        BY <1>2, <2>3, <2>5
    <2>7. Word(kept[i - 1])
        BY <2>2, <2>6
    <2> HIDE DEF T
    <2> QED
        BY <1>2, <1>5, <2>3, <2>4, <2>5, <2>6, <2>7
<1>7. Word(kept[Len(name)])
    <2> HIDE DEF Word
    <2> QED
        BY <1>2, <1>6
<1> QED
    BY <1>1, <1>7

-----------------------------------------------------------------------------
(***************************************************************************)
(* The documents: what every step keeps.                                   *)
(***************************************************************************)

\* At most one request keeps the event loop.
OneIsBusy ==
    \A q, r \in Requests :
        point[q] \in Content!Busy /\ point[r] \in Content!Busy => q = r

\* A request is where its kind can be, and is answered no sooner than that.
JobFits(r) ==
    /\ point[r] = "store" => job[r].kind = "put" /\ answer[r] = "none"
    /\ point[r] \in {"fetch", "replace"} => job[r].kind = "import"
    /\ point[r] = "idle" => answer[r] = "none"
JobsFit == \A r \in Requests : JobFits(r)

\* While a request makes place for its documents nothing is in their place, and
\* the applications they name are there.
Making(r) ==
    /\ point[r] = "store" => \A d \in docs : d.id # job[r].id
    /\ point[r] = "replace" =>
        /\ \A d \in docs : d.dir # job[r].dir
        /\ job[r].create_apps =>
            \A g \in Content!GroupsWithApps(r) : \A a \in assigned[g] :
                Content!create_app_name(a) \in apps
PlaceIsMade == \A r \in Requests : Making(r)

\* What is stored was stored by requests that are over.
StoredByOver == \A d \in docs : point[d.by] = "over"

\* The ids whose documents are deleted and not yet added.
InHand == {job[r].id : r \in {q \in Requests : point[q] = "store"}}

\* What is due is there, or in hand, or its id was shared by directories; and of
\* those that are shared now that is known.
DueIsThere == \A p \in due : p[2] \notin InHand \cup shared => Content!Found(p)
DueIsFound == \A p \in due : p[2] \notin shared => Content!Found(p)
SharingIsKnown == Content!SharedIds(docs) \subseteq shared

ContentInv ==
    /\ Content!TypeOK
    /\ OneIsBusy
    /\ JobsFit
    /\ PlaceIsMade
    /\ StoredByOver
    /\ DueIsThere
    /\ SharingIsKnown
    /\ Content!ImportsDoNotMix

\* The names a group's document has: those of its applications, without "_".
LEMMA GroupNames ==
    ASSUME assigned \in [Groups -> SUBSET OktaApps],
           NEW g \in Groups, NEW a \in assigned[g]
    PROVE /\ a \in OktaApps
          /\ Content!create_app_name(a) \in Seq(Content!Letters \cup {"-"})
<1>1. a \in OktaApps
    OBVIOUS
<1>2. a \in Seq(Content!Letters \cup {"_", "-"})
    BY <1>1, NamesAssumption DEF Content!NamesAreWords
<1>3. (Content!Letters \cup {"_", "-"}) \ {"_"} = Content!Letters \cup {"-"}
    BY DEF Content!Letters
<1>4. Content!create_app_name(a) \in Seq((Content!Letters \cup {"_", "-"}) \ {"_"})
    BY <1>2, NamesAreMade
<1> QED
    BY <1>1, <1>3, <1>4

\* Of the types, what concerns the requests.
RequestsOK ==
    /\ point \in [Requests -> {"idle", "fetch", "over"} \cup {"replace", "store"}]
    /\ job \in [Requests -> Content!Jobs]
    /\ fetched \in [Requests -> SUBSET Groups]
    /\ answer \in [Requests -> {"none", "200", "202", "204", "500"}]

\* And what concerns the documents, which have the types of all that is stored.
IsDoc(d) ==
    /\ d.by \in Requests /\ d.dir \in Dirs /\ d.id \in Content!Ids
    /\ d.apps \subseteq Seq(Content!Letters \cup {"-"})
StoreOK ==
    /\ \A d \in docs : IsDoc(d)
    /\ \A a \in apps : Content!IsValidName(a)
    /\ assigned \in [Groups -> SUBSET OktaApps]
    /\ due \subseteq Dirs \X Content!Ids

\* The two parts make up the types.
LEMMA TypesAreParts == Content!TypeOK <=> RequestsOK /\ StoreOK
BY DEF Content!TypeOK, RequestsOK, StoreOK, IsDoc

\* So they do after a step.
LEMMA TypesArePartsAfter == Content!TypeOK' <=> RequestsOK' /\ StoreOK'
BY DEF Content!TypeOK, RequestsOK, StoreOK, IsDoc

\* What a request is to do has the fields of its kind.
LEMMA JobFields ==
    ASSUME RequestsOK, NEW r \in Requests
    PROVE /\ job[r].kind = "put" => job[r].dir \in Dirs /\ job[r].id \in Content!Ids
          /\ job[r].kind = "import" => job[r].dir \in Dirs /\ job[r].create_apps \in BOOLEAN
<1>1. job[r] \in Content!Jobs
    BY DEF RequestsOK
<1> QED
    BY <1>1 DEF Content!Jobs, Content!NoJob

\* When no request keeps the loop, nothing is in hand and no place to be kept.
LEMMA Settled ==
    ASSUME Content!LoopIsFree
    PROVE OneIsBusy /\ PlaceIsMade /\ InHand = {}
BY DEF Content!LoopIsFree, Content!Busy, OneIsBusy, PlaceIsMade, Making, InHand

\* The same after a step.
LEMMA SettledAfter ==
    ASSUME Content!LoopIsFree'
    PROVE OneIsBusy' /\ PlaceIsMade' /\ InHand' = {}
BY DEF Content!LoopIsFree, Content!Busy, OneIsBusy, PlaceIsMade, Making, InHand

\* The invariant's parts, for a step that leaves the loop free.
LEMMA SettledStep ==
    ASSUME Content!LoopIsFree',
           RequestsOK', StoreOK', JobsFit', StoredByOver',
           Shares, DueIsFound', Content!ImportsDoNotMix'
    PROVE ContentInv'
<1>1. DueIsThere'
    BY DEF DueIsThere, DueIsFound
<1>2. SharingIsKnown'
    BY DEF Shares, SharingIsKnown, Content!SharedIds
<1> QED
    BY <1>1, <1>2, SettledAfter, TypesArePartsAfter DEF ContentInv

\* At the start nothing is stored, asked or due.
LEMMA ContentInitOK ==
    ASSUME ContentInit
    PROVE ContentInv
<1> USE DEF ContentInit
<1>1. RequestsOK
    BY DEF Content!Init, RequestsOK, Content!Jobs
<1>2. StoreOK
    BY DEF Content!Init, StoreOK
<1>3. Content!LoopIsFree
    BY DEF Content!Init, Content!LoopIsFree, Content!Busy
<1>4. JobsFit
    BY DEF Content!Init, JobsFit, JobFits
<1>5. StoredByOver /\ DueIsThere /\ SharingIsKnown /\ Content!ImportsDoNotMix
    BY DEF Content!Init, StoredByOver, DueIsThere, SharingIsKnown, Content!SharedIds,
           Content!ImportsDoNotMix
<1> QED
    BY <1>1, <1>2, <1>3, <1>4, <1>5, Settled, TypesAreParts DEF ContentInv

\* When the loop is free, what is due is there.
LEMMA FreeIsFound ==
    ASSUME ContentInv, Content!LoopIsFree
    PROVE DueIsFound
BY Settled DEF ContentInv, DueIsThere, DueIsFound

-----------------------------------------------------------------------------
(***************************************************************************)
(* The documents: the routes.                                              *)
(***************************************************************************)

\* POST adds documents of a request that is over, and imports nothing.
LEMMA AddOK ==
    ASSUME ContentInv, NEW r \in Requests, Content!Add(r), Shares
    PROVE ContentInv'
<1>1. RequestsOK /\ StoreOK
    BY TypesAreParts DEF ContentInv
<1>2. PICK added \in SUBSET (Dirs \X Exts) :
        /\ Content!Ask(r, [kind |-> "post"])
        /\ docs' = docs \cup {Content!Doc(r, p[1], p[2]) : p \in added}
        /\ due' = due \cup added
        /\ Content!Over(r, "200")
        /\ UNCHANGED <<apps, assigned, fetched>>
    BY DEF Content!Add
<1> DEFINE new == {Content!Doc(r, p[1], p[2]) : p \in added}
<1>3. /\ point[r] = "idle" /\ Content!LoopIsFree
      /\ job' = [job EXCEPT ![r] = [kind |-> "post"]]
      /\ point' = [point EXCEPT ![r] = "over"]
      /\ answer' = [answer EXCEPT ![r] = "200"]
    BY <1>2 DEF Content!Ask, Content!Over, Content!Goto
<1>4. \A p \in added : p \in Dirs \X Content!Ids /\ p[1] \in Dirs /\ p[2] \in Content!Ids
    BY DEF Content!Ids
<1>12. /\ \A d \in new : d.by = r /\ IsDoc(d)
       /\ \A p \in added : \E d \in new : d.dir = p[1] /\ d.id = p[2]
    <2>1. \A p \in added : /\ Content!Doc(r, p[1], p[2]).dir = p[1]
                          /\ Content!Doc(r, p[1], p[2]).id = p[2]
        BY DEF Content!Doc
    <2>2. \A p \in added : Content!Doc(r, p[1], p[2]) \in new
        OBVIOUS
    <2>3. \A d \in new : d.by = r /\ IsDoc(d)
        BY <1>4 DEF IsDoc, Content!Doc
    <2> HIDE DEF new
    <2> QED
        BY <2>1, <2>2, <2>3
<1>13. docs' = docs \cup new
    BY <1>2
<1> HIDE DEF new
<1>5. Content!LoopIsFree'
    BY <1>1, <1>3 DEF RequestsOK, Content!LoopIsFree, Content!Busy
<1>6. RequestsOK'
    <2>1. [kind |-> "post"] \in Content!Jobs
        BY DEF Content!Jobs
    <2> QED
        BY <1>1, <1>2, <1>3, <2>1 DEF RequestsOK
<1>7. StoreOK'
    BY <1>1, <1>2, <1>4, <1>12, <1>13 DEF StoreOK
<1>8. JobsFit'
    BY <1>1, <1>3 DEF ContentInv, RequestsOK, JobsFit, JobFits
<1>9. StoredByOver'
    BY <1>1, <1>3, <1>12, <1>13 DEF ContentInv, RequestsOK, StoreOK, IsDoc, StoredByOver
<1>10. DueIsFound'
    BY <1>2, <1>3, <1>12, <1>13, FreeIsFound DEF DueIsFound, Content!Found, Shares
<1>11. Content!ImportsDoNotMix'
    <2>1. \A d \in docs : d.by \in Requests /\ d.by # r
        BY <1>1, <1>3 DEF ContentInv, StoredByOver, StoreOK, IsDoc
    <2>2. \A d \in docs : job'[d.by] = job[d.by]
        BY <1>1, <1>3, <2>1 DEF RequestsOK
    <2>3. \A d \in new : job'[d.by].kind # "import"
        BY <1>1, <1>3, <1>12 DEF RequestsOK
    <2> QED
        BY <1>13, <2>2, <2>3 DEF ContentInv, Content!ImportsDoNotMix, Content!IsImported
<1> QED
    BY <1>1, <1>5, <1>6, <1>7, <1>8, <1>9, <1>10, <1>11, SettledStep

\* Taking documents away keeps what holds of each of them, and of each two.
LEMMA FewerDocs ==
    ASSUME ContentInv, NEW r \in Requests, point[r] # "over",
           docs' \subseteq docs, NEW j, job' = [job EXCEPT ![r] = j],
           NEW p, point' = [point EXCEPT ![r] = p]
    PROVE (\A d \in docs' : IsDoc(d)) /\ StoredByOver' /\ Content!ImportsDoNotMix'
<1>1. RequestsOK /\ StoreOK
    BY TypesAreParts DEF ContentInv
<1>2. \A d \in docs' : d \in docs /\ IsDoc(d) /\ d.by # r
    BY <1>1 DEF ContentInv, StoredByOver, StoreOK, IsDoc
<1>3. \A d \in docs' : point'[d.by] = point[d.by] /\ job'[d.by] = job[d.by]
    BY <1>1, <1>2 DEF RequestsOK, IsDoc
<1> QED
    BY <1>2, <1>3
       DEF ContentInv, StoredByOver, Content!ImportsDoNotMix, Content!IsImported

\* DELETE takes all documents of an id, which is no longer due.
LEMMA RemoveOK ==
    ASSUME ContentInv, NEW r \in Requests, Content!Remove(r), Shares
    PROVE ContentInv'
<1>1. RequestsOK /\ StoreOK
    BY TypesAreParts DEF ContentInv
<1>2. PICK dir \in Dirs, id \in Content!Ids :
        /\ Content!Ask(r, [kind |-> "remove", dir |-> dir, id |-> id])
        /\ docs' = Content!Without({id})
        /\ due' = Content!NoLongerDue(id)
        /\ Content!Over(r, "204")
        /\ UNCHANGED <<apps, assigned, fetched>>
    BY DEF Content!Remove
<1>3. /\ point[r] = "idle" /\ Content!LoopIsFree
      /\ job' = [job EXCEPT ![r] = [kind |-> "remove", dir |-> dir, id |-> id]]
      /\ point' = [point EXCEPT ![r] = "over"]
      /\ answer' = [answer EXCEPT ![r] = "204"]
    BY <1>2 DEF Content!Ask, Content!Over, Content!Goto
<1>4. docs' = {d \in docs : d.id # id}
    BY <1>2 DEF Content!Without
<1>5. Content!LoopIsFree'
    BY <1>1, <1>3 DEF RequestsOK, Content!LoopIsFree, Content!Busy
<1>6. RequestsOK'
    <2>1. [kind |-> "remove", dir |-> dir, id |-> id] \in Content!Jobs
        BY DEF Content!Jobs
    <2> QED
        BY <1>1, <1>2, <1>3, <2>1 DEF RequestsOK
<1>7. (\A d \in docs' : IsDoc(d)) /\ StoredByOver' /\ Content!ImportsDoNotMix'
    BY <1>3, <1>4, FewerDocs
<1>8. StoreOK'
    BY <1>1, <1>2, <1>7 DEF StoreOK, Content!NoLongerDue
<1>9. JobsFit'
    BY <1>1, <1>3 DEF ContentInv, RequestsOK, JobsFit, JobFits
<1>10. DueIsFound'
    BY <1>2, <1>3, <1>4, FreeIsFound
       DEF DueIsFound, Content!Found, Content!NoLongerDue, Shares
<1> QED
    BY <1>1, <1>5, <1>6, <1>7, <1>8, <1>9, <1>10, SettledStep

\* PUT takes all documents of an id, which is in hand from then on.
LEMMA ReplaceOK ==
    ASSUME ContentInv, NEW r \in Requests, Content!Replace(r), Shares
    PROVE ContentInv'
<1>1. RequestsOK /\ StoreOK
    BY TypesAreParts DEF ContentInv
<1>2. PICK dir \in Dirs, id \in Content!Ids :
        /\ Content!Ask(r, [kind |-> "put", dir |-> dir, id |-> id])
        /\ docs' = Content!Without({id})
        /\ Content!Goto(r, "store")
        /\ UNCHANGED <<apps, assigned, fetched, answer, due>>
    BY DEF Content!Replace
<1>3. /\ point[r] = "idle" /\ Content!LoopIsFree
      /\ job' = [job EXCEPT ![r] = [kind |-> "put", dir |-> dir, id |-> id]]
      /\ point' = [point EXCEPT ![r] = "store"]
    BY <1>2 DEF Content!Ask, Content!Goto
<1>4. docs' = {d \in docs : d.id # id}
    BY <1>2 DEF Content!Without
<1>5. \A q \in Requests : q # r => point'[q] = point[q] /\ point'[q] \notin Content!Busy
    BY <1>1, <1>3 DEF RequestsOK, Content!LoopIsFree
<1>6. point'[r] = "store" /\ job'[r].id = id /\ job'[r].kind = "put"
    BY <1>1, <1>3 DEF RequestsOK
<1>7. RequestsOK'
    <2>1. [kind |-> "put", dir |-> dir, id |-> id] \in Content!Jobs
        BY DEF Content!Jobs
    <2> QED
        BY <1>1, <1>2, <1>3, <2>1 DEF RequestsOK
<1>8. (\A d \in docs' : IsDoc(d)) /\ StoredByOver' /\ Content!ImportsDoNotMix'
    BY <1>3, <1>4, FewerDocs
<1>9. StoreOK'
    BY <1>1, <1>2, <1>8 DEF StoreOK
<1>10. JobsFit'
    BY <1>1, <1>2, <1>3 DEF ContentInv, RequestsOK, JobsFit, JobFits
<1>11. OneIsBusy'
    BY <1>5 DEF OneIsBusy
<1>12. PlaceIsMade'
    BY <1>4, <1>5, <1>6 DEF PlaceIsMade, Making, Content!Busy
<1>13. DueIsThere'
    <2>1. DueIsFound
        BY <1>3, FreeIsFound
    <2>2. id \in InHand'
        BY <1>6 DEF InHand
    <2> QED
        BY <1>2, <1>4, <2>1, <2>2 DEF DueIsThere, DueIsFound, Content!Found, Shares
<1>14. SharingIsKnown'
    BY DEF SharingIsKnown, Shares, Content!SharedIds
<1> QED
    BY <1>7, <1>8, <1>9, <1>10, <1>11, <1>12, <1>13, <1>14, TypesArePartsAfter DEF ContentInv

\* A request that keeps the loop is the only one, and so is what it has in hand.
LEMMA Alone ==
    ASSUME ContentInv, NEW r \in Requests, point[r] \in Content!Busy
    PROVE /\ \A q \in Requests : q # r => point[q] \notin Content!Busy
          /\ InHand = IF point[r] = "store" THEN {job[r].id} ELSE {}
BY DEF ContentInv, OneIsBusy, InHand, Content!Busy

\* The new document is the only one of its id, and what was in hand is there.
LEMMA StoreReplacementOK ==
    ASSUME ContentInv, NEW r \in Requests, Content!StoreReplacement(r), Shares
    PROVE /\ ContentInv'
          /\ {d \in docs' : d.id = job[r].id} = {Content!Doc(r, job[r].dir, job[r].id)}
<1> DEFINE new == Content!Doc(r, job[r].dir, job[r].id)
<1>1. RequestsOK /\ StoreOK
    BY TypesAreParts DEF ContentInv
<1>2. /\ point[r] = "store" /\ job[r].kind = "put"
      /\ docs' = docs \cup {new}
      /\ due' = Content!NoLongerDue(job[r].id) \cup {<<job[r].dir, job[r].id>>}
      /\ point' = [point EXCEPT ![r] = "over"]
      /\ answer' = [answer EXCEPT ![r] = "200"]
      /\ UNCHANGED <<apps, assigned, job, fetched>>
    BY DEF Content!StoreReplacement, Content!Over, Content!Goto
<1>3. job[r].dir \in Dirs /\ job[r].id \in Content!Ids
    BY <1>1, <1>2, JobFields
<1>4. new.by = r /\ new.dir = job[r].dir /\ new.id = job[r].id /\ IsDoc(new)
    BY <1>3 DEF IsDoc, Content!Doc
<1> HIDE DEF new
<1>5. /\ \A q \in Requests : q # r => point[q] \notin Content!Busy
      /\ InHand = {job[r].id}
    BY <1>2, Alone DEF Content!Busy
<1>6. Content!LoopIsFree'
    BY <1>1, <1>2, <1>5 DEF RequestsOK, Content!LoopIsFree, Content!Busy
<1>7. RequestsOK'
    BY <1>1, <1>2 DEF RequestsOK
<1>8. StoreOK'
    BY <1>1, <1>2, <1>3, <1>4 DEF StoreOK, Content!NoLongerDue
<1>9. JobsFit'
    BY <1>1, <1>2 DEF ContentInv, RequestsOK, JobsFit, JobFits
<1>10. StoredByOver'
    BY <1>1, <1>2, <1>4 DEF ContentInv, RequestsOK, StoreOK, IsDoc, StoredByOver
<1>11. DueIsFound'
    BY <1>2, <1>4, <1>5
       DEF ContentInv, DueIsThere, DueIsFound, Content!Found, Content!NoLongerDue, Shares
<1>12. Content!ImportsDoNotMix'
    BY <1>2, <1>4 DEF ContentInv, Content!ImportsDoNotMix, Content!IsImported
<1>13. \A d \in docs : d.id # job[r].id
    BY <1>2 DEF ContentInv, PlaceIsMade, Making
<1>14. {d \in docs' : d.id = job[r].id} = {new}
    BY <1>2, <1>4, <1>13
<1>15. ContentInv'
    BY <1>1, <1>6, <1>7, <1>8, <1>9, <1>10, <1>11, <1>12, SettledStep
<1> QED
    BY <1>14, <1>15 DEF new

\* When the new one cannot be stored, what was in hand is no longer due.
LEMMA ReplacementFailsOK ==
    ASSUME ContentInv, NEW r \in Requests, Content!ReplacementFails(r), Shares
    PROVE ContentInv' /\ answer'[r] = "500"
<1>1. RequestsOK /\ StoreOK
    BY TypesAreParts DEF ContentInv
<1>2. /\ point[r] = "store" /\ job[r].kind = "put"
      /\ due' = Content!NoLongerDue(job[r].id)
      /\ point' = [point EXCEPT ![r] = "over"]
      /\ answer' = [answer EXCEPT ![r] = "500"]
      /\ UNCHANGED <<docs, apps, assigned, job, fetched>>
    BY DEF Content!ReplacementFails, Content!Over, Content!Goto, Content!store
<1>3. /\ \A q \in Requests : q # r => point[q] \notin Content!Busy
      /\ InHand = {job[r].id}
    BY <1>2, Alone DEF Content!Busy
<1>4. Content!LoopIsFree'
    BY <1>1, <1>2, <1>3 DEF RequestsOK, Content!LoopIsFree, Content!Busy
<1>5. RequestsOK' /\ answer'[r] = "500"
    BY <1>1, <1>2 DEF RequestsOK
<1>6. StoreOK'
    BY <1>1, <1>2 DEF StoreOK, Content!NoLongerDue
<1>7. JobsFit'
    BY <1>1, <1>2 DEF ContentInv, RequestsOK, JobsFit, JobFits
<1>8. StoredByOver' /\ Content!ImportsDoNotMix'
    <2>1. docs' \subseteq docs /\ point[r] # "over" /\ job' = [job EXCEPT ![r] = job[r]]
        BY <1>1, <1>2 DEF RequestsOK
    <2> QED
        BY <1>2, <2>1, FewerDocs
<1>9. DueIsFound'
    BY <1>2, <1>3
       DEF ContentInv, DueIsThere, DueIsFound, Content!Found, Content!NoLongerDue, Shares
<1> QED
    BY <1>1, <1>4, <1>5, <1>6, <1>7, <1>8, <1>9, SettledStep

-----------------------------------------------------------------------------
(***************************************************************************)
(* The documents: the import.                                              *)
(***************************************************************************)

\* A step of a request on a free loop that stores nothing, and after which the
\* request is where its kind can be.
LEMMA NothingStored ==
    ASSUME ContentInv, NEW r \in Requests, Content!LoopIsFree, point[r] # "over",
           NEW j, job' = [job EXCEPT ![r] = j],
           NEW p \in {"fetch", "over"}, point' = [point EXCEPT ![r] = p],
           p = "fetch" => j.kind = "import",
           RequestsOK', \A q \in Requests : q # r => answer'[q] = answer[q],
           UNCHANGED <<docs, apps, assigned, due>>, Shares
    PROVE ContentInv'
<1>1. RequestsOK /\ StoreOK
    BY TypesAreParts DEF ContentInv
<1>2. Content!LoopIsFree'
    BY <1>1 DEF RequestsOK, Content!LoopIsFree, Content!Busy
<1>3. StoreOK'
    BY <1>1 DEF StoreOK
<1>4. JobsFit'
    BY <1>1 DEF ContentInv, RequestsOK, JobsFit, JobFits
<1>5. StoredByOver' /\ Content!ImportsDoNotMix'
    BY FewerDocs
<1>6. DueIsFound'
    BY FreeIsFound DEF DueIsFound, Content!Found, Shares
<1> QED
    BY <1>1, <1>2, <1>3, <1>4, <1>5, <1>6, SettledStep

\* An import begins with nothing fetched or stored.
LEMMA ImportOK ==
    ASSUME ContentInv, NEW r \in Requests, Content!Import(r), Shares
    PROVE ContentInv'
<1>1. RequestsOK
    BY TypesAreParts DEF ContentInv
<1>2. PICK dir \in Dirs, create_apps \in BOOLEAN :
        /\ Content!Ask(r, [kind |-> "import", dir |-> dir, create_apps |-> create_apps])
        /\ Content!Goto(r, "fetch")
        /\ answer' = [answer EXCEPT ![r] = "202"]
        /\ UNCHANGED <<Content!store, assigned, fetched, due>>
    BY DEF Content!Import
<1> DEFINE j == [kind |-> "import", dir |-> dir, create_apps |-> create_apps]
<1>3. /\ point[r] = "idle" /\ Content!LoopIsFree
      /\ job' = [job EXCEPT ![r] = j]
      /\ point' = [point EXCEPT ![r] = "fetch"]
      /\ UNCHANGED <<docs, apps, assigned, due>>
    BY <1>2 DEF Content!Ask, Content!Goto, Content!store
<1>4. j \in Content!Jobs /\ j.kind = "import"
    BY DEF Content!Jobs
<1> HIDE DEF j
<1>5. RequestsOK' /\ \A q \in Requests : q # r => answer'[q] = answer[q]
    BY <1>1, <1>2, <1>3, <1>4 DEF RequestsOK
<1> QED
    BY <1>3, <1>4, <1>5, NothingStored

\* A group that is fetched is kept with the others.
LEMMA FetchGroupOK ==
    ASSUME ContentInv, NEW r \in Requests, Content!FetchGroup(r), Shares
    PROVE ContentInv'
<1>1. RequestsOK
    BY TypesAreParts DEF ContentInv
<1>2. PICK g \in Groups \ fetched[r] : fetched' = [fetched EXCEPT ![r] = @ \cup {g}]
    BY DEF Content!FetchGroup
<1>3. /\ point[r] = "fetch" /\ Content!LoopIsFree
      /\ UNCHANGED <<docs, apps, assigned, point, job, answer, due>>
    BY DEF Content!FetchGroup, Content!store
<1>4. job[r].kind = "import"
    BY <1>3 DEF ContentInv, JobsFit, JobFits
<1>5. job' = [job EXCEPT ![r] = job[r]] /\ point' = [point EXCEPT ![r] = "fetch"]
    BY <1>1, <1>3 DEF RequestsOK
<1>6. RequestsOK'
    BY <1>1, <1>2, <1>3 DEF RequestsOK
<1> QED
    BY <1>3, <1>4, <1>5, <1>6, NothingStored

\* An import that ends early, for whatever reason, has stored nothing.
LEMMA EndsEarly ==
    ASSUME ContentInv, NEW r \in Requests, point[r] = "fetch", Content!LoopIsFree,
           Content!Over(r, answer[r]), UNCHANGED <<Content!store, assigned, job, fetched, due>>,
           Shares
    PROVE ContentInv'
<1>1. RequestsOK
    BY TypesAreParts DEF ContentInv
<1>2. /\ point' = [point EXCEPT ![r] = "over"]
      /\ answer' = [answer EXCEPT ![r] = answer[r]]
      /\ UNCHANGED <<docs, apps, assigned, job, fetched, due>>
    BY DEF Content!Over, Content!Goto, Content!store
<1>3. job' = [job EXCEPT ![r] = job[r]]
    BY <1>1, <1>2 DEF RequestsOK
<1>4. RequestsOK' /\ \A q \in Requests : q # r => answer'[q] = answer[q]
    BY <1>1, <1>2 DEF RequestsOK
<1> QED
    BY <1>2, <1>3, <1>4, NothingStored

\* The applications are there and the directory is empty when its documents come.
LEMMA ReplaceDirectoryOK ==
    ASSUME ContentInv, NEW r \in Requests, Content!ReplaceDirectory(r), Shares
    PROVE ContentInv'
<1>1. RequestsOK /\ StoreOK
    BY TypesAreParts DEF ContentInv
<1>2. /\ point[r] = "fetch" /\ Content!LoopIsFree
      /\ IF job[r].create_apps
         THEN /\ Content!CreatesApps(r)
              /\ apps' = apps \cup {Content!create_app_name(o[2]) : o \in Content!AllApps(r)}
         ELSE UNCHANGED apps
      /\ docs' = Content!Without(Content!IdsOf(Content!Listed(job[r].dir)))
      /\ due' = {p \in due : p[1] # job[r].dir}
      /\ point' = [point EXCEPT ![r] = "replace"]
      /\ UNCHANGED <<assigned, job, fetched, answer>>
    BY DEF Content!ReplaceDirectory, Content!Goto
<1> DEFINE gone == {d.id : d \in {e \in docs : e.dir = job[r].dir}}
<1>3. docs' = {d \in docs : d.id \notin gone}
    BY <1>2 DEF Content!Without, Content!IdsOf, Content!Listed
<1>4. \A d \in docs' : d \in docs /\ d.dir # job[r].dir
    BY <1>3
<1>5. DueIsFound'
    <2> SUFFICES ASSUME NEW p \in due', p[2] \notin shared' PROVE Content!Found(p)'
        BY DEF DueIsFound
    <2>1. p \in due /\ p[1] # job[r].dir /\ p[2] \notin shared
        BY <1>2 DEF Shares
    <2>2. PICK d \in docs : d.dir = p[1] /\ d.id = p[2]
        BY <1>2, <2>1, FreeIsFound DEF DueIsFound, Content!Found
    <2>3. d.id \notin gone
        <3>1. \A e \in docs : e.id = d.id => e.dir = d.dir
            BY <2>1, <2>2 DEF ContentInv, SharingIsKnown, Content!SharedIds
        <3> QED
            BY <2>1, <2>2, <3>1
    <2> QED
        BY <1>3, <2>2, <2>3 DEF Content!Found
<1>6. job[r].kind = "import"
    BY <1>2 DEF ContentInv, JobsFit, JobFits
<1>7. /\ \A q \in Requests : q # r => point'[q] = point[q] /\ point'[q] \notin Content!Busy
      /\ point'[r] = "replace"
    BY <1>1, <1>2 DEF RequestsOK, Content!LoopIsFree
<1>8. RequestsOK'
    BY <1>1, <1>2 DEF RequestsOK
<1>9. \A a \in apps' : Content!IsValidName(a)
    <2>1. CASE ~job[r].create_apps
        BY <1>1, <1>2, <2>1 DEF StoreOK
    <2>2. CASE job[r].create_apps
        <3>1. ASSUME NEW o \in Content!AllApps(r)
              PROVE Content!IsValidName(Content!create_app_name(o[2]))
            <4>1. CASE Content!create_app_name(o[2]) \in apps
                BY <1>1, <4>1 DEF StoreOK
            <4>2. CASE Content!create_app_name(o[2]) \notin apps
                <5>1. o \in Content!Unknown(r)
                    BY <4>2 DEF Content!Unknown
                <5> QED
                    BY <1>2, <2>2, <5>1 DEF Content!CreatesApps
            <4> QED
                BY <4>1, <4>2
        <3> QED
            BY <1>1, <1>2, <2>2, <3>1 DEF StoreOK
    <2> QED
        BY <2>1, <2>2
<1>10. (\A d \in docs' : IsDoc(d)) /\ StoredByOver' /\ Content!ImportsDoNotMix'
    <2>1. docs' \subseteq docs /\ point[r] # "over" /\ job' = [job EXCEPT ![r] = job[r]]
        BY <1>1, <1>2, <1>4 DEF RequestsOK
    <2> QED
        BY <1>2, <2>1, FewerDocs
<1>11. StoreOK'
    BY <1>1, <1>2, <1>9, <1>10 DEF StoreOK
<1>12. JobsFit'
    BY <1>1, <1>2, <1>6 DEF ContentInv, RequestsOK, JobsFit, JobFits
<1>13. OneIsBusy'
    BY <1>7 DEF OneIsBusy
<1>14. PlaceIsMade'
    <2>1. ASSUME job[r].create_apps, NEW g \in Content!GroupsWithApps(r), NEW a \in assigned[g]
          PROVE Content!create_app_name(a) \in apps'
        <3>1. g \in Groups /\ a \in OktaApps
            BY <1>1 DEF RequestsOK, StoreOK, Content!GroupsWithApps
        <3>2. <<g, a>> \in Content!AllApps(r)
            BY <3>1 DEF Content!AllApps, Content!Object
        <3> QED
            BY <1>2, <2>1, <3>2
    <2>2. Making(r)'
        BY <1>2, <1>4, <1>7, <2>1 DEF Making, Content!GroupsWithApps
    <2>3. \A q \in Requests : q # r => Making(q)'
        BY <1>7 DEF Making, Content!Busy
    <2> QED
        BY <2>2, <2>3 DEF PlaceIsMade
<1>15. DueIsThere'
    BY <1>5 DEF DueIsThere, DueIsFound
<1>16. SharingIsKnown'
    BY DEF SharingIsKnown, Shares, Content!SharedIds
<1> QED
    BY <1>8, <1>10, <1>11, <1>12, <1>13, <1>14, <1>15, <1>16, TypesArePartsAfter DEF ContentInv

\* The directory's documents are all of one import, about applications there are.
LEMMA StoreImportOK ==
    ASSUME ContentInv, NEW r \in Requests, Content!StoreImport(r), Shares
    PROVE /\ ContentInv'
          /\ job[r].create_apps => \A d \in docs' \ docs : d.apps \subseteq apps'
<1> DEFINE new == {Content!GroupDoc(r, g) : g \in Content!GroupsWithApps(r)}
<1>1. RequestsOK /\ StoreOK
    BY TypesAreParts DEF ContentInv
<1>2. /\ point[r] = "replace"
      /\ docs' = docs \cup new
      /\ due' = due \cup {<<job[r].dir, g>> : g \in Content!GroupsWithApps(r)}
      /\ point' = [point EXCEPT ![r] = "over"]
      /\ answer' = [answer EXCEPT ![r] = answer[r]]
      /\ UNCHANGED <<apps, assigned, job, fetched>>
    BY DEF Content!StoreImport, Content!Over, Content!Goto
<1>3. job[r].kind = "import" /\ job[r].dir \in Dirs
    BY <1>1, <1>2, JobFields DEF ContentInv, JobsFit, JobFits
<1>4. Content!GroupsWithApps(r) \subseteq Groups /\ Groups \subseteq Content!Ids
    BY <1>1 DEF RequestsOK, Content!GroupsWithApps, Content!Ids
<1>5. \A d \in new : d.by = r /\ d.dir = job[r].dir
    BY DEF Content!GroupDoc
<1>6. ASSUME NEW g \in Content!GroupsWithApps(r)
      PROVE /\ Content!GroupDoc(r, g) \in new
            /\ Content!GroupDoc(r, g).id = g
            /\ IsDoc(Content!GroupDoc(r, g))
            /\ job[r].create_apps => Content!GroupDoc(r, g).apps \subseteq apps
    <2> DEFINE about == {Content!create_app_name(a) : a \in assigned[g]}
    <2>1. Content!GroupDoc(r, g) = [by |-> r, dir |-> job[r].dir, id |-> g, apps |-> about]
        BY DEF Content!GroupDoc
    <2>2. about \subseteq Seq(Content!Letters \cup {"-"})
        BY <1>1, <1>4, GroupNames DEF StoreOK
    <2>3. job[r].create_apps => about \subseteq apps
        BY <1>2 DEF ContentInv, PlaceIsMade, Making
    <2> HIDE DEF about
    <2>4. IsDoc(Content!GroupDoc(r, g))
        BY <1>3, <1>4, <2>1, <2>2 DEF IsDoc
    <2> QED
        BY <2>1, <2>3, <2>4
<1>7. \A d \in new : IsDoc(d) /\ (job[r].create_apps => d.apps \subseteq apps)
    BY <1>6
<1>8. \A g \in Content!GroupsWithApps(r) : \E d \in new : d.dir = job[r].dir /\ d.id = g
    BY <1>5, <1>6
<1> HIDE DEF new
<1>9. /\ \A q \in Requests : q # r => point[q] \notin Content!Busy
      /\ InHand = {}
    BY <1>2, Alone DEF Content!Busy
<1>10. Content!LoopIsFree'
    BY <1>1, <1>2, <1>9 DEF RequestsOK, Content!LoopIsFree, Content!Busy
<1>11. RequestsOK'
    BY <1>1, <1>2 DEF RequestsOK
<1>12. StoreOK'
    <2>1. \A g \in Content!GroupsWithApps(r) : <<job[r].dir, g>> \in Dirs \X Content!Ids
        BY <1>3, <1>4
    <2> QED
        BY <1>1, <1>2, <1>7, <2>1 DEF StoreOK
<1>13. JobsFit'
    BY <1>1, <1>2 DEF ContentInv, RequestsOK, JobsFit, JobFits
<1>14. StoredByOver'
    BY <1>1, <1>2, <1>5 DEF ContentInv, RequestsOK, StoreOK, IsDoc, StoredByOver
<1>15. DueIsFound'
    <2> SUFFICES ASSUME NEW p \in due', p[2] \notin shared' PROVE Content!Found(p)'
        BY DEF DueIsFound
    <2>1. CASE p \in due
        BY <1>2, <1>9, <2>1 DEF ContentInv, DueIsThere, Content!Found, Shares
    <2>2. CASE p \notin due
        <3>1. PICK g \in Content!GroupsWithApps(r) : p = <<job[r].dir, g>>
            BY <1>2, <2>2
        <3> QED
            BY <1>2, <1>8, <3>1 DEF Content!Found
    <2> QED
        BY <2>1, <2>2
<1>16. Content!ImportsDoNotMix'
    <2>1. \A d \in docs : d.dir # job[r].dir
        BY <1>2 DEF ContentInv, PlaceIsMade, Making
    <2> QED
        BY <1>2, <1>5, <2>1 DEF ContentInv, Content!ImportsDoNotMix, Content!IsImported
<1>17. ContentInv'
    BY <1>1, <1>10, <1>11, <1>12, <1>13, <1>14, <1>15, <1>16, SettledStep
<1> QED
    BY <1>2, <1>7, <1>17

\* When they cannot be stored, what the directory had is not due any more.
LEMMA StoreImportFailsOK ==
    ASSUME ContentInv, NEW r \in Requests, Content!StoreImportFails(r), Shares
    PROVE ContentInv' /\ docs' = docs
<1>1. RequestsOK /\ StoreOK
    BY TypesAreParts DEF ContentInv
<1>2. /\ point[r] = "replace"
      /\ point' = [point EXCEPT ![r] = "over"]
      /\ answer' = [answer EXCEPT ![r] = answer[r]]
      /\ UNCHANGED <<docs, apps, assigned, job, fetched, due>>
    BY DEF Content!StoreImportFails, Content!Over, Content!Goto, Content!store
<1>3. /\ \A q \in Requests : q # r => point[q] \notin Content!Busy
      /\ InHand = {}
    BY <1>2, Alone DEF Content!Busy
<1>4. Content!LoopIsFree'
    BY <1>1, <1>2, <1>3 DEF RequestsOK, Content!LoopIsFree, Content!Busy
<1>5. RequestsOK'
    BY <1>1, <1>2 DEF RequestsOK
<1>6. StoreOK'
    BY <1>1, <1>2 DEF StoreOK
<1>7. JobsFit'
    BY <1>1, <1>2 DEF ContentInv, RequestsOK, JobsFit, JobFits
<1>8. StoredByOver' /\ Content!ImportsDoNotMix'
    <2>1. docs' \subseteq docs /\ point[r] # "over" /\ job' = [job EXCEPT ![r] = job[r]]
        BY <1>1, <1>2 DEF RequestsOK
    <2> QED
        BY <1>2, <2>1, FewerDocs
<1>9. DueIsFound'
    BY <1>2, <1>3 DEF ContentInv, DueIsThere, DueIsFound, Content!Found, Shares
<1> QED
    BY <1>1, <1>2, <1>4, <1>5, <1>6, <1>7, <1>8, <1>9, SettledStep

\* An application that is deleted was no import's under way.
LEMMA DropAppOK ==
    ASSUME ContentInv, Content!DropApp, Shares
    PROVE ContentInv'
<1>1. RequestsOK /\ StoreOK
    BY TypesAreParts DEF ContentInv
<1>2. /\ Content!LoopIsFree /\ apps' \subseteq apps
      /\ UNCHANGED <<docs, assigned, point, job, fetched, answer, due>>
    BY DEF Content!DropApp
<1>3. Content!LoopIsFree'
    BY <1>2 DEF Content!LoopIsFree
<1>4. RequestsOK'
    BY <1>1, <1>2 DEF RequestsOK
<1>5. StoreOK'
    BY <1>1, <1>2 DEF StoreOK
<1>6. JobsFit' /\ StoredByOver' /\ Content!ImportsDoNotMix'
    BY <1>2 DEF ContentInv, JobsFit, JobFits, StoredByOver,
                Content!ImportsDoNotMix, Content!IsImported
<1>7. DueIsFound'
    BY <1>2, FreeIsFound DEF DueIsFound, Content!Found, Shares
<1> QED
    BY <1>1, <1>3, <1>4, <1>5, <1>6, <1>7, SettledStep

-----------------------------------------------------------------------------
(***************************************************************************)
(* The documents: the theorems.                                            *)
(***************************************************************************)

\* Every step keeps the invariant.
LEMMA ContentStepOK ==
    ContentInv /\ [ContentNext]_<<Content!vars, shared>> => ContentInv'
<1> SUFFICES ASSUME ContentInv, [ContentNext]_<<Content!vars, shared>> PROVE ContentInv'
    OBVIOUS
<1>1. CASE UNCHANGED <<Content!vars, shared>>
    <2>1. UNCHANGED <<docs, apps, assigned, point, job, fetched, answer, due, shared>>
        BY <1>1 DEF Content!vars, Content!store
    <2>2. Content!TypeOK'
        <3>1. RequestsOK /\ StoreOK
            BY TypesAreParts DEF ContentInv
        <3> QED
            BY <2>1, <3>1, TypesArePartsAfter DEF RequestsOK, StoreOK
    <2>3. OneIsBusy' /\ JobsFit' /\ PlaceIsMade'
        BY <2>1 DEF ContentInv, OneIsBusy, JobsFit, JobFits, PlaceIsMade, Making,
                    Content!GroupsWithApps
    <2>4. DueIsThere' /\ SharingIsKnown'
        BY <2>1 DEF ContentInv, DueIsThere, InHand, Content!Found, SharingIsKnown,
                    Content!SharedIds
    <2>5. StoredByOver' /\ Content!ImportsDoNotMix'
        BY <2>1 DEF ContentInv, StoredByOver, Content!ImportsDoNotMix, Content!IsImported
    <2> QED
        BY <2>2, <2>3, <2>4, <2>5 DEF ContentInv
<1>2. ASSUME NEW r \in Requests, Content!Step(r), Shares PROVE ContentInv'
    <2>1. CASE Content!CreateAppsFails(r)
        BY <1>2, <2>1, EndsEarly DEF Content!CreateAppsFails
    <2> QED
        BY <1>2, <2>1, StoreReplacementOK, FetchGroupOK, ReplaceDirectoryOK, StoreImportOK
           DEF Content!Step
<1>3. ASSUME NEW r \in Requests, Content!Fail(r), Shares PROVE ContentInv'
    <2>1. CASE Content!FetchFails(r)
        BY <1>3, <2>1, EndsEarly DEF Content!FetchFails
    <2> QED
        BY <1>3, <2>1, ReplacementFailsOK, StoreImportFailsOK DEF Content!Fail
<1> QED
    BY <1>1, <1>2, <1>3, AddOK, RemoveOK, ReplaceOK, ImportOK, DropAppOK
       DEF ContentNext, Content!Next

\* While a request keeps the event loop no other one takes a step.
LEMMA OnlyTheBusyOneActs ==
    ASSUME ContentInv, NEW r \in Requests, point[r] \in Content!Busy, Content!Next
    PROVE \/ Content!StoreReplacement(r) \/ Content!ReplacementFails(r)
          \/ Content!StoreImport(r) \/ Content!StoreImportFails(r)
<1>1. ~Content!LoopIsFree
    BY DEF Content!LoopIsFree
<1>2. PICK q \in Requests : \/ Content!StoreReplacement(q) \/ Content!ReplacementFails(q)
                            \/ Content!StoreImport(q) \/ Content!StoreImportFails(q)
    BY <1>1 DEF Content!Next, Content!Step, Content!Fail, Content!DropApp, Content!Ask,
                Content!Add, Content!Remove, Content!Replace, Content!Import,
                Content!FetchGroup, Content!FetchFails, Content!ReplaceDirectory,
                Content!CreateAppsFails
<1>3. point[q] \in Content!Busy
    BY <1>2 DEF Content!StoreReplacement, Content!ReplacementFails, Content!StoreImport,
                Content!StoreImportFails, Content!Busy
<1>4. q = r
    BY <1>3, Alone
<1> QED
    BY <1>2, <1>4

\* The invariant holds throughout, for any requests, directories, groups and names.
THEOREM ContentInductive == ContentSpec => []ContentInv
<1>1. ContentInit => ContentInv
    BY ContentInitOK
<1> QED
    BY <1>1, ContentStepOK, PTL DEF ContentSpec

\* What was accepted is found while the loop is free, imports of one directory do not
\* mix, and every variable keeps its type, whatever the names of Okta's applications
\* (background_data_fetch, the routes of content.py, create_app_name).
THEOREM ContentHolds == ContentSpec => []DocumentsAreConsistent
<1>1. ContentInv => DocumentsAreConsistent
    BY FreeIsFound DEF ContentInv, DocumentsAreConsistent, AcceptedIsFound, DueIsFound
<1> QED
    BY <1>1, ContentInductive, PTL

\* A replacement that is answered 200 leaves exactly the new document under its id,
\* whatever other requests and imports were doing (update of content.py).
THEOREM OneIsLeft == ContentSpec => ReplacedMeansOne
<1>1. ContentInv /\ [ContentNext]_<<Content!vars, shared>> =>
        [\A r \in Requests :
            point[r] = "store" /\ answer'[r] = "200" =>
                {d \in docs' : d.id = job[r].id} =
                    {Content!Doc(r, job[r].dir, job[r].id)}]_(Content!vars)
    <2> SUFFICES ASSUME ContentInv, ContentNext, NEW r \in Requests,
                        point[r] = "store", answer'[r] = "200"
                 PROVE {d \in docs' : d.id = job[r].id} =
                           {Content!Doc(r, job[r].dir, job[r].id)}
        OBVIOUS
    <2>1. \/ Content!StoreReplacement(r) \/ Content!ReplacementFails(r)
          \/ Content!StoreImport(r) \/ Content!StoreImportFails(r)
        BY OnlyTheBusyOneActs DEF Content!Busy, ContentNext
    <2>2. ~Content!ReplacementFails(r)
        BY ReplacementFailsOK DEF ContentNext
    <2>3. ~Content!StoreImport(r) /\ ~Content!StoreImportFails(r)
        BY DEF Content!StoreImport, Content!StoreImportFails
    <2> QED
        BY <2>1, <2>2, <2>3, StoreReplacementOK DEF ContentNext
<1> QED
    BY <1>1, ContentInductive, PTL
       DEF ContentSpec, ReplacedMeansOne, Content!ReplacedMeansOne

\* An import that creates applications stores no document about one there is not, however
\* Okta names them and whichever are deleted meanwhile (fetch_content).
THEOREM AppsAreThere == ContentSpec => ImportedAppsExist
<1>1. ContentInv /\ [ContentNext]_<<Content!vars, shared>> =>
        [\A r \in Requests :
            point[r] = "replace" /\ job[r].create_apps =>
                \A d \in docs' \ docs : d.apps \subseteq apps']_(Content!vars)
    <2> SUFFICES ASSUME ContentInv, ContentNext, NEW r \in Requests,
                        point[r] = "replace", job[r].create_apps
                 PROVE \A d \in docs' \ docs : d.apps \subseteq apps'
        OBVIOUS
    <2>1. \/ Content!StoreReplacement(r) \/ Content!ReplacementFails(r)
          \/ Content!StoreImport(r) \/ Content!StoreImportFails(r)
        BY OnlyTheBusyOneActs DEF Content!Busy, ContentNext
    <2>2. ~Content!StoreReplacement(r) /\ ~Content!ReplacementFails(r)
        BY DEF Content!StoreReplacement, Content!ReplacementFails
    <2>3. CASE Content!StoreImport(r)
        BY <2>3, StoreImportOK DEF ContentNext
    <2>4. CASE Content!StoreImportFails(r)
        BY <2>4, StoreImportFailsOK DEF ContentNext
    <2> QED
        BY <2>1, <2>2, <2>3, <2>4
<1> QED
    BY <1>1, ContentInductive, PTL
       DEF ContentSpec, ImportedAppsExist, Content!ImportedAppsExist

=============================================================================
