------------------------------- MODULE EnvVault -------------------------------
(***************************************************************************)
(* The vault that keeps the secrets of all workspaces in the environment   *)
(* of the server process, how a configuration is resolved against it, and  *)
(* how a deletion clears a workspace of its secrets.                       *)
(*                                                                         *)
(* A variable's name is the id of the workspace, "_" and the path, all in  *)
(* upper case.  Ids have one length, so a name tells id and path apart: it *)
(* is a pair here.                                                         *)
(***************************************************************************)
CONSTANTS
    Workspaces,     \* ids of workspaces
    Paths,          \* paths, as configurations write them
    Upper,          \* the upper case of each id and path
    Lower,          \* the path in lower case of each path in upper case
    Places,         \* where a configuration refers to a secret
    Callers,        \* requests that use the vault
    None            \* no value

Folded == {Upper[p] : p \in Paths}

ASSUME FoldingIsStable ==
    /\ Workspaces \cup Paths \subseteq DOMAIN Upper
    /\ Lower \in [Folded -> Paths]
    /\ \A u \in Folded : Upper[Lower[u]] = u

\* Ids of workspaces differ in more than the case of their letters.
ASSUME IdsDiffer == \A v, w \in Workspaces : Upper[v] = Upper[w] => v = w

\* A secret is known by the workspace it was set for.
ASSUME NoneIsNoWorkspace == None \notin Workspaces

Key(w, p) == <<Upper[w], Upper[p]>>
Keys == {Key(w, p) : w \in Workspaces, p \in Paths}

VARIABLES
    environ,        \* whose secret each variable has, or None
    pc,             \* where each caller is
    acts,           \* the workspace each caller acts for
    config,         \* what each place of a caller's configuration was replaced by
    left,           \* the places a caller has not come to yet
    names           \* the paths a caller has listed and not yet deleted

callers == <<pc, acts, config, left, names>>
vars == <<environ, callers>>

\* Slip: the variable is looked for by its path.
GetOfAny(w, p) ==
    LET there == {v \in Workspaces : environ[Key(v, p)] # None}
    IN IF there = {} THEN None ELSE environ[Key(CHOOSE v \in there : TRUE, p)]

GetSecret(w, p) == environ[Key(w, p)]

SetSecret(w, p) ==
    /\ environ' = [environ EXCEPT ![Key(w, p)] = w]
    /\ UNCHANGED callers

\* Slip: the id is not looked at.
ListOfAll(w) == {Lower[k[2]] : k \in {j \in Keys : environ[j] # None}}

\* The paths, in lower case, of the variables whose names begin with the id.
ListSecrets(w) == {Lower[k[2]] : k \in {j \in Keys : j[1] = Upper[w] /\ environ[j] # None}}

\* Slip: the path decides which variable goes.
DeleteOfAll(w, p) ==
    /\ environ[Key(w, p)] # None
    /\ environ' = [k \in Keys |-> IF k[2] = Upper[p] THEN None ELSE environ[k]]

\* A missing variable is an error, and nothing else happens.
DeleteSecret(w, p) ==
    /\ environ[Key(w, p)] # None
    /\ environ' = [environ EXCEPT ![Key(w, p)] = None]

\* A caller goes to one of its places, which it finds replaced by a secret or by what
\* the vault has instead.
Replace(c, x, secret) ==
    /\ pc[c] \in {"idle", "resolving"}
    /\ x \in left[c]
    /\ config' = [config EXCEPT ![c][x] = secret]
    /\ left' = [left EXCEPT ![c] = @ \ {x}]
    /\ pc' = [pc EXCEPT ![c] = IF left[c] = {x} THEN "over" ELSE "resolving"]
    /\ UNCHANGED <<environ, acts, names>>

\* Slip: the reference stands where the secret is missing.
ResolveOrLeave(c) ==
    \E x \in Places, p \in Paths :
        Replace(c, x, IF GetSecret(acts[c], p) = None THEN p ELSE GetSecret(acts[c], p))

\* resolve_ws_config_secrets: each place of the configuration, however deep, is
\* replaced by the secret it refers to, one call of the vault after the other.  What
\* is missing is None.
Resolve(c) ==
    \E x \in Places, p \in Paths : Replace(c, x, GetSecret(acts[c], p))

\* wipe_workspace lists the secrets.  It keeps the event loop, so there is one
\* deletion at a time.
BeginClearing(c) ==
    /\ pc[c] = "idle"
    /\ \A d \in Callers : pc[d] # "clearing"
    /\ names' = [names EXCEPT ![c] = ListSecrets(acts[c])]
    /\ pc' = [pc EXCEPT ![c] = "clearing"]
    /\ UNCHANGED <<environ, acts, config, left>>

\* And deletes one after the other.
ClearNext(c) ==
    /\ pc[c] = "clearing"
    /\ \E p \in names[c] :
        /\ DeleteSecret(acts[c], p)
        /\ names' = [names EXCEPT ![c] = @ \ {p}]
    /\ UNCHANGED <<pc, acts, config, left>>

EndClearing(c) ==
    /\ pc[c] = "clearing"
    /\ names[c] = {}
    /\ pc' = [pc EXCEPT ![c] = "over"]
    /\ UNCHANGED <<environ, acts, config, left, names>>

-----------------------------------------------------------------------------
\* The server starts with the secrets its environment gives it.
Init ==
    /\ \E given \in SUBSET Keys :
        environ = [k \in Keys |-> IF k \in given
                                  THEN CHOOSE w \in Workspaces : Upper[w] = k[1] ELSE None]
    /\ pc = [c \in Callers |-> "idle"]
    /\ acts \in [Callers -> Workspaces]
    /\ config = [c \in Callers |-> [x \in Places |-> None]]
    /\ left = [c \in Callers |-> Places]
    /\ names = [c \in Callers |-> {}]

Next ==
    \/ \E w \in Workspaces, p \in Paths : SetSecret(w, p)
    \/ \E c \in Callers : Resolve(c) \/ BeginClearing(c) \/ ClearNext(c) \/ EndClearing(c)

Spec == Init /\ [][Next]_vars

-----------------------------------------------------------------------------
TypeOK ==
    /\ environ \in [Keys -> Workspaces \cup {None}]
    /\ pc \in [Callers -> {"idle", "resolving", "clearing", "over"}]
    /\ acts \in [Callers -> Workspaces]
    /\ config \in [Callers -> [Places -> Workspaces \cup {None}]]
    /\ left \in [Callers -> SUBSET Places]
    /\ names \in [Callers -> SUBSET Paths]

\* A variable has a secret of the workspace that its name begins with.
KeysTellOwners == \A w \in Workspaces, p \in Paths : environ[Key(w, p)] \in {w, None}

\* No configuration is resolved to a secret of another workspace, whatever paths it
\* refers to (WorkspaceVaultSecretResolver gives the vault the workspace's id).
ResolvedToItsOwn == \A c \in Callers, x \in Places : config[c][x] \in {acts[c], None}

\* What was listed can be deleted: the loop of wipe_workspace, which passes the
\* names that list_secrets returns to delete_secret, meets no missing secret.
ListedCanBeDeleted ==
    \A c \in Callers : \A p \in names[c] : GetSecret(acts[c], p) # None

\* The environment is one box of secrets for each workspace: what is done to one
\* is not seen in another, nor under a path that differs in more than case.
boxes == [wp \in Workspaces \X Folded |-> environ[<<Upper[wp[1]], wp[2]>>]]

Box == INSTANCE SecretBox WITH Values <- Workspaces, Paths <- Folded, box <- boxes

IsABoxEach == Box!Spec

=============================================================================
