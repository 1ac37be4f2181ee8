----------------------------- MODULE ClusterVault -----------------------------
(***************************************************************************)
(* The vault that keeps the secrets of workspaces as secrets of a          *)
(* Kubernetes cluster, in one namespace for all or in one for each.        *)
(*                                                                         *)
(* The client library reports what the cluster refuses with an exception   *)
(* of its own.  The vault looks out for the web framework's instead, so    *)
(* that no branch of its handlers is ever taken.                           *)
(***************************************************************************)
CONSTANTS
    Workspaces,     \* ids of workspaces
    Paths,          \* paths, as configurations write them
    Lower,          \* the lower case of each id: its label
    Dashed,         \* each id in lower case, and each path, with dashes for "_" and "/"
    Shared,         \* the vault was given a namespace
    Callers,        \* requests that use the vault, one operation each
    None            \* no workspace

\* create_workspace_path: ids have one length, so a name is a pair.
Name(w, p) == <<Dashed[w], Dashed[p]>>

Namespace(w) == IF Shared THEN None ELSE w

\* A secret of the cluster, and the workspace whose value it holds.
Secret == [namespace : Workspaces \cup {None},
           name : {Name(w, p) : w \in Workspaces, p \in Paths},
           label : {Lower[w] : w \in Workspaces},
           of : Workspaces]

Request == [op : {"get", "set", "delete", "clear"}, workspace : Workspaces, path : Paths]

VARIABLES
    cluster,        \* the secrets of the cluster
    pc,             \* where each caller is
    asks,           \* the operation, workspace and path of each caller
    got,            \* the workspace whose secret it was given, or None
    names           \* the names a deletion has listed

callers == <<pc, asks, got, names>>
vars == <<cluster, callers>>

Called(w, p) == {s \in cluster : s.namespace = Namespace(w) /\ s.name = Name(w, p)}

Begins(c, op) == pc[c] = "idle" /\ asks[c].op = op

End(c, outcome) ==
    /\ pc' = [pc EXCEPT ![c] = outcome]
    /\ UNCHANGED <<asks, names>>

Fail(c) == End(c, "failed") /\ UNCHANGED <<cluster, got>>

\* Slip: the label is not looked at.
LabelledAnyhow(s, w) == TRUE

Labelled(s, w) == s.label = Lower[w]

\* A name that is missing fails with ApiException, and a secret that is labelled
\* with another workspace with ValueError.
GetSecret(c) ==
    LET w == asks[c].workspace
        found == {s \in Called(w, asks[c].path) : Labelled(s, w)}
    IN /\ Begins(c, "get")
       /\ \/ \E s \in found :
              /\ End(c, "done")
              /\ got' = [got EXCEPT ![c] = s.of]
              /\ UNCHANGED cluster
          \/ found = {} /\ Fail(c)

\* Slip: a name that is there does not keep another from being created.
SetSecretAnyway(c) ==
    LET w == asks[c].workspace IN
    /\ Begins(c, "set")
    /\ End(c, "done")
    /\ cluster' = cluster \cup
          {[namespace |-> Namespace(w), name |-> Name(w, asks[c].path), label |-> Lower[w], of |-> w]}
    /\ UNCHANGED got

\* A name that is there fails with ApiException: it is not patched.
SetSecret(c) ==
    LET w == asks[c].workspace
        p == asks[c].path
        new == [namespace |-> Namespace(w), name |-> Name(w, p), label |-> Lower[w], of |-> w]
    IN /\ Begins(c, "set")
       /\ \/ /\ Called(w, p) = {}
             /\ End(c, "done")
             /\ cluster' = cluster \cup {new}
             /\ UNCHANGED got
          \/ Called(w, p) # {} /\ Fail(c)

\* So does a name that is not there.
DeleteSecret(c) ==
    LET there == Called(asks[c].workspace, asks[c].path)
    IN /\ Begins(c, "delete")
       /\ \/ /\ there # {}
             /\ End(c, "done")
             /\ cluster' = cluster \ there
             /\ UNCHANGED got
          \/ there = {} /\ Fail(c)

\* A deletion of a workspace lists the names of the secrets with its label.
ListSecrets(c) ==
    /\ Begins(c, "clear")
    /\ names' = [names EXCEPT ![c] =
            {s.name : s \in {t \in cluster : t.namespace = Namespace(asks[c].workspace)
                                          /\ Labelled(t, asks[c].workspace)}}]
    /\ pc' = [pc EXCEPT ![c] = "clearing"]
    /\ UNCHANGED <<cluster, asks, got>>

\* And takes each for a path: the id is put in front of it once more, which is the
\* name of no secret.
ClearNext(c) ==
    /\ pc[c] = "clearing"
    /\ pc' = [pc EXCEPT ![c] = IF names[c] = {} THEN "done" ELSE "failed"]
    /\ UNCHANGED <<cluster, asks, got, names>>

-----------------------------------------------------------------------------
Init ==
    /\ cluster = {}
    /\ pc = [c \in Callers |-> "idle"]
    /\ asks \in [Callers -> Request]
    /\ got = [c \in Callers |-> None]
    /\ names = [c \in Callers |-> {}]

Next ==
    \E c \in Callers :
        GetSecret(c) \/ SetSecret(c) \/ DeleteSecret(c) \/ ListSecrets(c) \/ ClearNext(c)

Spec == Init /\ [][Next]_vars

-----------------------------------------------------------------------------
\* The cluster has one secret of a name in a namespace.
TypeOK ==
    /\ cluster \subseteq Secret
    /\ \A s, t \in cluster : s.namespace = t.namespace /\ s.name = t.name => s = t
    /\ pc \in [Callers -> {"idle", "clearing", "done", "failed"}]
    /\ asks \in [Callers -> Request]
    /\ got \in [Callers -> Workspaces \cup {None}]
    /\ names \in [Callers -> SUBSET {s.name : s \in Secret}]

\* Two ids may give one name in a shared namespace, and yet no workspace is given
\* another's secret (get_secret compares the label).
GivenItsOwn == \A c \in Callers : got[c] \in {asks[c].workspace, None}

\* "Secret already exists, so update it" (set_secret): a workspace may set a secret
\* that is its own already.
ExistingIsUpdated ==
    [][\A c \in Callers :
        Begins(c, "set") /\ (\E s \in Called(asks[c].workspace, asks[c].path) :
                                s.of = asks[c].workspace)
            => pc'[c] # "failed"]_vars

\* "Secret not found, nothing to delete" (delete_secret): a deletion does not fail
\* for want of a secret.
MissingIsDeleted ==
    [][\A c \in Callers : Begins(c, "delete") => pc'[c] # "failed"]_vars

=============================================================================
