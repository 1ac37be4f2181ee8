------------------------------ MODULE SecretBox ------------------------------
(***************************************************************************)
(* What VaultAPI promises: each workspace has a box of secrets, by path.   *)
(* An operation on one secret leaves every other as it is.                 *)
(***************************************************************************)
CONSTANTS Workspaces, Paths, Values, None

VARIABLE box        \* the secret of each workspace and path, or None

Init == box \in [Workspaces \X Paths -> Values \cup {None}]

SetSecret(w, p, v) == box' = [box EXCEPT ![<<w, p>>] = v]

DeleteSecret(w, p) ==
    /\ box[<<w, p>>] # None
    /\ box' = [box EXCEPT ![<<w, p>>] = None]

Next ==
    \E w \in Workspaces, p \in Paths :
        DeleteSecret(w, p) \/ \E v \in Values : SetSecret(w, p, v)

Spec == Init /\ [][Next]_box

=============================================================================
