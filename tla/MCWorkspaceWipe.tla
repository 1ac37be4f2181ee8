--------------------------- MODULE MCWorkspaceWipe ---------------------------
\* The instances of WorkspaceWipe that TLC explores.
EXTENDS WorkspaceWipe, TLC

\* Clients of one kind are interchangeable, and so are the secrets.
Symmetry ==
    Permutations(Deleters) \cup Permutations(Writers)
        \cup Permutations(Authors) \cup Permutations(Secrets)

=============================================================================
