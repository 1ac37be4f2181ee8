--------------------------- MODULE MCAccessRequest ---------------------------
(***************************************************************************)
(* Small instances of AccessRequest for TLC.                               *)
(***************************************************************************)
EXTENDS AccessRequest, TLC

\* Conversations and handlers are only compared: any renaming is a symmetry.
Symmetry == Permutations(Convs) \cup Permutations(Workers)

=============================================================================
