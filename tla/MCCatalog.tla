------------------------------ MODULE MCCatalog ------------------------------
\* The instances of Catalog that TLC explores.
EXTENDS Catalog, TLC

\* Clients and old rows are interchangeable.  Workspaces are not: the external id of
\* all of them is the id of one.
Symmetry == Permutations(Clients) \cup Permutations(Walkers) \cup Permutations(Old)

OneForAll == [h \in Homes |-> CHOOSE one \in Homes : TRUE]

TwoNames == 1 .. 2
ThreeNames == 1 .. 3

=============================================================================
