------------------------------ MODULE MCRuleStore ------------------------------
\* The instances of RuleStore that TLC explores.
EXTENDS RuleStore, TLC

\* Rules and workers are interchangeable: no definition singles one out.
Symmetry == Permutations(Rules) \cup Permutations(Workers)

=============================================================================
