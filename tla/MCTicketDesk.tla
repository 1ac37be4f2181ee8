---------------------------- MODULE MCTicketDesk ----------------------------
\* The instances of TicketDesk that TLC explores.
EXTENDS TicketDesk, TLC

\* People and turns are interchangeable.
Symmetry == Permutations(People) \cup Permutations(Requests)

=============================================================================
