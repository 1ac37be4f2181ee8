---------------------------- MODULE MCSlackThreads ----------------------------
(***************************************************************************)
(* The instances of SlackThreads that TLC explores.  Nothing but the order *)
(* of the steps keeps a thread to one conversation: a history variable     *)
(* tells the behaviours in which listeners have overlapped from those in   *)
(* which every event was handled before the next one was taken.            *)
(***************************************************************************)
EXTENDS SlackThreads, TLC

VARIABLE overlapped     \* whether two listeners were ever at work at once

\* Threads, conversations and listeners are interchangeable.
Symmetry == Permutations(Threads) \cup Permutations(Convs) \cup Permutations(Listeners)

Overlap == \E l, m \in Listeners : l # m /\ pc[l] # "idle" /\ pc[m] # "idle"

HistoryInit == Init /\ overlapped = FALSE

HistoryNext ==
    /\ Next
    /\ overlapped' = (overlapped \/ Overlap')

HistorySpec == HistoryInit /\ [][HistoryNext]_<<vars, overlapped>>

-----------------------------------------------------------------------------
\* While events are handled one after the other, a thread has one conversation in
\* a workspace, although external_id has no unique index; and what the data owner
\* writes in the thread of a ticket reaches the request that was handed over with
\* it, also after hand-overs that failed once their ticket was posted and after
\* conversations that have ended.
AloneThreadsLeadHome ==
    ~overlapped => OneConversationEach /\ OwnerReachesTheRequest

=============================================================================
