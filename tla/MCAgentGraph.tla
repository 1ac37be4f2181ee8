----------------------------- MODULE MCAgentGraph -----------------------------
(***************************************************************************)
(* The instances of AgentGraph that TLC explores.  Turns that overlap      *)
(* start from one checkpoint, and the last to save it wins: a history      *)
(* variable tells their behaviours from those of one turn after the other. *)
(***************************************************************************)
EXTENDS AgentGraph

VARIABLE overlapped     \* whether two turns were ever under way at once

\* Two turns are under way.
Overlap == \E v, w \in Workers : v # w /\ node[v] # "idle" /\ node[w] # "idle"

HistoryInit == Init /\ overlapped = FALSE

HistoryNext ==
    /\ Next
    /\ overlapped' = (overlapped \/ Overlap')

HistorySpec ==
    /\ HistoryInit
    /\ [][HistoryNext]_<<vars, overlapped>>
    /\ \A w \in Workers : WF_vars(Step(w))

-----------------------------------------------------------------------------
\* Agents answer what was accepted and read what was judged.  And while turns come
\* one after the other, the rejected messages they read are marked as rejected.
GuardrailIsHeeded == AgentsReadWhatWasJudged /\ (~overlapped => RejectionsAreMarked)

\* While turns come one after the other, whatever fails in between, what the user
\* can read back of the conversation is what its agents remember.
AloneHistoryIsRemembered == ~overlapped => HistoryIsRemembered

=============================================================================
