--------------------------- MODULE MCAccessHistory ---------------------------
(***************************************************************************)
(* The instance of AccessRequest with two history variables.  One tells    *)
(* the behaviours in which handlers have overlapped from those in which    *)
(* each was over before the next one began: what the routes and the        *)
(* statuses' documentation promise holds of the latter only.  The other    *)
(* tells the turn that has handed its request over from the others.        *)
(***************************************************************************)
EXTENDS MCAccessRequest

VARIABLES
    overlapped,     \* whether two handlers were ever under way at once
    handed          \* whether each worker's turn has handed its request over

\* Two handlers are under way.
Overlap == \E v, w \in Workers : v # w /\ pc[v] # "idle" /\ pc[w] # "idle"

HistoryInit == Init /\ overlapped = FALSE /\ handed = [w \in Workers |-> FALSE]

HistoryNext ==
    /\ Next
    /\ overlapped' = (overlapped \/ Overlap')
    /\ handed' = [w \in Workers |->
                    pc'[w] # "idle" /\ (handed[w] \/ \E d \in Inserted(w) : Committed(d)')]

HistorySpec == HistoryInit /\ [][HistoryNext]_<<vars, overlapped, handed>>

-----------------------------------------------------------------------------
\* A data owner was given the request of c, whatever became of it.
HandedOver(c) ==
    \E d \in Convs :
        Committed(d) /\ conversations[d].type = "dataowner" /\ conversations[d].previous = c

\* While handlers come one after the other, a request that a data owner can still
\* decide is closed for its requester; and once a request was handed over, the only
\* turn ever at work on it is the one that did so.  That turn may hand it over once
\* more, as no tool tests the status (request_access); no later one can, be the owner
\* still to decide or not.
AloneOpenHandOverIsClosed ==
    ~overlapped =>
        /\ OpenHandOverIsClosedForRequester
        /\ \A w \in Workers :
            pc[w] \in {"turn"} \cup InTool /\ HandedOver(cid[w]) => handed[w]

\* While they do, a conversation that cancel_conv or archive_conv writes is active
\* when it is written, and one that unarchive_conv writes is archived, as their
\* messages say, though each tests the status before it has the row.
AloneRoutesActOnWhatTheyRead ==
    [][~overlapped =>
        \A w \in Workers, c \in Convs :
            /\ Publishes(w, "cancel_commit", c) \/ Publishes(w, "archive_commit", c)
                   => IsActive(c)
            /\ Publishes(w, "unarchive_commit", c) => IsArchived(c)]_vars

=============================================================================
