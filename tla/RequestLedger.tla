---------------------------- MODULE RequestLedger ----------------------------
(***************************************************************************)
(* What the conversation table promises its readers, whatever happens to   *)
(* the handlers that write it: a ledger in which every entry is atomic.    *)
(* A request is opened; it is approved only after its access has been      *)
(* provisioned; it is handed over to a data owner in one entry that        *)
(* creates the owner's conversation, already briefed, and completes the    *)
(* requester's; and it may be denied, cancelled, archived and reopened.    *)
(* Nothing is said here of transactions, locks, tools or routes.           *)
(*                                                                         *)
(* The ledger does not promise that an entry only closes an active         *)
(* conversation: the code does not keep that (see AccessRequest).          *)
(***************************************************************************)
CONSTANTS Convs, NoConv, NoRow

VARIABLES
    conversations,  \* the entries
    granted,        \* requests whose access has been provisioned
    briefed         \* conversations whose agent knows what the request is

vars == <<conversations, granted, briefed>>

Exists(c) == conversations[c] # NoRow

Open(type, previous) == [type |-> type, status |-> "active", previous |-> previous]

WithStatus(c, status) == [conversations[c] EXCEPT !.status = status]

SetStatus(c, status) ==
    /\ Exists(c)
    /\ conversations' = [conversations EXCEPT ![c] = WithStatus(c, status)]
    /\ UNCHANGED <<granted, briefed>>

\* A requester opens a conversation.
OpenRequest(c) ==
    /\ ~Exists(c)
    /\ conversations' = [conversations EXCEPT ![c] = Open("recommendation", NoConv)]
    /\ UNCHANGED <<granted, briefed>>

\* The external system gives the access.
Provision(c) ==
    /\ Exists(c)
    /\ granted' = granted \cup {c}
    /\ UNCHANGED <<conversations, briefed>>

\* The briefing of a conversation is written before the conversation appears.
Brief(d) ==
    /\ ~Exists(d)
    /\ briefed' = briefed \cup {d}
    /\ UNCHANGED <<conversations, granted>>

\* The request c goes to the data owner, in conversation d.
HandOver(c, d) ==
    /\ Exists(c)
    /\ conversations[c].type = "recommendation"
    /\ ~Exists(d)
    /\ d \in briefed
    /\ conversations' = [conversations EXCEPT
                            ![c] = WithStatus(c, "completed"),
                            ![d] = Open("dataowner", c)]
    /\ UNCHANGED <<granted, briefed>>

Approve(c) == c \in granted /\ SetStatus(c, "approved")

Deny(d) == Exists(d) /\ conversations[d].type = "dataowner" /\ SetStatus(d, "denied")

Cancel(c) == SetStatus(c, "cancelled")

\* The data owner's conversation is cancelled together with the requester's.
CancelBoth(c, d) ==
    /\ Exists(c)
    /\ Exists(d)
    /\ conversations[d].previous = c
    /\ conversations' = [conversations EXCEPT
                            ![c] = WithStatus(c, "cancelled"),
                            ![d] = WithStatus(d, "cancelled")]
    /\ UNCHANGED <<granted, briefed>>

Archive(c) == SetStatus(c, "archived")
Reopen(c) == SetStatus(c, "active")

Init ==
    /\ conversations = [c \in Convs |-> NoRow]
    /\ granted = {}
    /\ briefed = {}

Next ==
    \E c \in Convs :
        \/ OpenRequest(c)
        \/ Provision(c)
        \/ Brief(c)
        \/ Approve(c)
        \/ Deny(c)
        \/ Cancel(c)
        \/ Archive(c)
        \/ Reopen(c)
        \/ \E d \in Convs : HandOver(c, d) \/ CancelBoth(c, d)

Spec == Init /\ [][Next]_vars

=============================================================================
