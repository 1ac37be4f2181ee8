----------------------------- MODULE SlackThreads -----------------------------
(***************************************************************************)
(* Which conversation a message in Slack belongs to.  A thread in a user's *)
(* direct messages with the bot stands for one conversation: the one whose *)
(* external_id is the thread's timestamp, in the first workspace the user  *)
(* store names for the user.  The user begins a thread by writing; a       *)
(* hand-over begins one by posting the ticket to the data owner.           *)
(*                                                                         *)
(* Events are acknowledged first and then handled, each by a listener      *)
(* thread of its own.  What an agent decides is a free choice; the status  *)
(* of a conversation is modelled as far as a thread is affected by it      *)
(* (AccessRequest has the rest).  A conversation made through the portal   *)
(* has an external id of its maker's choosing: none is a thread's here.    *)
(***************************************************************************)
EXTENDS Naturals

CONSTANTS
    Users,      \* users of Slack
    Workspaces, \* workspaces of this system
    Threads,    \* timestamps that Slack gives to first messages
    Convs,      \* ids of conversations
    Listeners,  \* threads that handle events
    MaxInbox,   \* events of one thread that are under way at most
    None        \* no value

Row == [ws : Workspaces, thread : Threads, assignee : Users,
        type : {"recommendation", "dataowner"}, active : BOOLEAN]

ASSUME NoneIsNothing ==
    None \notin Users \cup Workspaces \cup Threads \cup Convs \cup Row \cup (Threads \X Users)

ASSUME MaxInboxIsNat == MaxInbox \in Nat

VARIABLES
    home,           \* the first workspace of each user, or None
    writer,         \* in whose direct messages a thread is, None before it begins
    inbox,          \* events of each thread that no listener has taken yet
    conversations,  \* the committed rows
    pc,             \* where each listener is
    at,             \* the thread each listener answers in
    conv,           \* the conversation it found or created
    opened,         \* the thread of the ticket that its turn has posted
    heard           \* which conversation each message reached, with its thread

slack == <<writer, inbox>>
vars == <<home, slack, conversations, pc, at, conv, opened, heard>>

Ids == {c \in Convs : conversations[c] # None}
Free == {c \in Convs : conversations[c] = None}

Goto(l, point) == pc' = [pc EXCEPT ![l] = point]

\* The listener is over and forgets what it knew.
Finish(l) ==
    /\ Goto(l, "idle")
    /\ at' = [at EXCEPT ![l] = None]
    /\ conv' = [conv EXCEPT ![l] = None]
    /\ opened' = [opened EXCEPT ![l] = None]

\* A user writes in a new thread or in one of the user's own.  An event that was
\* not acknowledged in time is delivered once more: it is like a second message.
Write(u, t) ==
    /\ writer[t] \in {None, u}
    /\ inbox[t] < MaxInbox
    /\ writer' = [writer EXCEPT ![t] = u]
    /\ inbox' = [inbox EXCEPT ![t] = @ + 1]
    /\ UNCHANGED <<home, conversations, pc, at, conv, opened, heard>>

\* The request of Slack is acknowledged and a listener begins with the event.
Take(l, t) ==
    /\ pc[l] = "idle"
    /\ inbox[t] > 0
    /\ inbox' = [inbox EXCEPT ![t] = @ - 1]
    /\ at' = [at EXCEPT ![l] = t]
    /\ Goto(l, "find")
    /\ UNCHANGED <<home, writer, conversations, conv, opened, heard>>

\* The sender is not registered or belongs to no workspace, and is told so.
Refuse(l) ==
    /\ pc[l] = "find"
    /\ home[writer[at[l]]] = None
    /\ Finish(l)
    /\ UNCHANGED <<home, slack, conversations, heard>>

\* The turn runs in conversation c.
BeginTurn(l, c) ==
    /\ Goto(l, "turn")
    /\ conv' = [conv EXCEPT ![l] = c]
    /\ heard' = heard \cup {<<at[l], c>>}

\* Slip: conversations that have ended are not looked for.
FoundActive(l) ==
    {c \in Ids : /\ conversations[c].ws = home[writer[at[l]]]
                 /\ conversations[c].thread = at[l]
                 /\ conversations[c].active}

\* Slip: the conversation of a data owner is not looked for.
FoundOwn(l) ==
    {c \in Ids : /\ conversations[c].ws = home[writer[at[l]]]
                 /\ conversations[c].thread = at[l]
                 /\ conversations[c].type = "recommendation"}

\* What get_by_external_id may return: it takes one row, in no order.
Found(l) ==
    {c \in Ids : /\ conversations[c].ws = home[writer[at[l]]]
                 /\ conversations[c].thread = at[l]}

\* Slip: what was found is not kept.
FindAndForget(l) ==
    /\ pc[l] = "find"
    /\ \E c \in Found(l) : conversations[c].active
    /\ Goto(l, "turn")
    /\ UNCHANGED <<home, slack, conversations, at, conv, opened, heard>>

\* The thread has a conversation that is active.
FindActive(l) ==
    /\ pc[l] = "find"
    /\ \E c \in Found(l) : conversations[c].active /\ BeginTurn(l, c)
    /\ UNCHANGED <<home, slack, conversations, at, opened>>

\* "This conversation has ended, please start a new one."
FindEnded(l) ==
    /\ pc[l] = "find"
    /\ \E c \in Found(l) : ~conversations[c].active
    /\ Finish(l)
    /\ UNCHANGED <<home, slack, conversations, heard>>

\* The thread has none.  The transaction that looked is over when one is inserted.
FindNone(l) ==
    /\ pc[l] = "find"
    /\ home[writer[at[l]]] # None
    /\ Found(l) = {}
    /\ Goto(l, "insert")
    /\ UNCHANGED <<home, slack, conversations, at, conv, opened, heard>>

InsertConversation(l, c) ==
    /\ pc[l] = "insert"
    /\ c \in Free
    /\ conversations' = [conversations EXCEPT ![c] =
         [ws |-> home[writer[at[l]]], thread |-> at[l], assignee |-> writer[at[l]],
          type |-> "recommendation", active |-> TRUE]]
    /\ BeginTurn(l, c)
    /\ UNCHANGED <<home, slack, at, opened>>

\* The agent answers in the thread and the turn is committed.
Answer(l) ==
    /\ pc[l] = "turn"
    /\ Finish(l)
    /\ UNCHANGED <<home, slack, conversations, heard>>

\* Slip: the ticket is posted to the requester.
PostToRequester(l, owner, t) ==
    /\ pc[l] = "turn"
    /\ conversations[conv[l]].type = "recommendation"
    /\ writer[t] = None
    /\ writer' = [writer EXCEPT ![t] = conversations[conv[l]].assignee]
    /\ opened' = [opened EXCEPT ![l] = <<t, owner>>]
    /\ Goto(l, "ticket")
    /\ UNCHANGED <<home, inbox, conversations, at, conv, heard>>

\* request_access posts the ticket to the data owner: from here on the owner can
\* write in its thread.
PostTicket(l, owner, t) ==
    /\ pc[l] = "turn"
    /\ conversations[conv[l]].type = "recommendation"
    /\ writer[t] = None
    /\ writer' = [writer EXCEPT ![t] = owner]
    /\ opened' = [opened EXCEPT ![l] = <<t, owner>>]
    /\ Goto(l, "ticket")
    /\ UNCHANGED <<home, inbox, conversations, at, conv, heard>>

\* The hand-over is committed: the owner's conversation has the ticket's thread,
\* and the requester's has ended.
HandOver(l, c) ==
    /\ pc[l] = "ticket"
    /\ c \in Free
    /\ conversations' = [conversations EXCEPT
         ![c] = [ws |-> conversations[conv[l]].ws, thread |-> opened[l][1],
                 assignee |-> opened[l][2], type |-> "dataowner", active |-> TRUE],
         ![conv[l]].active = FALSE]
    /\ opened' = [opened EXCEPT ![l] = None]
    /\ Goto(l, "turn")
    /\ UNCHANGED <<home, slack, at, conv, heard>>

\* Or it fails.  The ticket stays, and the turn goes on.
HandOverFails(l) ==
    /\ pc[l] = "ticket"
    /\ opened' = [opened EXCEPT ![l] = None]
    /\ Goto(l, "turn")
    /\ UNCHANGED <<home, slack, conversations, at, conv, heard>>

\* The agent of a data owner approves or denies.
Decide(l) ==
    /\ pc[l] = "turn"
    /\ conversations[conv[l]].type = "dataowner"
    /\ conversations[conv[l]].active
    /\ conversations' = [conversations EXCEPT ![conv[l]].active = FALSE]
    /\ UNCHANGED <<home, slack, pc, at, conv, opened, heard>>

\* Whatever is raised is logged, and nothing is said.
Fail(l) ==
    /\ pc[l] # "idle"
    /\ Finish(l)
    /\ UNCHANGED <<home, slack, conversations, heard>>

-----------------------------------------------------------------------------
Init ==
    /\ home \in [Users -> Workspaces \cup {None}]
    /\ writer = [t \in Threads |-> None]
    /\ inbox = [t \in Threads |-> 0]
    /\ conversations = [c \in Convs |-> None]
    /\ pc = [l \in Listeners |-> "idle"]
    /\ at = [l \in Listeners |-> None]
    /\ conv = [l \in Listeners |-> None]
    /\ opened = [l \in Listeners |-> None]
    /\ heard = {}

Next ==
    \/ \E u \in Users, t \in Threads : Write(u, t)
    \/ \E l \in Listeners :
        \/ \E t \in Threads : Take(l, t)
        \/ Refuse(l) \/ FindActive(l) \/ FindEnded(l) \/ FindNone(l)
        \/ \E c \in Convs : InsertConversation(l, c) \/ HandOver(l, c)
        \/ \E o \in Users, t \in Threads : PostTicket(l, o, t)
        \/ HandOverFails(l) \/ Decide(l) \/ Answer(l) \/ Fail(l)

Spec == Init /\ [][Next]_vars

-----------------------------------------------------------------------------
\* The conversation of a listener is known exactly while a turn runs in it.
TypeOK ==
    /\ home \in [Users -> Workspaces \cup {None}]
    /\ writer \in [Threads -> Users \cup {None}]
    /\ inbox \in [Threads -> 0..MaxInbox]
    /\ conversations \in [Convs -> Row \cup {None}]
    /\ pc \in [Listeners -> {"idle", "find", "insert", "turn", "ticket"}]
    /\ at \in [Listeners -> Threads \cup {None}]
    /\ conv \in [Listeners -> Convs \cup {None}]
    /\ opened \in [Listeners -> (Threads \X Users) \cup {None}]
    /\ \A l \in Listeners : /\ pc[l] # "idle" <=> at[l] # None
                            /\ pc[l] \in {"turn", "ticket"} <=> conv[l] # None

\* Nobody speaks in a conversation of somebody else: every message reaches a
\* conversation that is assigned to its sender, in the sender's workspace.  answer
\* compares no assignee: it relies on whom the thread was opened for.
ReachesItsSenders ==
    \A h \in heard :
        /\ conversations[h[2]].assignee = writer[h[1]]
        /\ conversations[h[2]].ws = home[writer[h[1]]]

\* Whatever listeners interleave, the right people talk to each other, and every
\* variable keeps its type.
ThreadsAreConsistent == TypeOK /\ ReachesItsSenders

\* A thread has one conversation in a workspace.  Nothing but the order of the
\* steps sees to it: external_id has no unique index.
OneConversationEach ==
    \A c, d \in Ids :
        /\ conversations[c].ws = conversations[d].ws
        /\ conversations[c].thread = conversations[d].thread
        => c = d

\* What the data owner writes about a ticket reaches the request that is handed
\* over with it, if the request's workspace is the first of the owner.
OwnerReachesTheRequest ==
    \A c \in Ids, h \in heard :
        /\ conversations[c].type = "dataowner"
        /\ conversations[c].ws = home[conversations[c].assignee]
        /\ conversations[c].thread = h[1]
        => h[2] = c

=============================================================================
