--------------------------- MODULE SlackThreads_proofs ---------------------------
(***************************************************************************)
(* For any users, workspaces, threads and listeners: whatever the events   *)
(* interleave, nobody speaks in a conversation of somebody else.  While no *)
(* two listeners are at work at once, a thread has one conversation in a   *)
(* workspace, and a data owner's answer reaches the request.               *)
(***************************************************************************)
EXTENDS MCSlackThreads, TLAPS

\* An event that waits or is handled has somebody who wrote it.
EventsHaveWriters ==
    /\ \A t \in Threads : inbox[t] > 0 => writer[t] # None
    /\ \A l \in Listeners : pc[l] # "idle" => writer[at[l]] # None

\* A listener inserts for a sender who has a workspace, a turn runs in a
\* conversation that is there, and a ticket is in its owner's messages.
ListenersAreReady ==
    \A l \in Listeners :
        /\ pc[l] = "insert" => home[writer[at[l]]] # None
        /\ pc[l] \in {"turn", "ticket"} => conv[l] \in Ids
        /\ pc[l] = "ticket" => opened[l] # None /\ writer[opened[l][1]] = opened[l][2]

\* The thread of a conversation is in the messages of its assignee, and a message
\* reaches a conversation of its thread.
RowsAreAtHome == \A c \in Ids : writer[conversations[c].thread] = conversations[c].assignee
HeardInItsThread ==
    \A h \in heard : /\ h[1] \in Threads /\ h[2] \in Ids
                     /\ conversations[h[2]].thread = h[1]
                     /\ conversations[h[2]].ws = home[writer[h[1]]]

IInv ==
    /\ TypeOK
    /\ EventsHaveWriters
    /\ ListenersAreReady
    /\ RowsAreAtHome
    /\ HeardInItsThread

\* A row is somebody's conversation, and no row is None.
LEMMA RowIsNotNone ==
    /\ \A r \in Row : r # None
    /\ \A o \in Threads \X Users : o # None
    /\ None \notin Users \cup Workspaces \cup Threads \cup Convs
BY NoneIsNothing

\* What the invariant says of a message that was heard.
LEMMA HeardBySender ==
    ASSUME IInv PROVE ReachesItsSenders
BY DEF IInv, ReachesItsSenders, HeardInItsThread, RowsAreAtHome

\* Nothing is there at the start.
LEMMA InitOK == Init => IInv
<1> SUFFICES ASSUME Init PROVE IInv
    OBVIOUS
<1>1. TypeOK
    BY MaxInboxIsNat DEF Init, TypeOK
<1> QED
    BY <1>1 DEF Init, IInv, EventsHaveWriters, ListenersAreReady, RowsAreAtHome,
        HeardInItsThread, Ids

\* A user writes: a thread stays with whoever began it.
LEMMA WriteOK ==
    ASSUME IInv, NEW u \in Users, NEW t \in Threads, Write(u, t)
    PROVE IInv'
<1> USE MaxInboxIsNat, RowIsNotNone DEF IInv, Write
<1>1. ASSUME NEW s \in Threads, writer[s] # None PROVE writer'[s] = writer[s]
    BY <1>1 DEF TypeOK
<1>2. TypeOK'
    BY DEF TypeOK
<1>3. Ids' = Ids /\ \A c \in Ids : conversations[c] \in Row
    BY DEF Ids, TypeOK
<1>4. EventsHaveWriters'
    BY <1>1 DEF TypeOK, EventsHaveWriters
<1>5. ListenersAreReady'
    BY <1>1, <1>3 DEF TypeOK, EventsHaveWriters, ListenersAreReady
<1>6. RowsAreAtHome'
    BY <1>1, <1>3 DEF Row, RowsAreAtHome
<1>7. HeardInItsThread'
    BY <1>1, <1>3 DEF Row, RowsAreAtHome, HeardInItsThread
<1> QED
    BY <1>2, <1>4, <1>5, <1>6, <1>7

\* A listener takes an event.
LEMMA TakeOK ==
    ASSUME IInv, NEW l \in Listeners, NEW t \in Threads, Take(l, t)
    PROVE IInv'
<1> USE MaxInboxIsNat, RowIsNotNone DEF IInv, Take, Goto
<1>1. TypeOK'
    BY DEF TypeOK
<1>2. EventsHaveWriters'
    BY DEF TypeOK, EventsHaveWriters
<1>3. ListenersAreReady'
    BY DEF TypeOK, ListenersAreReady, Ids
<1>4. RowsAreAtHome' /\ HeardInItsThread'
    BY DEF RowsAreAtHome, HeardInItsThread, Ids
<1> QED
    BY <1>1, <1>2, <1>3, <1>4

\* A listener that is over forgets; nothing else changes.
LEMMA FinishOK ==
    ASSUME IInv, NEW l \in Listeners, Finish(l), UNCHANGED <<home, slack, conversations, heard>>
    PROVE IInv'
<1> USE RowIsNotNone DEF IInv, Finish, Goto, slack
<1>1. TypeOK'
    BY DEF TypeOK
<1>2. EventsHaveWriters' /\ ListenersAreReady'
    BY DEF TypeOK, EventsHaveWriters, ListenersAreReady, Ids
<1>3. RowsAreAtHome' /\ HeardInItsThread'
    BY DEF RowsAreAtHome, HeardInItsThread, Ids
<1> QED
    BY <1>1, <1>2, <1>3

\* The conversation that is found is one of the thread, in the sender's workspace.
LEMMA FindActiveOK ==
    ASSUME IInv, NEW l \in Listeners, FindActive(l)
    PROVE IInv'
<1> USE RowIsNotNone DEF IInv, FindActive, BeginTurn, Goto, slack
<1> PICK c \in Found(l) : BeginTurn(l, c)
    OBVIOUS
<1>1. /\ c \in Ids /\ c \in Convs /\ at[l] \in Threads
      /\ conversations[c].ws = home[writer[at[l]]] /\ conversations[c].thread = at[l]
    BY DEF Found, Ids, TypeOK
<1>2. TypeOK'
    BY <1>1 DEF TypeOK
<1>3. EventsHaveWriters' /\ ListenersAreReady'
    BY <1>1 DEF TypeOK, EventsHaveWriters, ListenersAreReady, Ids
<1>4. RowsAreAtHome' /\ HeardInItsThread'
    BY <1>1 DEF RowsAreAtHome, HeardInItsThread, Ids
<1> QED
    BY <1>2, <1>3, <1>4

\* The thread has none.
LEMMA FindNoneOK ==
    ASSUME IInv, NEW l \in Listeners, FindNone(l)
    PROVE IInv'
<1> USE DEF IInv, FindNone, Goto, slack
<1>1. TypeOK'
    BY DEF TypeOK
<1>2. EventsHaveWriters' /\ ListenersAreReady'
    BY DEF TypeOK, EventsHaveWriters, ListenersAreReady, Ids
<1>3. RowsAreAtHome' /\ HeardInItsThread'
    BY DEF RowsAreAtHome, HeardInItsThread, Ids
<1> QED
    BY <1>1, <1>2, <1>3

\* And is given one, assigned to its writer.
LEMMA InsertConversationOK ==
    ASSUME IInv, NEW l \in Listeners, NEW c \in Convs, InsertConversation(l, c)
    PROVE IInv'
<1> USE RowIsNotNone DEF IInv, InsertConversation, BeginTurn, Goto, slack
<1> DEFINE row == [ws |-> home[writer[at[l]]], thread |-> at[l], assignee |-> writer[at[l]],
                   type |-> "recommendation", active |-> TRUE]
<1>1. at[l] \in Threads /\ writer[at[l]] \in Users /\ home[writer[at[l]]] \in Workspaces
    BY DEF TypeOK, EventsHaveWriters, ListenersAreReady
<1>2. row \in Row
    BY <1>1 DEF Row
<1>3. /\ \A d \in Convs : conversations'[d] = IF d = c THEN row ELSE conversations[d]
      /\ c \notin Ids /\ Ids' = Ids \cup {c}
    <2>1. \A d \in Convs : conversations'[d] = IF d = c THEN row ELSE conversations[d]
        BY DEF TypeOK
    <2> HIDE DEF row
    <2>2. row # None
        BY <1>2
    <2> QED
        BY <2>1, <2>2 DEF Ids, Free
<1>4. TypeOK'
    BY <1>1, <1>2 DEF TypeOK
<1>5. EventsHaveWriters' /\ ListenersAreReady'
    BY <1>3 DEF TypeOK, EventsHaveWriters, ListenersAreReady
<1>6. RowsAreAtHome'
    BY <1>3 DEF Ids, RowsAreAtHome
<1>7. HeardInItsThread'
    BY <1>1, <1>3 DEF Ids, HeardInItsThread
<1> QED
    BY <1>4, <1>5, <1>6, <1>7

\* The ticket begins a thread of its owner's.
LEMMA PostTicketOK ==
    ASSUME IInv, NEW l \in Listeners, NEW o \in Users, NEW t \in Threads, PostTicket(l, o, t)
    PROVE IInv'
<1> USE RowIsNotNone DEF IInv, PostTicket, Goto
<1>1. ASSUME NEW s \in Threads, writer[s] # None PROVE writer'[s] = writer[s]
    BY <1>1 DEF TypeOK
<1>2. TypeOK'
    BY DEF TypeOK
<1>3. Ids' = Ids /\ \A c \in Ids : conversations[c] \in Row
    BY DEF Ids, TypeOK
<1>4. EventsHaveWriters'
    BY <1>1 DEF TypeOK, EventsHaveWriters
<1>5. ListenersAreReady'
    BY <1>1, <1>3 DEF TypeOK, EventsHaveWriters, ListenersAreReady
<1>6. RowsAreAtHome'
    BY <1>1, <1>3 DEF Row, RowsAreAtHome
<1>7. HeardInItsThread'
    BY <1>1, <1>3 DEF Row, RowsAreAtHome, HeardInItsThread
<1> QED
    BY <1>2, <1>4, <1>5, <1>6, <1>7

\* The owner's conversation is in that thread; the requester's has ended.
LEMMA HandOverOK ==
    ASSUME IInv, NEW l \in Listeners, NEW c \in Convs, HandOver(l, c)
    PROVE IInv'
<1> USE RowIsNotNone DEF IInv, HandOver, Goto, slack
<1> DEFINE row == [ws |-> conversations[conv[l]].ws, thread |-> opened[l][1],
                   assignee |-> opened[l][2], type |-> "dataowner", active |-> TRUE]
           ended == [conversations[conv[l]] EXCEPT !.active = FALSE]
<1>1. /\ opened[l] \in Threads \X Users /\ writer[opened[l][1]] = opened[l][2]
      /\ conv[l] \in Ids /\ conv[l] \in Convs /\ conv[l] # c
    BY DEF TypeOK, ListenersAreReady, Ids, Free
<1>2. row \in Row /\ ended \in Row
    <2>1. conversations[conv[l]] \in Row
        BY <1>1 DEF TypeOK, Ids
    <2>2. opened[l][1] \in Threads /\ opened[l][2] \in Users
        BY <1>1
    <2> QED
        BY <2>1, <2>2 DEF Row
<1>3. /\ \A d \in Convs : conversations'[d] = IF d = c THEN row
                                              ELSE IF d = conv[l] THEN ended
                                              ELSE conversations[d]
      /\ c \notin Ids /\ Ids' = Ids \cup {c}
    <2>1. \A d \in Convs : conversations'[d] = IF d = c THEN row
                                              ELSE IF d = conv[l] THEN ended
                                              ELSE conversations[d]
        BY <1>1 DEF TypeOK
    <2> HIDE DEF row, ended
    <2>2. row # None /\ ended # None
        BY <1>2
    <2>3. ASSUME NEW d \in Convs
          PROVE conversations'[d] # None <=> d = c \/ conversations[d] # None
        BY <1>1, <2>1, <2>2 DEF Ids
    <2>4. Ids' = Ids \cup {c}
        BY <2>3 DEF Ids
    <2> QED
        BY <2>1, <2>4 DEF Ids, Free
<1>4. TypeOK'
    BY <1>1, <1>2 DEF TypeOK
<1>5. EventsHaveWriters' /\ ListenersAreReady'
    BY <1>3 DEF TypeOK, EventsHaveWriters, ListenersAreReady
<1>6. ended.thread = conversations[conv[l]].thread /\ ended.ws = conversations[conv[l]].ws
        /\ ended.assignee = conversations[conv[l]].assignee
    BY <1>1 DEF TypeOK, Row, Ids
<1>7. row.thread = opened[l][1] /\ row.assignee = opened[l][2]
    OBVIOUS
<1> HIDE DEF row, ended
<1>8. ASSUME NEW d \in Ids
      PROVE /\ d \in Convs
            /\ conversations'[d].thread = conversations[d].thread
            /\ conversations'[d].ws = conversations[d].ws
            /\ conversations'[d].assignee = conversations[d].assignee
    BY <1>3, <1>6 DEF Ids
<1>9. RowsAreAtHome'
    <2>1. UNCHANGED writer /\ conversations'[c] = row
        BY <1>3
    <2>2. writer'[conversations'[c].thread] = conversations'[c].assignee
        BY <1>1, <1>7, <2>1
    <2>3. ASSUME NEW d \in Ids
          PROVE writer'[conversations'[d].thread] = conversations'[d].assignee
        BY <1>8, <2>1 DEF RowsAreAtHome
    <2> QED
        BY <1>3, <2>2, <2>3 DEF RowsAreAtHome
<1>10. HeardInItsThread'
    BY <1>3, <1>8 DEF HeardInItsThread
<1> QED
    BY <1>4, <1>5, <1>9, <1>10

\* Or there is none.
LEMMA HandOverFailsOK ==
    ASSUME IInv, NEW l \in Listeners, HandOverFails(l)
    PROVE IInv'
<1> USE DEF IInv, HandOverFails, Goto, slack
<1>1. TypeOK'
    BY DEF TypeOK
<1>2. EventsHaveWriters' /\ ListenersAreReady'
    BY DEF TypeOK, EventsHaveWriters, ListenersAreReady, Ids
<1>3. RowsAreAtHome' /\ HeardInItsThread'
    BY DEF RowsAreAtHome, HeardInItsThread, Ids
<1> QED
    BY <1>1, <1>2, <1>3

\* A decision ends the owner's conversation, and moves it nowhere.
LEMMA DecideOK ==
    ASSUME IInv, NEW l \in Listeners, Decide(l)
    PROVE IInv'
<1> USE RowIsNotNone DEF IInv, Decide, slack
<1> DEFINE ended == [conversations[conv[l]] EXCEPT !.active = FALSE]
<1>1. conv[l] \in Ids /\ conv[l] \in Convs /\ conversations[conv[l]] \in Row
    BY DEF TypeOK, ListenersAreReady, Ids
<1>2. /\ ended \in Row /\ ended.thread = conversations[conv[l]].thread
      /\ ended.ws = conversations[conv[l]].ws
      /\ ended.assignee = conversations[conv[l]].assignee
    BY <1>1 DEF Row
<1>3. /\ \A d \in Convs : conversations'[d] = IF d = conv[l] THEN ended ELSE conversations[d]
      /\ Ids' = Ids
    BY <1>1, <1>2 DEF TypeOK, Ids
<1>4. TypeOK'
    BY <1>1, <1>2 DEF TypeOK
<1>5. EventsHaveWriters' /\ ListenersAreReady'
    BY <1>3 DEF EventsHaveWriters, ListenersAreReady
<1>6. RowsAreAtHome' /\ HeardInItsThread'
    BY <1>1, <1>2, <1>3 DEF Ids, RowsAreAtHome, HeardInItsThread
<1> QED
    BY <1>4, <1>5, <1>6

\* Every step keeps the invariant.
LEMMA StepOK == IInv /\ [Next]_vars => IInv'
<1> SUFFICES ASSUME IInv, [Next]_vars PROVE IInv'
    OBVIOUS
<1>1. CASE UNCHANGED vars
    BY <1>1 DEF vars, slack, IInv, TypeOK, EventsHaveWriters, ListenersAreReady,
        RowsAreAtHome, HeardInItsThread, Ids
<1>2. ASSUME NEW l \in Listeners, Refuse(l) \/ FindEnded(l) \/ Answer(l) \/ Fail(l)
      PROVE IInv'
    BY <1>2, FinishOK DEF Refuse, FindEnded, Answer, Fail
<1>3. CASE Next
    BY <1>2, <1>3, WriteOK, TakeOK, FindActiveOK, FindNoneOK, InsertConversationOK,
        PostTicketOK, HandOverOK, HandOverFailsOK, DecideOK DEF Next
<1> QED
    BY <1>1, <1>3

\* The invariant holds in every reachable state.
THEOREM Inductive == Spec => []IInv
<1> QED
    BY InitOK, StepOK, PTL DEF Spec

\* Whatever listeners interleave, a message reaches a conversation of its sender,
\* in the sender's workspace (answer of the Slack router).
THEOREM MessagesReachTheirSenders == Spec => []ThreadsAreConsistent
<1>1. IInv => ThreadsAreConsistent
    BY HeardBySender DEF IInv, ThreadsAreConsistent
<1> QED
    BY <1>1, Inductive, PTL

-----------------------------------------------------------------------------
(***************************************************************************)
(* While no two listeners have been at work at once.                       *)
(***************************************************************************)

\* One listener is at work, and a thread that it found without a conversation, or
\* that it has just begun for a ticket, has none.
OneIsBusy == \A l, m \in Listeners : pc[l] # "idle" /\ pc[m] # "idle" => l = m
NoneYet ==
    \A l \in Listeners :
        /\ pc[l] = "insert" => Found(l) = {}
        /\ pc[l] = "ticket" => \A c \in Ids : conversations[c].thread # opened[l][1]

AloneInv == ~overlapped => OneIsBusy /\ OneConversationEach /\ NoneYet

\* One conversation for a thread in a workspace is all that an answer needs.
LEMMA OneIsEnough ==
    ASSUME IInv, OneConversationEach
    PROVE OwnerReachesTheRequest
BY DEF IInv, OneConversationEach, OwnerReachesTheRequest, RowsAreAtHome, HeardInItsThread, Ids

\* A step that changes no row keeps what is known of the rows.
LEMMA RowsStay ==
    ASSUME UNCHANGED conversations, OneConversationEach
    PROVE OneConversationEach' /\ Ids' = Ids
BY DEF OneConversationEach, Ids

\* The conversation that is inserted is the first of its thread in the workspace.
LEMMA InsertIsFirst ==
    ASSUME IInv, OneIsBusy, OneConversationEach, NoneYet, OneIsBusy',
           NEW l \in Listeners, NEW c \in Convs, InsertConversation(l, c)
    PROVE OneConversationEach' /\ NoneYet'
<1> USE DEF IInv, InsertConversation, BeginTurn, Goto
<1> DEFINE row == [ws |-> home[writer[at[l]]], thread |-> at[l], assignee |-> writer[at[l]],
                   type |-> "recommendation", active |-> TRUE]
<1>1. \A d \in Convs : conversations'[d] = IF d = c THEN row ELSE conversations[d]
    BY DEF TypeOK
<1>2. Ids' \subseteq Ids \cup {c} /\ c \notin Ids /\ Ids \subseteq Convs
    BY <1>1 DEF Ids, Free
<1>3. ASSUME NEW d \in Ids
      PROVE ~(conversations[d].ws = row.ws /\ conversations[d].thread = row.thread)
    BY DEF NoneYet, Found
<1>4. NoneYet'
    BY DEF TypeOK, OneIsBusy, NoneYet
<1> HIDE DEF row
<1>5. OneConversationEach'
    BY <1>1, <1>2, <1>3 DEF OneConversationEach
<1> QED
    BY <1>4, <1>5

\* And so is the conversation that is handed over.
LEMMA HandOverIsFirst ==
    ASSUME IInv, OneIsBusy, OneConversationEach, NoneYet, OneIsBusy',
           NEW l \in Listeners, NEW c \in Convs, HandOver(l, c)
    PROVE OneConversationEach' /\ NoneYet'
<1> USE DEF IInv, HandOver, Goto
<1> DEFINE row == [ws |-> conversations[conv[l]].ws, thread |-> opened[l][1],
                   assignee |-> opened[l][2], type |-> "dataowner", active |-> TRUE]
           ended == [conversations[conv[l]] EXCEPT !.active = FALSE]
<1>1. conv[l] \in Ids /\ conv[l] # c /\ conversations[conv[l]] \in Row
    BY DEF TypeOK, ListenersAreReady, Ids, Free
<1>2. \A d \in Convs : conversations'[d] = IF d = c THEN row
                                           ELSE IF d = conv[l] THEN ended
                                           ELSE conversations[d]
    BY <1>1 DEF TypeOK
<1>3. Ids' \subseteq Ids \cup {c} /\ c \notin Ids /\ Ids \subseteq Convs
    <2> HIDE DEF row, ended
    <2> QED
        BY <1>1, <1>2 DEF Ids, Free
<1>4. /\ ended.thread = conversations[conv[l]].thread
      /\ ended.ws = conversations[conv[l]].ws
      /\ row.thread = opened[l][1]
    BY <1>1 DEF Row
<1>5. \A d \in Ids : conversations[d].thread # opened[l][1]
    BY DEF NoneYet
<1>6. NoneYet'
    BY DEF TypeOK, OneIsBusy, NoneYet
<1> HIDE DEF row, ended
<1>7. OneConversationEach'
    BY <1>1, <1>2, <1>3, <1>4, <1>5 DEF OneConversationEach
<1> QED
    BY <1>6, <1>7

\* A thread that a ticket begins is nobody's, so no conversation has it.
LEMMA TicketIsFirst ==
    ASSUME IInv, OneIsBusy, OneConversationEach, NoneYet, OneIsBusy',
           NEW l \in Listeners, NEW o \in Users, NEW t \in Threads, PostTicket(l, o, t)
    PROVE OneConversationEach' /\ NoneYet'
<1> USE DEF IInv, PostTicket, Goto
<1>1. \A c \in Ids : conversations[c].thread # t
    BY RowIsNotNone DEF TypeOK, RowsAreAtHome, Ids, Row
<1>2. opened'[l] = <<t, o>>
    BY DEF TypeOK
<1>3. NoneYet'
    BY <1>1, <1>2 DEF TypeOK, OneIsBusy, NoneYet, Ids
<1> QED
    BY <1>3, RowsStay

\* What a listener has not found is still not there: it is alone.
LEMMA AloneStep == IInv /\ AloneInv /\ [HistoryNext]_<<vars, overlapped>> => AloneInv'
<1> SUFFICES ASSUME IInv, AloneInv, [HistoryNext]_<<vars, overlapped>>, ~overlapped'
             PROVE OneIsBusy' /\ OneConversationEach' /\ NoneYet'
    BY DEF AloneInv
<1>1. CASE UNCHANGED <<vars, overlapped>>
    BY <1>1 DEF vars, slack, AloneInv, OneIsBusy, OneConversationEach, NoneYet, Found, Ids
<1>2. CASE HistoryNext
    <2> USE DEF IInv
    <2>1. OneIsBusy /\ OneConversationEach /\ NoneYet /\ OneIsBusy' /\ Next
        BY <1>2 DEF AloneInv, HistoryNext, Overlap, OneIsBusy
    <2>2. ASSUME NEW u \in Users, NEW t \in Threads, Write(u, t)
          PROVE OneConversationEach' /\ NoneYet'
        <3>1. \A l \in Listeners : pc[l] # "idle" => writer'[at[l]] = writer[at[l]]
            BY <2>2 DEF TypeOK, Write, EventsHaveWriters
        <3>2. NoneYet'
            BY <2>1, <2>2, <3>1 DEF Write, NoneYet, Found, Ids
        <3> QED
            BY <2>1, <2>2, <3>2, RowsStay DEF Write
    <2>3. ASSUME NEW l \in Listeners, NEW t \in Threads, Take(l, t)
          PROVE OneConversationEach' /\ NoneYet'
        <3>1. NoneYet'
            BY <2>1, <2>3 DEF TypeOK, Take, Goto, OneIsBusy, NoneYet
        <3> QED
            BY <2>1, <2>3, <3>1, RowsStay DEF Take
    <2>4. ASSUME NEW l \in Listeners,
                 \/ Refuse(l) \/ FindActive(l) \/ FindEnded(l)
                 \/ HandOverFails(l) \/ Answer(l) \/ Fail(l)
          PROVE OneConversationEach' /\ NoneYet'
        <3>1. /\ pc'[l] \notin {"insert", "ticket"}
              /\ \A m \in Listeners \ {l} : pc'[m] = pc[m]
              /\ UNCHANGED conversations
            BY <2>4 DEF TypeOK, Refuse, FindActive, BeginTurn, FindEnded, HandOverFails, Answer,
                Fail, Finish, Goto
        <3>2. pc[l] # "idle"
            BY <2>4 DEF Refuse, FindActive, FindEnded, HandOverFails, Answer, Fail
        <3>3. NoneYet'
            BY <2>1, <3>1, <3>2 DEF TypeOK, OneIsBusy, NoneYet
        <3> QED
            BY <2>1, <3>1, <3>3, RowsStay
    <2>5. ASSUME NEW l \in Listeners, FindNone(l)
          PROVE OneConversationEach' /\ NoneYet'
        <3>1. NoneYet'
            BY <2>1, <2>5 DEF TypeOK, FindNone, Goto, slack, OneIsBusy, NoneYet, Found, Ids
        <3> QED
            BY <2>1, <2>5, <3>1, RowsStay DEF FindNone
    <2>6. ASSUME NEW l \in Listeners, Decide(l)
          PROVE OneConversationEach' /\ NoneYet'
        <3> DEFINE ended == [conversations[conv[l]] EXCEPT !.active = FALSE]
        <3>1. conv[l] \in Ids /\ conversations[conv[l]] \in Row /\ Ids \subseteq Convs
            BY <2>6 DEF Decide, TypeOK, ListenersAreReady, Ids
        <3>2. \A d \in Convs :
                conversations'[d] = IF d = conv[l] THEN ended ELSE conversations[d]
            BY <2>6 DEF Decide, TypeOK
        <3>3. /\ ended.thread = conversations[conv[l]].thread
              /\ ended.ws = conversations[conv[l]].ws
            BY <3>1 DEF Row
        <3> HIDE DEF ended
        <3>4. Ids' \subseteq Ids
            BY <3>1, <3>2 DEF Ids
        <3>5. OneConversationEach'
            BY <2>1, <3>1, <3>2, <3>3, <3>4 DEF OneConversationEach
        <3>6. NoneYet'
            BY <2>1, <2>6 DEF Decide, TypeOK, OneIsBusy, NoneYet
        <3> QED
            BY <3>5, <3>6
    <2> QED
        BY <2>1, <2>2, <2>3, <2>4, <2>5, <2>6, InsertIsFirst, HandOverIsFirst, TicketIsFirst
            DEF Next
<1> QED
    BY <1>1, <1>2

\* The invariant holds in every behaviour that remembers whether listeners met.
THEOREM HistoryInductive == HistorySpec => []IInv /\ []AloneInv
<1>1. HistoryInit => IInv /\ AloneInv
    <2>1. HistoryInit => IInv
        BY InitOK DEF HistoryInit
    <2>2. HistoryInit => AloneInv
        BY DEF HistoryInit, Init, AloneInv, OneIsBusy, OneConversationEach, NoneYet, Ids
    <2> QED
        BY <2>1, <2>2
<1>2. [HistoryNext]_<<vars, overlapped>> => [Next]_vars
    BY DEF HistoryNext
<1> QED
    BY <1>1, <1>2, StepOK, AloneStep, PTL DEF HistorySpec

\* Nobody speaks in a conversation of somebody else, as it is checked with the
\* history variable.
THEOREM HistoryReachesItsSenders == HistorySpec => []ThreadsAreConsistent
<1>1. IInv => ThreadsAreConsistent
    BY HeardBySender DEF IInv, ThreadsAreConsistent
<1> QED
    BY <1>1, HistoryInductive, PTL

\* While events are handled one after the other, a thread has one conversation in
\* a workspace, and what the data owner writes about a ticket reaches the request.
THEOREM ThreadsLeadHome == HistorySpec => []AloneThreadsLeadHome
<1>1. IInv /\ AloneInv => AloneThreadsLeadHome
    BY OneIsEnough DEF AloneInv, AloneThreadsLeadHome
<1> QED
    BY <1>1, HistoryInductive, PTL

=============================================================================
