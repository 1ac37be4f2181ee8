---------------------------- MODULE AccessRequest ----------------------------
(***************************************************************************)
(* The life of an access request: the rows of the conversation table and   *)
(* every handler that moves their status.  A requester talks to the agent  *)
(* in a "recommendation" conversation; the tool request_access either      *)
(* provisions at once (a rule approves) or hands the request over: it      *)
(* inserts a "dataowner" conversation, seeds that conversation's           *)
(* checkpoint and completes the requester's one.  The data owner's agent   *)
(* then calls approve_roles or deny_access.  Meanwhile HTTP routes cancel, *)
(* archive and unarchive the same rows.                                    *)
(*                                                                         *)
(* Every handler runs in a thread or coroutine of its own and talks to     *)
(* PostgreSQL at READ COMMITTED: a SELECT sees the last committed row plus *)
(* the transaction's own writes, an UPDATE waits for the row lock and      *)
(* writes over whatever is committed by then, COMMIT publishes all writes  *)
(* at once and an exception rolls all of them back.  Two effects escape    *)
(* the transaction: provisioning (an external system) and the checkpoint,  *)
(* which aput commits on a connection of its own.                          *)
(***************************************************************************)
EXTENDS Naturals, FiniteSets

CONSTANTS
    Convs,      \* conversation ids, all that nanoid generates in a behaviour
    Workers,    \* requests and agent turns the server runs at the same time
    NoConv,     \* previous_conversation of a requester's conversation
    NoRow,      \* there is no such row
    NoWorker,   \* the row is not locked
    MaxCalls    \* tool calls of one turn (AgentExecutor's max_iterations)

Types == {"recommendation", "dataowner"}
Statuses == {"active", "completed", "cancelled", "approved", "denied", "archived"}

Row == [type: Types, status: Statuses, previous: Convs \cup {NoConv}]

ASSUME ConstantsAssumption ==
    /\ NoConv \notin Convs
    /\ NoWorker \notin Workers
    /\ NoRow \notin Row
    /\ MaxCalls \in Nat

VARIABLES
    conversations,  \* the committed rows
    lock,           \* which transaction holds the row lock
    pending,        \* the uncommitted writes of each worker's transaction
    pc,             \* where each worker is
    cid,            \* the conversation each worker handles
    calls,          \* tool calls made in the worker's current turn
    used,           \* ids generated so far: nanoid never repeats one
    granted,        \* requests whose access the external system has provisioned
    seeded          \* conversations that have a checkpoint

vars == <<conversations, lock, pending, pc, cid, calls, used, granted, seeded>>
tableVars == <<conversations, lock, pending>>

\* The points of a handler at which its transaction has made all its writes.
CommitPoints == {"tool_commit", "cancel_commit", "archive_commit", "unarchive_commit"}

\* The points at which a handler asks for a row lock.
LockPoints == {"complete", "approve", "deny", "cancel", "cancel_prev_update",
               "archive", "unarchive"}

Points == {"idle", "turn", "rules", "provision", "ticket", "insert", "seed",
           "cancel_prev"} \cup CommitPoints \cup LockPoints

\* The points inside request_access, approve_roles and deny_access.
InTool == {"rules", "provision", "ticket", "insert", "seed", "complete",
           "approve", "deny", "tool_commit"}

-----------------------------------------------------------------------------
(***************************************************************************)
(* The table, as a transaction sees it.                                    *)
(***************************************************************************)

Committed(c) == conversations[c] # NoRow

\* What a SELECT of worker w returns: its own write or else the committed row.
Visible(w, c) == IF pending[w][c] # NoRow THEN pending[w][c] ELSE conversations[c]

IsActive(c) == Committed(c) /\ conversations[c].status = "active"
IsArchived(c) == Committed(c) /\ conversations[c].status = "archived"

NewRow(type, previous) == [type |-> type, status |-> "active", previous |-> previous]

\* ConversationStore.insert in the transaction of w.
InsertRow(w, c, type, previous) ==
    /\ c \notin used
    /\ used' = used \cup {c}
    /\ lock' = [lock EXCEPT ![c] = w]
    /\ pending' = [pending EXCEPT ![w][c] = NewRow(type, previous)]
    /\ UNCHANGED conversations

\* ConversationStore.update of the status in the transaction of w: the row lock
\* is awaited, and the status goes over the row as it is committed by then.
UpdateStatus(w, c, status) ==
    /\ lock[c] \in {NoWorker, w}
    /\ lock' = [lock EXCEPT ![c] = w]
    /\ pending' = [pending EXCEPT ![w][c] = [Visible(w, c) EXCEPT !.status = status]]
    /\ UNCHANGED <<conversations, used>>

ReleaseLocks(w) == lock' = [c \in Convs |-> IF lock[c] = w THEN NoWorker ELSE lock[c]]
ForgetWrites(w) == pending' = [pending EXCEPT ![w] = [c \in Convs |-> NoRow]]

CommitWrites(w) ==
    /\ conversations' = [c \in Convs |-> Visible(w, c)]
    /\ ReleaseLocks(w)
    /\ ForgetWrites(w)

RollbackWrites(w) ==
    /\ UNCHANGED conversations
    /\ ReleaseLocks(w)
    /\ ForgetWrites(w)

Goto(w, point) == pc' = [pc EXCEPT ![w] = point]

\* The handler is over, and what it knew is gone with it.
Finish(w) ==
    /\ Goto(w, "idle")
    /\ cid' = [cid EXCEPT ![w] = NoConv]
    /\ calls' = [calls EXCEPT ![w] = 0]

\* A step that only moves the handler on.
Advance(w, from, to) ==
    /\ pc[w] = from
    /\ Goto(w, to)
    /\ UNCHANGED <<tableVars, cid, calls, used, granted, seeded>>

-----------------------------------------------------------------------------
(***************************************************************************)
(* New conversations.  The insert is the only statement of its             *)
(* transaction, so insert and commit are one step here.                    *)
(***************************************************************************)

InsertCommitted(c) ==
    /\ c \notin used
    /\ used' = used \cup {c}
    /\ conversations' = [conversations EXCEPT ![c] = NewRow("recommendation", NoConv)]

\* POST /conversations.
Create(w, c) ==
    /\ pc[w] = "idle"
    /\ InsertCommitted(c)
    /\ UNCHANGED <<lock, pending, pc, cid, calls, granted, seeded>>

StartTurn(w, c) ==
    /\ Goto(w, "turn")
    /\ cid' = [cid EXCEPT ![w] = c]
    /\ UNCHANGED calls

\* A Slack message of an unknown thread: a conversation is created and the turn
\* runs on it without the status being read again.
SlackNewThread(w, c) ==
    /\ pc[w] = "idle"
    /\ InsertCommitted(c)
    /\ StartTurn(w, c)
    /\ UNCHANGED <<lock, pending, granted, seeded>>

\* Slip: the status is not tested.
BeginTurnUnchecked(w, c) ==
    /\ pc[w] = "idle"
    /\ Committed(c)
    /\ StartTurn(w, c)
    /\ UNCHANGED <<tableVars, used, granted, seeded>>

\* A message in an existing conversation.  The portal and Slack both read the
\* status in a transaction that is over before the agent does anything.
BeginTurn(w, c) ==
    /\ pc[w] = "idle"
    /\ IsActive(c)
    /\ StartTurn(w, c)
    /\ UNCHANGED <<tableVars, used, granted, seeded>>

EndTurn(w) ==
    /\ pc[w] = "turn"
    /\ Finish(w)
    /\ UNCHANGED <<tableVars, used, granted, seeded>>

-----------------------------------------------------------------------------
(***************************************************************************)
(* The tools.  Which ones an agent has depends on the type of the          *)
(* conversation it runs in.                                                *)
(***************************************************************************)

\* What the agent passes as conversation_id.  Assumption on the language model: it
\* passes the id of the conversation it runs in, which its prompt tells it ("The
\* conversation id is").  No code checks it, and with another id the tools would work
\* on that conversation instead.
ConversationId(w) == cid[w]

\* Slip: the calls are limited, but not counted.
CallToolUncounted(w, type, point) ==
    /\ pc[w] = "turn"
    /\ calls[w] < MaxCalls
    /\ conversations[cid[w]].type = type
    /\ Advance(w, "turn", point)

CallTool(w, type, point) ==
    /\ pc[w] = "turn"
    /\ calls[w] < MaxCalls
    /\ conversations[cid[w]].type = type
    /\ calls' = [calls EXCEPT ![w] = @ + 1]
    /\ Goto(w, point)
    /\ UNCHANGED <<tableVars, cid, used, granted, seeded>>

\* request_access: the directory and the application are found.
RequestAccess(w) == CallTool(w, "recommendation", "rules")

\* request_access: the directory or the application is unknown, and so the tool
\* answers "use recommender" without having changed anything.
RequestAccessMisses(w) == CallTool(w, "recommendation", "turn")

\* should_auto_approve answers.
RulesApprove(w) == Advance(w, "rules", "provision")
RulesDeny(w) == Advance(w, "rules", "ticket")

\* approve_roles: the directory is found.
ApproveRoles(w) == CallTool(w, "dataowner", "provision")

DenyAccess(w) == CallTool(w, "dataowner", "deny")

\* The provisioner reports success.
Provision(w) ==
    /\ pc[w] = "provision"
    /\ granted' = granted \cup {ConversationId(w)}
    /\ Goto(w, "approve")
    /\ UNCHANGED <<tableVars, cid, calls, used, seeded>>

\* Slip: success is not tested after the provisioner's answer.
ProvisionFailureIgnored(w) == Advance(w, "provision", "approve")

\* The provisioner raises or reports failure, and so the tool raises; the
\* external system may have done its part all the same.
ProvisionFails(w) ==
    /\ pc[w] = "provision"
    /\ granted' \in {granted, granted \cup {ConversationId(w)}}
    /\ Goto(w, "turn")
    /\ UNCHANGED <<tableVars, cid, calls, used, seeded>>

\* A ToolException of request_access before it writes, or of approve_roles on an
\* unknown directory: the transaction is rolled back, the turn goes on.
ToolFails(w) ==
    /\ \/ pc[w] \in {"rules", "ticket", "provision"}
       \/ pc[w] = "approve" /\ conversations[cid[w]].type = "recommendation"
    /\ RollbackWrites(w)
    /\ Goto(w, "turn")
    /\ UNCHANGED <<cid, calls, used, granted, seeded>>

Update(w, from, c, status, to) ==
    /\ pc[w] = from
    /\ UpdateStatus(w, c, status)
    /\ Goto(w, to)
    /\ UNCHANGED <<cid, calls, granted, seeded>>

ApproveUpdate(w) == Update(w, "approve", ConversationId(w), "approved", "tool_commit")
DenyUpdate(w) == Update(w, "deny", ConversationId(w), "denied", "tool_commit")

\* The data owner is known and the ticket is open.
OpenTicket(w) == Advance(w, "ticket", "insert")

\* Slip: the owner's conversation is inserted in a transaction of its own.
InsertOwnerConversationAlone(w, d) ==
    /\ pc[w] = "insert"
    /\ d \notin used
    /\ used' = used \cup {d}
    /\ conversations' = [conversations EXCEPT ![d] = NewRow("dataowner", ConversationId(w))]
    /\ Goto(w, "seed")
    /\ UNCHANGED <<lock, pending, cid, calls, granted, seeded>>

\* The data owner's conversation, with its first message.
InsertOwnerConversation(w, d) ==
    /\ pc[w] = "insert"
    /\ InsertRow(w, d, "dataowner", ConversationId(w))
    /\ Goto(w, "seed")
    /\ UNCHANGED <<cid, calls, granted, seeded>>

\* The conversation this transaction has inserted.
Inserted(w) == {d \in Convs : pending[w][d] # NoRow /\ ~Committed(d)}

\* Slip: the checkpoint is written under the requester's conversation.
SeedWrongThread(w) ==
    /\ pc[w] = "seed"
    /\ seeded' = seeded \cup {ConversationId(w)}
    /\ Goto(w, "complete")
    /\ UNCHANGED <<tableVars, cid, calls, used, granted>>

\* aput: the checkpoint is committed at once, on another connection.
SeedCheckpoint(w) ==
    /\ pc[w] = "seed"
    /\ seeded' = seeded \cup Inserted(w)
    /\ Goto(w, "complete")
    /\ UNCHANGED <<tableVars, cid, calls, used, granted>>

\* Slip: the requester's conversation is completed in a transaction of its own.
CompleteUpdateAlone(w) ==
    /\ pc[w] = "complete"
    /\ lock[ConversationId(w)] = NoWorker
    /\ conversations' = [conversations EXCEPT ![ConversationId(w)].status = "completed"]
    /\ Goto(w, "tool_commit")
    /\ UNCHANGED <<lock, pending, cid, calls, used, granted, seeded>>

CompleteUpdate(w) == Update(w, "complete", ConversationId(w), "completed", "tool_commit")

-----------------------------------------------------------------------------
(***************************************************************************)
(* The routes that close and reopen a conversation.  Each reads the row,   *)
(* tests its status and then updates it, in one transaction.               *)
(***************************************************************************)

StartRoute(w, c, point) ==
    /\ pc[w] = "idle"
    /\ Goto(w, point)
    /\ cid' = [cid EXCEPT ![w] = c]
    /\ UNCHANGED <<tableVars, calls, used, granted, seeded>>

\* Slip: the status is not tested.
UncheckedCancel(w, c) == Committed(c) /\ StartRoute(w, c, "cancel")
UncheckedArchive(w, c) == Committed(c) /\ StartRoute(w, c, "archive")
UncheckedUnarchive(w, c) == Committed(c) /\ StartRoute(w, c, "unarchive")

CancelConv(w, c) == IsActive(c) /\ StartRoute(w, c, "cancel")
ArchiveConv(w, c) == IsActive(c) /\ StartRoute(w, c, "archive")
UnarchiveConv(w, c) == IsArchived(c) /\ StartRoute(w, c, "unarchive")

CancelUpdate(w) == Update(w, "cancel", cid[w], "cancelled", "cancel_prev")
ArchiveUpdate(w) == Update(w, "archive", cid[w], "archived", "archive_commit")
UnarchiveUpdate(w) == Update(w, "unarchive", cid[w], "active", "unarchive_commit")

\* Slip: the cancellation goes both ways, to the owner's conversation as well.
LinkedTo(w) ==
    LET owners == {d \in Convs : Committed(d) /\ conversations[d].previous = cid[w]}
    IN  IF owners = {} THEN conversations[cid[w]].previous ELSE CHOOSE d \in owners : TRUE

PreviousOf(w) == conversations[cid[w]].previous
PreviousIsActive(w) == PreviousOf(w) # NoConv /\ IsActive(PreviousOf(w))

\* The requester's conversation is still active: it is to be cancelled too.
CancelReadsActivePrevious(w) ==
    /\ pc[w] = "cancel_prev"
    /\ PreviousIsActive(w)
    /\ Advance(w, "cancel_prev", "cancel_prev_update")

\* There is no previous conversation, or it is not active.
CancelLeavesPrevious(w) ==
    /\ pc[w] = "cancel_prev"
    /\ ~PreviousIsActive(w)
    /\ Advance(w, "cancel_prev", "cancel_commit")

CancelPreviousUpdate(w) ==
    /\ pc[w] = "cancel_prev_update"
    /\ Update(w, "cancel_prev_update", PreviousOf(w), "cancelled", "cancel_commit")

-----------------------------------------------------------------------------
(***************************************************************************)
(* The end of a transaction.                                               *)
(***************************************************************************)

Commit(w) ==
    /\ pc[w] \in CommitPoints
    /\ CommitWrites(w)
    /\ \/ pc[w] = "tool_commit" /\ Goto(w, "turn") /\ UNCHANGED <<cid, calls>>
       \/ pc[w] # "tool_commit" /\ Finish(w)
    /\ UNCHANGED <<used, granted, seeded>>

\* Anything else that raises, a client that goes away in the middle of a stream,
\* or a crash of the process: the transaction is rolled back and the handler is
\* gone, but what left the transaction stays.
Abort(w) ==
    /\ pc[w] # "idle"
    /\ RollbackWrites(w)
    /\ Finish(w)
    /\ UNCHANGED <<used, granted, seeded>>

\* Slip: the failure of the insert is logged and ignored.
InsertFailureIgnored(w) == Advance(w, "insert", "complete")

\* The insert raises (handle_db_operation): the same, as a step the code takes.
InsertFails(w) == pc[w] = "insert" /\ Abort(w)

-----------------------------------------------------------------------------
Init ==
    /\ conversations = [c \in Convs |-> NoRow]
    /\ lock = [c \in Convs |-> NoWorker]
    /\ pending = [w \in Workers |-> [c \in Convs |-> NoRow]]
    /\ pc = [w \in Workers |-> "idle"]
    /\ cid = [w \in Workers |-> NoConv]
    /\ calls = [w \in Workers |-> 0]
    /\ used = {}
    /\ granted = {}
    /\ seeded = {}

\* What a user may start.
Start(w) ==
    \E c \in Convs :
        \/ Create(w, c)
        \/ SlackNewThread(w, c)
        \/ BeginTurn(w, c)
        \/ CancelConv(w, c)
        \/ ArchiveConv(w, c)
        \/ UnarchiveConv(w, c)

\* A handler takes a row lock.
LockStep(w) ==
    \/ ApproveUpdate(w)
    \/ DenyUpdate(w)
    \/ CompleteUpdate(w)
    \/ CancelUpdate(w)
    \/ CancelPreviousUpdate(w)
    \/ ArchiveUpdate(w)
    \/ UnarchiveUpdate(w)

\* A handler takes a step that waits for nobody.
FreeStep(w) ==
    \/ EndTurn(w)
    \/ RequestAccess(w)
    \/ RequestAccessMisses(w)
    \/ RulesApprove(w)
    \/ RulesDeny(w)
    \/ ApproveRoles(w)
    \/ DenyAccess(w)
    \/ Provision(w)
    \/ ProvisionFails(w)
    \/ ToolFails(w)
    \/ OpenTicket(w)
    \/ \E d \in Convs : InsertOwnerConversation(w, d)
    \/ InsertFails(w)
    \/ SeedCheckpoint(w)
    \/ CancelReadsActivePrevious(w)
    \/ CancelLeavesPrevious(w)
    \/ Commit(w)

\* No request is in flight: the server waits for the next one.
Quiet == (\A w \in Workers : pc[w] = "idle") /\ UNCHANGED vars

Next ==
    \/ \E w \in Workers : Start(w) \/ LockStep(w) \/ FreeStep(w) \/ Abort(w)
    \/ Quiet

\* A handler that can run is run; PostgreSQL queues the waiters of a row lock.
Fairness ==
    \A w \in Workers : WF_vars(FreeStep(w)) /\ SF_vars(LockStep(w))

Spec == Init /\ [][Next]_vars
FairSpec == Spec /\ Fairness

-----------------------------------------------------------------------------
(***************************************************************************)
(* What must hold of the table and of the two effects outside it.          *)
(***************************************************************************)

\* Every variable holds what it should, and a turn never exceeds its tool calls.
TypeOK ==
    /\ conversations \in [Convs -> Row \cup {NoRow}]
    /\ lock \in [Convs -> Workers \cup {NoWorker}]
    /\ pending \in [Workers -> [Convs -> Row \cup {NoRow}]]
    /\ pc \in [Workers -> Points]
    /\ cid \in [Workers -> Convs \cup {NoConv}]
    /\ calls \in [Workers -> 0..MaxCalls]
    /\ used \subseteq Convs
    /\ granted \subseteq Convs
    /\ seeded \subseteq Convs

\* Nobody reads "approved" of a request whose access was never provisioned, not
\* even when the provisioner fails, the handler dies or another handler writes
\* the same row at the same time (_provision_role, _request_roles).
ApprovedIsGranted ==
    \A c \in Convs : Committed(c) /\ conversations[c].status = "approved" => c \in granted

\* A requester's conversation is only completed once a data owner has a
\* conversation about it: a completed request is never lost between the two
\* (_request_roles inserts, seeds and completes in one transaction).
CompletedHasOwnerConversation ==
    \A c \in Convs : Committed(c) /\ conversations[c].status = "completed" =>
        \E d \in Convs : Committed(d) /\ conversations[d].type = "dataowner"
                                      /\ conversations[d].previous = c

\* Whoever opens a data owner's conversation finds the request in it: it has a
\* checkpoint, and its requester's conversation exists, though the checkpoint is
\* committed on another connection than the row (_request_roles, aput).
OwnerConversationIsBriefed ==
    \A d \in Convs : Committed(d) /\ conversations[d].type = "dataowner" =>
        /\ d \in seeded
        /\ conversations[d].previous \in Convs
        /\ Committed(conversations[d].previous)
        /\ conversations[conversations[d].previous].type = "recommendation"

\* The row a handler at a lock point waits for.
Wanted(w) == IF pc[w] = "cancel_prev_update" THEN PreviousOf(w) ELSE cid[w]

\* A handler that holds a row lock and wants another one always goes from a data
\* owner's conversation to the requester's, never back: so no two handlers can
\* wait for each other's rows (_request_roles, cancel_conv).
LockOrder ==
    \A w \in Workers : pc[w] \in LockPoints =>
        \A c \in Convs : lock[c] = w => Visible(w, c).type = "dataowner"
                                        /\ Visible(w, c).previous = Wanted(w)

\* The table with its locks, transactions and crashes implements the ledger.
Ledger == INSTANCE RequestLedger WITH briefed <- seeded
ImplementsLedger == Ledger!Spec

\* Every request the server takes up is brought to an end, whoever holds the
\* rows it needs and however often its agent calls a tool.
EveryHandlerEnds == \A w \in Workers : (pc[w] # "idle") ~> (pc[w] = "idle")

-----------------------------------------------------------------------------
(***************************************************************************)
(* What the routes and the model's documentation say of a status.  With    *)
(* one handler at a time they are right; with two they are not, since the  *)
(* status is tested before the row is locked and no UPDATE tests it again. *)
(***************************************************************************)

\* The commit of w, which is at point, is the step taken and changes row c.
Publishes(w, point, c) ==
    /\ pc[w] = point
    /\ pending[w][c] # NoRow
    /\ conversations'[c] # conversations[c]

\* cancel_conv: "cannot cancel non active conversation".
CancelsOnlyActive ==
    [][\A w \in Workers, c \in Convs :
        Publishes(w, "cancel_commit", c) => IsActive(c)]_vars

\* unarchive_conv: "cannot unarchive non archived conversation".
UnarchivesOnlyArchived ==
    [][\A w \in Workers, c \in Convs :
        Publishes(w, "unarchive_commit", c) => IsArchived(c)]_vars

\* ConversationStatuses: "completed: the conversation has been reached it's end".
CompletedIsTheEnd ==
    [][\A c \in Convs :
        Committed(c) /\ conversations[c].status = "completed"
            => conversations'[c].status = "completed"]_conversations

\* While a data owner can still decide, the requester's conversation is closed: no
\* turn can be begun on it, and it is neither cancelled nor archived behind the
\* owner's back.  The turn that handed the request over may still be under way, and
\* no tool tests the status.
OpenHandOverIsClosedForRequester ==
    \A d \in Convs :
        Committed(d) /\ conversations[d].type = "dataowner" /\ IsActive(d)
            => ~IsActive(conversations[d].previous)

=============================================================================
