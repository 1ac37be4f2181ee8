----------------------------- MODULE WorkspaceWipe -----------------------------
(***************************************************************************)
(* DELETE /workspaces/{id}: one handler deletes the documents, the rows of *)
(* eight tables, the secrets and the row of the workspace, while requests  *)
(* that were let in earlier still insert rows and documents.               *)
(*                                                                         *)
(* The rows are deleted in one transaction.  The documents are in another  *)
(* database and the secrets in a vault: what is deleted there is gone at   *)
(* once.  The route is a coroutine without an await, so it keeps the event *)
(* loop from its first statement to its last.  What threads do goes on     *)
(* meanwhile: the routes that create and those that cancel, the listeners  *)
(* of Slack with the whole of their turns, and the nodes and tools of the  *)
(* portal's turns.  They write to every table that the deletion clears.    *)
(***************************************************************************)
EXTENDS Naturals, Sequences

CONSTANTS
    Deleters,   \* requests that delete the workspace
    Writers,    \* other requests, which write a row of it
    Authors,    \* requests that add a document
    Secrets,    \* secrets the workspace has at the start
    Old         \* the row or document that was there at the start

\* A request is of one kind, and what was there at the start none has added.
ASSUME RequestsDiffer ==
    /\ Deleters \cap (Writers \cup Authors) = {}
    /\ Writers \cap Authors = {}
    /\ Old \notin Writers \cup Authors

Clients == Deleters \cup Writers \cup Authors
Ids == Writers \cup {Old}
Docs == Authors \cup {Old}

\* What a context of a rule may name.
Scopes == {"applications", "directories"}

Tables == {"messages", "conversations", "applications", "directories",
           "rules_context", "rules", "checkpoints", "writes"}

\* Tables whose rows threads insert: the routes that create conversations,
\* applications, directories and rules; turns of Slack, and request_access in the
\* thread of its node, messages, checkpoints and what is to be written to one.  A
\* rule is inserted with its context.
Threaded == Tables \ {"rules"}

\* A context names at most one of the workspace's old application and directory.
Row == {r \in [table : Tables, id : Ids, names : {{}} \cup {{s} : s \in Scopes}] :
            r.names # {} => r.table = "rules_context"}

Plain(t, i) == [table |-> t, id |-> i, names |-> {}]

\* The rows a row refers to, apart from its workspace.
RefersTo(r) ==
    IF r.table = "rules_context"
    THEN {Plain("rules", r.id)} \cup {Plain(s, Old) : s \in r.names}
    ELSE {}

\* Slip: workspace_id of a conversation is part of its key, and of no foreign key.
OwnedButConversations == Tables \ {"conversations"}

\* The tables whose rows refer to the workspace.
Owned == Tables

\* What wipe_workspace deletes, in its order.
Order == <<"documents", "messages", "conversations", "applications", "directories",
           "rules_context", "rules", "checkpoints", "writes", "secrets", "workspace">>

VARIABLES
    exists,     \* the committed row of the workspace
    rows,       \* the committed rows of the workspace in the other tables
    docs,       \* its documents
    collection, \* the vector store has a collection for it
    secrets,    \* its secrets
    pc,         \* where each request is
    at,         \* the next item of Order that the running deletion deletes
    doomed,     \* the rows its open transaction has deleted
    held,       \* the rows the open transaction of each writer has inserted
    answer      \* the status code each request was last answered with

database == <<exists, rows>>
outside == <<docs, collection, secrets>>
vars == <<database, outside, pc, at, doomed, held, answer>>

LoopIsFree == \A d \in Deleters : pc[d] # "wiping"

Goto(c, point) == pc' = [pc EXCEPT ![c] = point]

\* The request is answered and over; a rollback is this and nothing else.
Answer(c, code) ==
    /\ Goto(c, "over")
    /\ answer' = [answer EXCEPT ![c] = code]

-----------------------------------------------------------------------------
(***************************************************************************)
(* The deletion.                                                           *)
(***************************************************************************)

\* The dependencies: the workspace is read, and its collection created if there
\* is none.
Arrive(d) ==
    /\ pc[d] = "idle"
    /\ LoopIsFree
    /\ exists
    /\ collection' = TRUE
    /\ Goto(d, "admitted")
    /\ UNCHANGED <<database, docs, secrets, at, doomed, held, answer>>

ArriveLate(d) ==
    /\ pc[d] = "idle"
    /\ LoopIsFree
    /\ ~exists
    /\ Answer(d, "400")
    /\ UNCHANGED <<database, outside, at, doomed, held>>

\* Slip: the route is a plain function, and runs in the thread pool.
BeginWipeThreaded(d) ==
    /\ pc[d] = "admitted"
    /\ exists
    /\ Goto(d, "wiping")
    /\ at' = 1
    /\ UNCHANGED <<database, outside, doomed, held, answer>>

\* The route begins and reads the workspace again.
BeginWipe(d) ==
    /\ pc[d] = "admitted"
    /\ LoopIsFree
    /\ exists
    /\ Goto(d, "wiping")
    /\ at' = 1
    /\ UNCHANGED <<database, outside, doomed, held, answer>>

NothingToWipe(d) ==
    /\ pc[d] = "admitted"
    /\ LoopIsFree
    /\ ~exists
    /\ Answer(d, "404")
    /\ UNCHANGED <<database, outside, at, doomed, held>>

Wiping(d, item) == pc[d] = "wiping" /\ at <= Len(Order) /\ Order[at] = item

\* The transaction is rolled back and the request answered.
EndWipe(d, code) ==
    /\ Answer(d, code)
    /\ at' = 0
    /\ doomed' = {}

\* delete_store: the collection goes, with every document in it.
WipeDocuments(d) ==
    /\ Wiping(d, "documents")
    /\ docs' = {}
    /\ collection' = FALSE
    /\ at' = at + 1
    /\ UNCHANGED <<database, secrets, pc, doomed, held, answer>>

Inserted == UNION {held[w] : w \in Writers}

\* A writer's open transaction has updated row r, or has inserted a row that
\* refers to it.
Locked(r) ==
    \/ \E q \in Inserted : r \in RefersTo(q)
    \/ r = Plain("conversations", Old) /\ \E w \in Writers : pc[w] \in {"touched", "stuck"}

RowsOf(t) == {r \in rows : r.table = t}

\* Rows that stay and refer to a row of table t.
Referring(t) == {q \in rows \ doomed : q.table # t /\ RefersTo(q) \cap RowsOf(t) # {}}

\* Slip: the table is cleared on a connection of its own, as aput writes it.
WipeTableOutside(d) ==
    /\ \E t \in Tables :
        /\ Wiping(d, t)
        /\ \A r \in RowsOf(t) : ~Locked(r)
        /\ Referring(t) = {}
        /\ IF t = "checkpoints"
           THEN rows' = rows \ RowsOf(t) /\ UNCHANGED doomed
           ELSE doomed' = doomed \cup RowsOf(t) /\ UNCHANGED rows
    /\ at' = at + 1
    /\ UNCHANGED <<exists, outside, pc, held, answer>>

\* delete_for_workspace of the table: every committed row of the workspace.
WipeTable(d) ==
    /\ \E t \in Tables :
        /\ Wiping(d, t)
        /\ \A r \in RowsOf(t) : ~Locked(r)
        /\ Referring(t) = {}
        /\ doomed' = doomed \cup RowsOf(t)
    /\ at' = at + 1
    /\ UNCHANGED <<database, outside, pc, held, answer>>

\* A foreign key refuses: 412, and the transaction is rolled back.
TableIsReferred(d) ==
    /\ \E t \in Tables :
        /\ Wiping(d, t)
        /\ \A r \in RowsOf(t) : ~Locked(r)
        /\ Referring(t) # {}
    /\ EndWipe(d, "412")
    /\ UNCHANGED <<database, outside, held>>

\* Slip: the vault does not know the name that was listed.
WipeSecretMissesIt(d) ==
    /\ Wiping(d, "secrets")
    /\ secrets # {}
    /\ UNCHANGED vars

\* The secrets are listed, and deleted one after the other.
WipeSecret(d) ==
    /\ Wiping(d, "secrets")
    /\ \E s \in secrets : secrets' = secrets \ {s}
    /\ UNCHANGED <<database, docs, collection, pc, at, doomed, held, answer>>

\* Slip: a failing vault does not stop the deletion.
NoMoreSecretsOrSo(d) ==
    /\ Wiping(d, "secrets")
    /\ at' = at + 1
    /\ UNCHANGED <<database, outside, pc, doomed, held, answer>>

NoMoreSecrets(d) ==
    /\ Wiping(d, "secrets")
    /\ secrets = {}
    /\ at' = at + 1
    /\ UNCHANGED <<database, outside, pc, doomed, held, answer>>

\* An error that no database raised ends it with 400.
VaultFails(d) ==
    /\ Wiping(d, "secrets")
    /\ secrets # {}
    /\ EndWipe(d, "400")
    /\ UNCHANGED <<database, outside, held>>

\* The row of the workspace: it is locked while a writer's insertion that
\* refers to it is not committed.
WipeWorkspace(d) ==
    /\ Wiping(d, "workspace")
    /\ \A q \in Inserted : q.table \notin Owned
    /\ \A q \in rows \ doomed : q.table \notin Owned
    /\ at' = at + 1
    /\ UNCHANGED <<database, outside, pc, doomed, held, answer>>

\* What a writer has committed since its table was cleared refers to it: 412.
WorkspaceIsReferred(d) ==
    /\ Wiping(d, "workspace")
    /\ \A q \in Inserted : q.table \notin Owned
    /\ \E q \in rows \ doomed : q.table \in Owned
    /\ EndWipe(d, "412")
    /\ UNCHANGED <<database, outside, held>>

CommitWipe(d) ==
    /\ pc[d] = "wiping"
    /\ at > Len(Order)
    /\ exists' = FALSE
    /\ rows' = rows \ doomed
    /\ EndWipe(d, "204")
    /\ UNCHANGED <<outside, held>>

\* Any other error of a database, such as a deadlock, is swallowed: the route
\* ends as if all went well, and the COMMIT of the failed transaction undoes it.
ErrorIsSwallowed(d) ==
    /\ pc[d] = "wiping"
    /\ at <= Len(Order)
    /\ Order[at] # "secrets"
    /\ EndWipe(d, "204")
    /\ UNCHANGED <<database, outside, held>>

-----------------------------------------------------------------------------
(***************************************************************************)
(* What goes on meanwhile: insertions, documents, the database.            *)
(***************************************************************************)

WorkspaceIsDoomed == at > Len(Order)

\* A context is inserted together with its rule.
New(r) == {r} \cup (IF r.table = "rules_context" THEN {Plain("rules", r.id)} ELSE {})
Referred(r) == (UNION {RefersTo(q) : q \in New(r)}) \ New(r)

\* A thread inserts a row, in a transaction of its own or of its turn: aput and
\* aput_writes, a route, answer, request_access.  What the event loop inserts between
\* two deletions is no different.  It waits for the deletion if that has deleted a
\* row the new one refers to.
Insert(w, r) ==
    /\ pc[w] = "idle"
    /\ r.id = w
    /\ r.table \in Threaded
    /\ ~WorkspaceIsDoomed
    /\ exists
    /\ Referred(r) \subseteq rows \ doomed
    /\ held' = [held EXCEPT ![w] = New(r)]
    /\ Goto(w, "inserted")
    /\ UNCHANGED <<database, outside, at, doomed, answer>>

\* What it refers to is gone.
InsertIsRefused(w, r) ==
    /\ pc[w] = "idle"
    /\ r.id = w
    /\ ~exists \/ ~(Referred(r) \subseteq rows)
    /\ Answer(w, "400")
    /\ UNCHANGED <<database, outside, at, doomed, held>>

CommitInsert(w) ==
    /\ pc[w] = "inserted"
    /\ rows' = rows \cup held[w]
    /\ held' = [held EXCEPT ![w] = {}]
    /\ Answer(w, "201")
    /\ UNCHANGED <<exists, outside, at, doomed>>

\* A thread that cancels a request has updated the owner's conversation, and
\* will update the requester's.
Touch(w) ==
    /\ pc[w] = "idle"
    /\ Plain("conversations", Old) \in rows \ doomed
    /\ Goto(w, "touched")
    /\ UNCHANGED <<database, outside, at, doomed, held, answer>>

CommitTouch(w) ==
    /\ pc[w] = "touched"
    /\ Answer(w, "200")
    /\ UNCHANGED <<database, outside, at, doomed, held>>

\* The DELETE of the conversations has locked the requester's before it came to
\* the owner's: each now waits for the other.
Entangle(d, w) ==
    /\ Wiping(d, "conversations")
    /\ pc[w] = "touched"
    /\ Goto(w, "stuck")
    /\ UNCHANGED <<database, outside, at, doomed, held, answer>>

\* The writer's transaction fails.
WriteFails(w) ==
    /\ pc[w] \in {"inserted", "touched", "stuck"}
    /\ held' = [held EXCEPT ![w] = {}]
    /\ Answer(w, "500")
    /\ UNCHANGED <<database, outside, at, doomed>>

\* The deletion is over, and with it the lock.
Disentangle(w) ==
    /\ pc[w] = "stuck"
    /\ LoopIsFree
    /\ Goto(w, "touched")
    /\ UNCHANGED <<database, outside, at, doomed, held, answer>>

\* The database detects the deadlock and makes one of the two fail.
BreakDeadlock ==
    \E d \in Deleters, w \in Writers :
        /\ Wiping(d, "conversations")
        /\ pc[w] = "stuck"
        /\ ErrorIsSwallowed(d) \/ WriteFails(w)

\* The dependencies of POST /content, and then the route.
Admit(a) ==
    /\ pc[a] = "idle"
    /\ LoopIsFree
    /\ exists
    /\ collection' = TRUE
    /\ Goto(a, "admitted")
    /\ UNCHANGED <<database, docs, secrets, at, doomed, held, answer>>

AddDocument(a) ==
    /\ pc[a] = "admitted"
    /\ LoopIsFree
    /\ IF collection
       THEN docs' = docs \cup {a} /\ Answer(a, "201")
       ELSE Answer(a, "500") /\ UNCHANGED docs
    /\ UNCHANGED <<database, collection, secrets, at, doomed, held>>

\* The server dies: its transactions are rolled back, its requests not answered.
Crash ==
    /\ pc' = [c \in Clients |-> IF pc[c] = "idle" THEN "idle" ELSE "over"]
    /\ UNCHANGED answer
    /\ held' = [w \in Writers |-> {}]
    /\ at' = 0
    /\ doomed' = {}
    /\ UNCHANGED <<database, outside>>

-----------------------------------------------------------------------------
\* Some workspaces have a rule, scoped or not.
OldRows(names) ==
    {Plain(t, Old) : t \in Tables \ {"rules_context"}}
        \cup {[table |-> "rules_context", id |-> Old, names |-> names]}

Init ==
    /\ exists = TRUE
    /\ \E names \in {{}} \cup {{s} : s \in Scopes} : rows = OldRows(names)
    /\ docs = {Old}
    /\ collection = TRUE
    /\ secrets = Secrets
    /\ pc = [c \in Clients |-> "idle"]
    /\ at = 0
    /\ doomed = {}
    /\ held = [w \in Writers |-> {}]
    /\ answer = [c \in Clients |-> "none"]

DeleterStep(d) ==
    \/ BeginWipe(d)
    \/ NothingToWipe(d)
    \/ WipeDocuments(d)
    \/ WipeTable(d)
    \/ TableIsReferred(d)
    \/ WipeSecret(d)
    \/ NoMoreSecrets(d)
    \/ WipeWorkspace(d)
    \/ WorkspaceIsReferred(d)
    \/ CommitWipe(d)

WriterStep(w) == CommitInsert(w) \/ CommitTouch(w) \/ Disentangle(w)

Fault ==
    \/ \E d \in Deleters : VaultFails(d) \/ ErrorIsSwallowed(d)
    \/ \E w \in Writers : WriteFails(w)
    \/ Crash

Next ==
    \/ \E d \in Deleters : Arrive(d) \/ ArriveLate(d) \/ DeleterStep(d)
    \/ \E w \in Writers :
        \/ \E r \in Row : Insert(w, r) \/ InsertIsRefused(w, r)
        \/ Touch(w)
        \/ \E d \in Deleters : Entangle(d, w)
        \/ WriterStep(w)
    \/ \E a \in Authors : Admit(a) \/ AddDocument(a)
    \/ BreakDeadlock
    \/ Fault

Spec == Init /\ [][Next]_vars

\* The threads and the event loop are scheduled, and the database breaks
\* deadlocks; nothing makes a client ask, or a fault happen.
FairSpec ==
    /\ Spec
    /\ \A d \in Deleters : WF_vars(DeleterStep(d))
    /\ \A w \in Writers : WF_vars(WriterStep(w))
    /\ WF_vars(BreakDeadlock)

-----------------------------------------------------------------------------
TypeOK ==
    /\ exists \in BOOLEAN
    /\ rows \subseteq Row
    /\ docs \subseteq Docs
    /\ collection \in BOOLEAN
    /\ secrets \subseteq Secrets
    /\ pc \in [Clients -> {"idle", "admitted", "wiping", "inserted", "touched", "stuck", "over"}]
    /\ at \in 0 .. Len(Order) + 1
    /\ at = 0 <=> LoopIsFree
    /\ doomed \subseteq rows
    /\ held \in [Writers -> SUBSET Row]
    /\ answer \in [Clients -> {"none", "200", "201", "204", "400", "404", "412", "500"}]

\* No row outlives what it refers to: a deleted workspace leaves no row behind,
\* and no context a rule, application or directory that is gone, though rows are
\* inserted while the deletion is under way (the foreign keys of the tables,
\* wipe_workspace).
NothingIsOrphaned ==
    /\ ~exists => rows = {}
    /\ \A r \in rows : RefersTo(r) \subseteq rows

\* The rows refer to rows that are there, and every variable keeps its type.
RowsAreConsistent == TypeOK /\ NothingIsOrphaned

\* The rows of a workspace go all at once or not at all: whatever refuses or
\* breaks off the deletion, no table is ever seen cleared next to one that is
\* not (one transaction for every delete_for_workspace).
TablesGoTogether ==
    [][rows \ rows' # {} => ~exists' /\ rows' = {}]_vars

\* A workspace that is gone has left no secret and none of the documents it had;
\* what a request let in earlier still adds is all that may be found of it
\* (the order of wipe_workspace, which deletes the workspace last).
GoneMeansForgotten ==
    ~exists => secrets = {} /\ Old \notin docs

\* A deletion that waits for a writer, which may be waiting for the deletion,
\* still ends, and the event loop it has kept goes on.
EveryWipeEnds == \A d \in Deleters : pc[d] = "wiping" ~> pc[d] = "over"

\* The API walk-through prints "workspace deleted successfully" after a 204.
DeletedSuccessfully ==
    [][\A d \in Deleters :
        pc[d] = "wiping" /\ answer'[d] = "204" => ~exists']_vars

=============================================================================
