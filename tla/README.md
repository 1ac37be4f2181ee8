# Accessbot in TLA+

Accessbot lets an employee ask, in the web portal or in Slack, for access to an
application. An agent (a graph of language model calls) talks to the requester,
finds the role that is meant, and either provisions it at once, when an
auto-approval rule says so, or hands the request over to the data owner, whose own
conversation with an agent ends in an approval or a denial.

The modules here are translated from the Python code under `src/app`. Line numbers
in `PROJECT.json` ("map") say which lines each definition stands for. What the
language models answer, what external systems do and when anything fails is always
a free choice of the model.

## 1. Inventory

### Components, their state and their operations

| component | code | state | operations |
|---|---|---|---|
| access requests | `routers/conversation.py`, `llm/tools/create_ticket_for_role_request_tool.py`, `provision_role_tool.py`, `deny_access_tool.py`, `utils.py`, `models_stores_sql.py`, `sql.py` | table `conversations` (type, status, previous conversation), row locks, open transactions; outside the transactions: what the external system has provisioned, tickets, checkpoints | create, cancel, archive, unarchive; the tools request_access, approve_roles, deny_access |
| auto-approval rules | `routers/rule.py`, `application.py`, `directories.py`, `llm/tools/rule_engine/` | tables `rules`, `rules_context`, `applications`, `directories` | create, patch, delete a rule; delete an application or a directory; choose the rules of a request |
| one turn of the agent | `llm/graph.py`, `nodes.py`, `agents.py`, `guardrails/on_topic.py`, `conversation.py` | the channels of the graph, its position | entry point with guardrail and lookup, agents, recommender |
| agent memory | `models_stores_sql.py` (checkpoint saver, chat messages), `llm/streaming.py` | tables `checkpoints`, `writes`, `messages` | read and put a checkpoint, record the answered turn |
| Slack | `slack/event_message.py`, `store_sql.py`, `app.py` | `external_id` of conversations, installations | a message of a thread, home tab |
| administration | `routers/workspace.py`, `application.py`, `directories.py`, `models_stores_sql.py` | tables `workspaces`, `applications`, `directories` | create, patch, delete, list page by page |
| deletion of a workspace | `routers/workspace.py`, `ext_vector_store.py`, `vault/` | every table, the documents, the secrets | delete, against whatever still writes |
| provisioning and tickets | `llm/tools/provision/`, `create_ticket/`, `data_owner/`, `utils/emails/`, `registration_provider.py` | none of their own; tickets and mails outside | find the data owner, invite, open a ticket, provision |
| documents and imports | `routers/content.py`, `data_fetching/`, `ext_vector_store.py` | the documents, the names of applications | add, replace, delete, import in the background |
| database connections | `sql.py` and every handler | the pool | open and end a transaction, time out |
| authentication, authorization | `auth.py`, `authz.py` | a cache of user data | decide |
| secrets | `vault/`, `vault_utils.py` | the vault | set, get, list, delete |
| wiring, presentation | `main.py`, `services.py`, `settings.py`, `i18n.py`, ... | none | - |

### How they interact

* The routes are FastAPI handlers of **one server process** (`uvicorn app.main:app`,
  `docs/dev/README.md:15`). A plain `def` runs in the thread pool, an `async def` on
  the event loop; several turns and requests overlap.
* Each handler uses one or more PostgreSQL transactions
  (`SQLAlchemyTransactionContext.manage`: commit at the end, rollback on an
  exception) at READ COMMITTED. No SELECT takes a row lock, an UPDATE does.
* A turn reads the conversation's status **before** the agent runs, in a
  transaction that is over by then. Every tool the agent calls opens a new one.
* The checkpoint saver commits on connections of its own, so checkpoints are outside
  of whatever transaction the caller has open. So are the calls to the provisioning
  webhook and to the ticket system.
* The rule engine, called by request_access, reads the rules by directory and
  application and asks a language model to apply them.
* Slack's events are acknowledged and then handled by listener threads, each with an
  event loop of its own. A turn of the portal is a coroutine of the server's event loop only
  between the nodes of the graph: the nodes are plain functions, which LangGraph runs in
  threads of an executor and which have event loops of their own (`nodes.py:41`, `:160`). There the
  models and the tools are called. The dependencies of the routes (`auth.py`) are coroutines, and
  their transaction runs on the event loop also where the route itself is then run in a thread.
* The documents are in another database, the secrets in a vault (the environment of
  the process or a Kubernetes cluster): a rollback of the application's transaction
  brings neither back.
* Every transaction has a connection of one pool, nested ones one each.

### What is hard about it

Statuses that are tested and then written without a lock; a hand-over that writes
four things, one of which escapes the transaction; failures between an external
effect and the row that records it; two row locks per transaction; coroutines that
wait for a row lock without yielding the event loop; channels of the agents' graph
that outlive the turn that set them; turns that fail half-way; a deletion that
runs through eight tables, two other stores and a vault while requests let in
earlier go on; imports that await Okta between reading and replacing; whole rows
written from copies; names that are only unique once they are committed;
threads of Slack that nothing but the order of steps keeps to one conversation. `PROJECT.json`
("hazards") lists each at its line, with the properties about it.

### What makes each part correct

* *Access requests*: an approved request has been provisioned; a completed one is in
  the hands of a data owner, whose agent knows what it is about; the hand-over is
  one step for every reader; locks are taken in one order; every handler ends;
  a status is only left as the routes say it may be.
* *Rules*: the engine goes by exactly the rules that were accepted; a rule
  never applies to more than it was accepted for; patches are not lost.
* *A turn*: no agent answers a message that was not let through, and of the conversation it is
  given nothing is unjudged that the guardrail's window could have shown, nor a rejected message
  without its rejection; each message is answered by the right agent whatever earlier turns have
  left behind; every edge has a target; every turn ends.
* *Memory*: what was answered is remembered.
* *Administration*: names are unique, a patch changes what it names, a list leaves
  nothing out and announces no more than it shows.
* *Workspace deletion*: the rows go all or none, nothing is orphaned, and a workspace that is
  gone has left neither secret nor document. *Secrets*: each workspace has a box of
  its own.
* *Documents*: what was accepted under an id that is one directory's is found, a replacement is
  one document, an import replaces its directory as a whole and ends.
* *Slack*: a message reaches a conversation of its sender, and a data owner's
  answer the request it is about. *Tickets*: no request waits for a ticket that was not
  opened, nobody is assigned what they never owned.
* *Connections*: everybody is served; Slack alone never waits for a connection, and it takes many
  of the portal's tools at once to leave nothing but the pool's timeout to wait for.

## 2. The modules

```
RequestLedger            what the conversation table promises its readers
AccessRequest            the handlers, with transactions, locks, failures   -> implements RequestLedger
  AccessRequest_proofs         all of its properties but liveness, the ledger among them
TicketDesk               what a hand-over does before its conversation is inserted
  TicketDesk_proofs            all of its properties
SlackThreads             which conversation a message in Slack reaches
  SlackThreads_proofs          all of its properties
ConnectionPool           who waits for whom in the pool of connections
AgentGraph               turns of one conversation through the agents' graph
  AgentGraph_proofs            who sees and who answers a message, and what is remembered
RuleStore                rules, contexts, applications, directories, the choice of rules
  RuleStore_proofs             the table of rules and what the engine makes of it
Catalog                  workspaces, applications, directories: create, patch, delete, list
  Catalog_proofs               all of its properties
WorkspaceWipe            the deletion of a workspace against those who still write
  WorkspaceWipe_proofs         all of its properties but liveness
ContentStore             documents, and the import of a directory
SecretBox                what a vault promises
EnvVault                 the vault in the environment            -> implements SecretBox
ClusterVault             the vault in a Kubernetes cluster
  Resources_proofs             all safety properties of the vaults, the documents and the pool
MC...                    instances for TLC
```

A module of proofs extends the module it is about. Those of AccessRequest, AgentGraph and
SlackThreads extend the MC module that adds the history variable `overlapped`, and
Resources_proofs extends the MC modules of the vaults, the pool and the documents. The theorems
are about the specifications there, whose constants stay arbitrary, and not about the
instances the configurations give. `MCVault`, `MCConnectionPool` and `MCContentStore` instantiate
what they explore under names of their own (`Cluster`, `Pool`, `Content`; `PoolSpec`,
`ContentSpec`), so that one module can extend them all, and state the assumptions on its constants.

Four MC modules add something of their own. `MCAccessHistory`, `MCAgentGraph` and
`MCSlackThreads` have a history variable `overlapped`: whether two handlers, turns or
listeners were ever under way at once; `MCAccessHistory` also has `handed`, which turns have
handed their request over. A property named `Alone...` says what holds as long as they
were not, over all failures and every order of whole handlers; that it does not hold
of overlapping ones is in section 6, or said by the property's comment. `MCContentStore` has
`shared`, the ids under which two directories ever had documents at once. `MCVault` chooses
between the two vaults, as the setting VAULT_URI does (`injector_extensions_module.py`).

Definitions marked "Slip:" are variants of the definition that follows them, each the
way a plausible mistake would have made it. No specification uses them; `PROJECT.json` ("mutants") says which
property each of them breaks when it takes its neighbour's place.

### RequestLedger and AccessRequest

`conversations`, `lock` and `pending` are the table, its row locks and the
uncommitted writes of each handler; `pc`, `cid` and `calls` say where each
handler (`Workers`) is; `used` are the ids nanoid has generated; `granted` and
`seeded` are the two effects outside the transaction. One action per statement that
reads or writes something shared:

| action | code |
|---|---|
| `Create`, `SlackNewThread` | insert of a requester's conversation, the only statement of its transaction |
| `BeginTurn`, `EndTurn` | the status test of the portal and Slack; the end of the agent's run |
| `CallTool` and its uses | the agent calls a tool, at most `MaxCalls` times (max_iterations) |
| `Provision`, `ProvisionFails` | the webhook; a reported failure may still have provisioned |
| `InsertOwnerConversation`, `SeedCheckpoint`, `CompleteUpdate` | the hand-over |
| `ApproveUpdate`, `DenyUpdate`, `CancelUpdate`, ... | an UPDATE: takes the row lock, waits while another handler has it |
| `CancelReadsActivePrevious`, `CancelLeavesPrevious` | cancel_conv looks at the previous conversation |
| `Commit`, `Abort`, `InsertFails`, `ToolFails` | the ends of a transaction |

`Abort` is an exception, a client that has gone away and a crash of the process all
at once: the transaction is gone, `granted` and `seeded` stay. After a hand-over the
turn goes on, and its agent may call the tool again: so the code has it.
`AloneOpenHandOverIsClosed` holds that to the one turn, by the history variable `handed`; the
ledger allows a second hand-over as well.

`ConversationId` is an assumption on the language model, not on the code: the tools work on
whatever conversation_id they are called with, and the model takes it to be the id that the prompt
states ("The conversation id is", `prompts.py:30`). Everything said about what a turn does to
*its* request leans on it.

`RequestLedger` is the abstract specification: no transactions and no locks, and a
hand-over or a cancellation of both conversations is one entry. It makes
checkpoints appear before the conversation they belong to and provisioning before
approval. `AccessRequest` implements it with `briefed <- seeded`.

### RuleStore

`rules`, `contexts`, `present` are the committed tables; `job` and `linked` hold what
a handler's open transaction has read and written; `accepted` is a history variable,
what the answers so far promise of each rule. `POST /rules` runs in the thread pool
statement by statement. The other routes are coroutines without an `await`, so
that no other request *begins* while one of them runs (`LoopIsFree`), but a
`POST` already in its thread goes on. A context that is not committed yet pins
the row it names (the foreign key takes FOR KEY SHARE), so a DELETE waits for it;
an uncommitted DELETE makes the context's insert wait.

All contexts of a rule get the same generated id, so a second context always fails:
`LinkCollides`. `Admits` has the three clauses of get_rules, in which a rule with
an application *and* a directory would never be admitted.

### AgentGraph

One conversation, its `memory` (the last checkpoint), its message `table`, and
`Workers` turns at a time. `Complete` is the end of a node: the channels are changed,
saved as the last checkpoint, and the edge followed. `BeginTurn` reads the last
checkpoint back and adds the input to it. The code begins the guardrail and the lookup
together, but the guardrail's call of the model is a blocking one inside its coroutine
(`guard.invoke` in `topical_guardrail`), and its task is the first to run: the lookup begins once
the verdict is there (`execute_chat_with_guardrail`). So they are two steps in that order.

The guardrail is shown the last `Window` messages (15 in the code, `nodes.py:159`) and judges
the conversation by them; an agent is given all of them (`nodes.py:41`). So messages of earlier
turns do reach an agent: those of failed turns, whose message is in the checkpoint and was
possibly never judged, rejected ones, and those behind the window. Two history
variables follow them, `read`, the turns whose message any guardrail was shown, and `refused`,
those whose rejection was saved. `GuardrailIsHeeded` says what holds of them: the agent's own
message was accepted, everything else it is given was shown to a guardrail unless it was behind
the window when its own message came, and, while turns do not overlap, a rejected message comes with
the apology right after it.

A data owner's conversation begins as request_access leaves it: two messages are seeded in the
checkpoint, and the message table has the one that the owner is shown, which the checkpoint has in
other words (`OpeningTable`). AloneHistoryIsRemembered takes the two seeds for it.

`app` stands for the three channels app_id, app_name and extra_instructions, which
one node sets together. A missing key (`KeyMissing`), the limit on steps
(`OutOfSteps`) and any exception or vanished client (`Fail`) end a turn with its
checkpoints in place and nothing in the message table.

The node `call_tool` is left out: an edge leads to it only if the last message
carries a function call, and agent_node builds messages without one.

### Catalog

`rows` are the committed workspaces, applications and directories; of a row the model
keeps its id, kind, home, name and, for each field a patch may name, which
client wrote it last (`by`). A token names a workspace by its id or by an external id that
clients choose and nothing keeps unique; `Enter` lets the request into any workspace so
named (`NamedBy`), and `home` is which one that was. `Create...` insert in a thread, statement and commit apart (`held`);
`Update...` and `Delete` of applications and directories run through on the event
loop. `UpdateOrg`, the patch of a workspace, starts from a copy that a dependency has read
before (`copy`). A walker lists page by page, `Count` and `Fetch` being two
statements. `WorkspaceIsWiped` is all that this module sees of WorkspaceWipe.
A row that another open transaction has inserted under the same name makes the
insert wait; names are numbers because lists are ordered by them.

### WorkspaceWipe

The deletion goes through `Order`, one action per item, on the event loop
(`LoopIsFree`); the rows it has deleted are `doomed` until it commits, documents and
secrets are gone at once. `Writers` are others whose transaction inserts a row (`Insert`) or
cancels a conversation (`Touch`) at any time: routes in the thread pool, listeners of Slack with the whole
of their turns (`event_message.py:110`), and the nodes and tools of the portal's turns in their
threads (`nodes.py:41`, `:160`). So each table but `rules`, whose rows come with their contexts,
may be written while the deletion is anywhere in it (`Threaded`). `Authors` add a document.
A foreign key refuses (412), a lock is waited for, and `BreakDeadlock` is
PostgreSQL's: it aborts one of two that wait for each other. The dependencies of the route
create an empty collection before the route looks whether the workspace exists.

### ContentStore

`docs` remembers who added each document. `Add` and `Remove` are one action, a
replacement is two, `Replace` and `StoreReplacement`, as the store commits each. `Add` is a POST
of any documents for any directories. `FetchGroup`
awaits one group's applications. `ReplaceDirectory` and `StoreImport` come after the last await: create
the applications, delete the directory's documents; add the new ones. Each may
fail. Applications are deleted meanwhile (`DropApp`). A name is a sequence of characters, as create_app_name changes it
character by character.

`due` is what the answers given so far promise: pairs of a directory and an id. A deletion takes
everything that has an id, in whatever directory (`Without`), as `delete_ids` looks at
the ids alone, and so does that of an import (`factory.py:61`). An import only takes
back what was promised of its own directory; so what it deletes of another one, which has a
document under one of the same ids, is still due and is gone. Nothing keeps clients from using an id
twice, so the code loses documents there (`RefutedImportsKeepToTheirDirectory`, section 6), and
`DocumentsAreConsistent` promises what is left: what was accepted is found, unless two directories
have ever had documents under its id (`shared`).

### SecretBox, EnvVault, ClusterVault

`EnvVault`: a variable's name folds id and path to upper case; a value is
the workspace it was set for. Resolving a configuration, one place after the other (`Resolve`), and
clearing a workspace are several steps between which others set and delete. `IsABoxEach` is the
refinement of SecretBox, path by path as they are folded. A restart gives back the
deployment's own variables and forgets what was set since: the environment belongs to the
process, so there is nothing to recover from and no action for it. `ClusterVault` has
a name for several ids and paths, a label, and the library's exception that
no handler catches.

### SlackThreads

Events of a thread are in `inbox` until a listener takes one. `Find...` and
`InsertConversation` are the two transactions of answer with the gap between them;
`PostTicket` is the ticket that a hand-over posts, in a new thread of the owner, before
`HandOver` commits the conversation that belongs to it. `heard` is a history variable, which
message reached which conversation. A conversation made through the portal has
an external id its maker chooses; in this model none is that of a thread in Slack.

### TicketDesk

An attempt is a call of request_access: `OwnerFromDirectory` and `OwnerFromDefault` find
the owner, `Invite` mails one who is not registered, `OpenTicket` opens the
ticket of the configured system, `Insert` the conversation. Each may fail and leave
what the one before has done. The agent may call again after a failure and after a success. `owned`
remembers who owned the application since the turn's last call. An invitation that the mail server
does not take is logged and forgotten (`data_owner/factory.py:52`): `lost` remembers whose, and what
is promised is an attempt to invite, not that it arrived.
Of the code's oddities it has the dictionary that Jira's
client returns and the mail that is never sent (section 6), and the bot token
whose absence `create_ticket/slack.py:44` builds an exception for without raising it: the
call after it fails instead.

### ConnectionPool

A user of the pool has `held[u]` connections and waits for one more, runs, or is
idle; a coroutine is on the event loop or waits for its thread (`at`). `Depth` is how many it may
have: a listener three (turn, tool, the tool's helper), a tool of a portal's turn two, anything else
one. The event loop does short transactions of its own (the dependencies' checks, the reading and putting of
checkpoints, the messages) and waits for their connection without yielding, so that nobody else
runs on it (`LoopIsFree`). The nodes of the graph, and so the tools, are in threads of an executor (`CallThread`,
`EndThread`): they wait for connections there, with the event loop free, and the pool can be
exhausted by tools that each want one more. `TimeOut` is the pool's. `KnotTakesTools` says
how many it takes: all connections are held by waiters only if PoolSize - 2 x listeners of
them are tools of the portal, five with the defaults.

## 3. The runs

| run | instance | shows |
|---|---|---|
| `access_requests` | 3 conversations, 2 handlers, 2 tool calls a turn | ApprovedIsGranted, CompletedHasOwnerConversation, OwnerConversationIsBriefed, LockOrder; ImplementsLedger; while nothing overlaps, AloneRoutesActOnWhatTheyRead and AloneOpenHandOverIsClosed |
| `handlers_end` | 2 conversations, 2 handlers | EveryHandlerEnds |
| `rules` | 2 rules, 2 applications, 1 directory, 2 requests | EngineGoesByAcceptedRules, PatchesAreKept, RuleKeepsWhatItNames, LoopComesFree |
| `agent_turns` | 3 turns, two at once or not, 4 steps a turn, a window of 2 messages | GuardrailIsHeeded, AnsweredByTheRightHand, EdgesLeadHome, AloneHistoryIsRemembered, EveryTurnEnds |
| `workspace_wipe` | 2 deletions, a writer, an author, a secret | RowsAreConsistent, GoneMeansForgotten, TablesGoTogether, EveryWipeEnds |
| `content_store` | 2 requests or imports, 2 directories, 2 groups, 3 names | DocumentsAreConsistent, ReplacedMeansOne, ImportedAppsExist, EveryImportEnds |
| `catalog` | 2 workspaces, the id of one being the external id of both, 2 clients, 1 lister, 2 names, 4 fields, pages of one row | CatalogIsConsistent, WalkMissesNothing, PatchChangesItsField, WritesKeepTheirPlace |
| `vaults` | 2 workspaces, 3 paths that differ in case; 2 ids and 2 paths that fold to one | ResolvedToItsOwn, ListedCanBeDeleted, IsABoxEach; ClusterIsConsistent |
| `slack_threads` | 2 users, 2 workspaces, 3 threads, 3 conversations, 2 listeners | ThreadsAreConsistent, AloneThreadsLeadHome |
| `ticket_desk` | 2 people, 2 requests, 3 attempts, every setting | RequestsHaveTheirTickets, AssigneeWasTheOwner, AttemptsLeaveNoMess |
| `connection_pool` | 1 listener, 2 turns of the portal, 1 other request, 4 connections | PoolHoldsOut, EverybodyIsServed |
| `refuted_cancel` | 2 conversations, 2 handlers | CancelsOnlyActive is refuted (section 6) |

TypeOK of AccessRequest, RuleStore, AgentGraph and EnvVault is proved (section 4); the
other modules' TypeOK is the first conjunct of the invariant named ...Consistent, AttemptsLeaveNoMess
or PoolHoldsOut, which a run checks and a theorem states.

**Bounds.** A hand-over takes two conversations; with three, a second hand-over of
the same request, or a second requester, overlaps it. Two handlers are the smallest number that can race or wait for each other, and every
action touches at most two rows, so that a third handler adds no new pair of
conflicting steps. Two calls per turn are one hand-over and a call after it. A rule
can have at most one stored context; two applications and a directory give every
kind of list a body can have, and every way for an application not to be the one. Four steps are the
entry point, an agent, the recommender and the agent again, at whose next wish for the recommender the
limit (25 in the code, langgraph's default) bites. A window of two messages is full after one turn
with an answer, so that the first message of three is behind it. Conversations, threads and handlers
are only compared for equality, so permuting them is a symmetry; the runs with
liveness properties use none.

Two deletions are one that finds the workspace gone or its tables doomed; one
writer is enough for each table's insert to meet each statement of the deletion,
as writers do not touch each other's rows. Two imports of one or two directories, with two groups,
give every overlap of fetching and replacing; the three names are one that is valid, one
that create_app_name makes the same, and one that it leaves invalid. A page of one row
is the page on which every row is at a boundary. Three attempts for two requests are
one that fails and its repetition, beside another's. Three threads are a requester's, a
ticket's, and one more that a retry or an early answer opens. Four connections are
the smallest pool that a listener, with two of them, and tools of the portal, with one each, can exhaust
while each waits for one more; of the defaults, fifteen (SQLAlchemy's five and ten) and Bolt's five
listeners, the proof speaks.

Deadlock is checked where the server goes on for ever: AccessRequest, RuleStore, AgentGraph,
WorkspaceWipe and ConnectionPool always have a next step (`Quiet` in AccessRequest is the server that waits for the next
request), and a handler that waits for a
lock can always be aborted, so LockOrder and the liveness properties, which do not count on
`Abort`, are what excludes waiting in a circle. In Catalog, ContentStore, SlackThreads, TicketDesk
and the vaults clients, ids and attempts are used up, and having used them
is where the instance stops (CHECK_DEADLOCK FALSE).

**Fairness.** `AccessRequest`: weak fairness of `FreeStep`, as threads and coroutines
are scheduled and models and webhooks answer or time out; strong fairness of
`LockStep`, as PostgreSQL queues the waiters of a row lock. `RuleStore`: weak
fairness of each handler's next statement; a request that waits on the event loop
keeps new requests from beginning, so a waiter is not overtaken for ever. `AgentGraph`: weak
fairness of a turn's next step, as models answer or time out. `WorkspaceWipe`: weak
fairness of the next statement of a deletion, of a writer's, as both are running
threads, and of PostgreSQL's deadlock detection. `ContentStore`: weak fairness
of each request's next step, as Okta answers or the client gives up. `ConnectionPool`: weak
fairness of getting a connection or timing out (both are what the pool does with a
waiter), and strong fairness of the end of a turn, of the end of a thread and of its return to the
event loop: agents and executors have limits, and a coroutine that is ready runs when the loop comes
to it, which others may keep for a while. That models and webhooks answer is an assumption where the code
sets no limit: `requests.post` of the webhook (`llm/tools/provision/webhook.py:25`) has no timeout, and a
webhook that never answers keeps its handler, and the row's transaction, for ever. No specification is
fair to users, to failures or to crashes, and none is fair to a particular answer
of a model: an agent may ask the recommender for ever, and it is the limit on steps
that ends the turn.

## 4. What is proved

For every set of conversations, rules, applications, workspaces, clients, handlers and turns,
and every bound, TLAPS checks (module, theorem):

| theorem | states |
|---|---|
| `AccessRequest_proofs!TypeCorrect`, `TableCorrect` | TypeOK; TableInv |
| `...!SafetyCorrect` | SafetyInv, the inductive invariant |
| `...!ApprovalCorrect`, `HandOverCorrect`, `BriefingCorrect`, `LockOrderCorrect` | ApprovedIsGranted, CompletedHasOwnerConversation, OwnerConversationIsBriefed, LockOrder |
| `...!HandlersKeepTheLedger` | ImplementsLedger: AccessRequest implements RequestLedger |
| `...!HistoryInductive`, `HandOverIsClosedAlone`, `RoutesAloneActOnWhatTheyRead` | HistoryInv; AloneOpenHandOverIsClosed, AloneRoutesActOnWhatTheyRead |
| `RuleStore_proofs!RulesCorrect`, `RuleTypeCorrect` | the inductive invariant; TypeOK |
| `...!PatchCorrect`, `ScopeCorrect`, `EngineCorrect` | PatchesAreKept, RuleKeepsWhatItNames, EngineGoesByAcceptedRules |
| `AgentGraph_proofs!GraphCorrect`, `GraphTypeCorrect` | the inductive invariant; TypeOK |
| `...!GuardrailCorrect`, `AnswerCorrect`, `EdgesCorrect` | GuardrailIsHeeded, AnsweredByTheRightHand, EdgesLeadHome |
| `...!HistoryCorrect`, `HistoryIsKeptAlone` | HistoryInv; AloneHistoryIsRemembered |
| `WorkspaceWipe_proofs!Inductive` | IInv, the inductive invariant |
| `...!NoRowIsOrphaned`, `NothingIsRemembered`, `RowsGoAtOnce` | RowsAreConsistent, GoneMeansForgotten, TablesGoTogether |
| `Catalog_proofs!Inductive` | IInv, the inductive invariant |
| `...!NamesAreUnique`, `ListsAreComplete`, `PatchesKeepTheOthers`, `WritesStay` | CatalogIsConsistent, WalkMissesNothing, PatchChangesItsField, WritesKeepTheirPlace |
| `Resources_proofs!TypeCorrect`, `SecretsStayAtHome`, `ClearingDoesNotFail` | TypeOK, ResolvedToItsOwn, ListedCanBeDeleted |
| `...!IsABox` | IsABoxEach: EnvVault implements SecretBox |
| `...!ClusterSecretsStayAtHome` | ClusterIsConsistent |
| `...!PoolHolds` | PoolHoldsOut |
| `...!ContentInductive` | ContentInv, the inductive invariant |
| `...!ContentHolds`, `OneIsLeft`, `AppsAreThere` | DocumentsAreConsistent, ReplacedMeansOne, ImportedAppsExist |
| `SlackThreads_proofs!Inductive`, `HistoryInductive` | IInv; the same with AloneInv |
| `...!MessagesReachTheirSenders`, `ThreadsLeadHome` | ThreadsAreConsistent, AloneThreadsLeadHome |
| `TicketDesk_proofs!Inductive` | IInv, the inductive invariant |
| `...!TicketsAreOpenedFirst`, `OwnersAreAsked`, `AttemptsAreTidy` | RequestsHaveTheirTickets, AssigneeWasTheOwner, AttemptsLeaveNoMess |

**Assumptions.** They are the modules' named ASSUMEs, and TLC evaluates all of them. The null
values are not rows, conversations, handlers or people (`NoneIsNothing`, `NoneIsNoRow`,
`NobodyIsNoOne`, `NoneIsNoWorkspace` and a part of each `ConstantsAssumption`), and bounds are natural numbers
(`MaxInboxIsNat`, `MaxAttemptsIsNat`). Requests of different kinds are different, and ids that
nanoid has yet to draw are not those there are (`RequestsDiffer` of WorkspaceWipe, `IdsDiffer` of
Catalog). A token may name any workspace by its id (`TokensNameIds`). Tables are finite (`TablesAreFinite`), names are in an
order and a page has rows.
For the vaults, folding to upper case is stable and ids of workspaces differ in more than case (nanoid
draws them from letters and digits of both cases; that two are drawn that differ in case only is the
chance that `IdsDiffer` of EnvVault and `LabelsDiffer` of MCVault exclude). The graph takes a step and the guardrail is shown a message (`ConstantsAssumption` of AgentGraph).
The pool has three connections for each listener, and its users are finitely many and each of one kind
(`ListenersFit` of MCConnectionPool): the first is what SQLAlchemy's and Bolt's defaults amount to, fifteen connections
and five threads. The names of Okta's applications are sequences of characters, any number of them
and of any length, and its groups' ids are none that clients choose (`NamesAssumption` of MCContentStore).

**AccessRequest.** TypeOK is not inductive: an UPDATE produces a row only if the row
exists. `TableInv` adds why it does: a handler is about a committed row, rows are never
deleted, a write never changes a row's type or previous conversation, is made
under the row lock, and names only ids generated before. A commit publishes whatever
its transaction wrote, so the safety invariants need to know what that may be at each
point of a handler: `HandlerInv(w)` says, for instance, that between the insert of
the owner's conversation and the commit the transaction of w has written that
row, of the right type, about the row w handles, and that its checkpoint exists once
the point "seed" is passed. `OtherHandlers` shows once for all that no step of
another handler can disturb it. `LockOrder` then follows: locks are held for writes only
(`RowsInv`), and HandlerInv knows what was written.

**The ledger.** That a commit is one entry of RequestLedger takes more: not what a
transaction may have written, but exactly what it has, at each of the four commit points
(`TransactionInv`): a hand-over the owner's row and the requester's, completed; a
cancellation one row or a pair, all cancelled. `OtherTransactions` is again shown once. Each
step then maps to the entry that its commit point names, or to a stutter: nothing before a
commit is visible, and an abort leaves what was visible.

**One at a time.** While handlers do not overlap, what a route has tested of a row is still so when it
writes it (`RouteInv`), so no route moves a request that was handed over (`HandedOverIsClosed`). A
turn then begins on none (`TurnBegins`), and while one goes on nobody else commits an
owner's conversation (`TurnGoesOn`): whoever is at work on a request that was handed over has
done so itself (`TurnInv`).

**Handlers, turns and listeners one at a time.** The `Alone...` properties are about the past: as
long as `overlapped` is false, one of them is under way at most (`OneIsBusy`). That is what
carries a test to the write it was made for, over any number of
statements in between: `RouteInv` (a route's row is as it was tested), `TurnIsSaved` (the
checkpoint is what the turn knows, its message included), `NoneYet` (a thread that a
listener found without a conversation still has none). What failed or crashed handlers leave is part of the state
they start from, so `HandedOverIsClosed` is said of all committed rows, and not of the handler
that made them.

**RuleStore.** The invariant says that the tables are what was accepted, that a
rule's context names rows that are there, and what each handler with an open transaction
may rely on: what it has read is still so, because the loop is its own or a key is pinned.

**AgentGraph.** `TurnInv` is about what a turn may find in the last checkpoint at all, not
about who wrote it: so it stands however turns overlap. From it follows, node by
node, who its answer comes from. `ReadInv` says what of its messages was judged: at the guardrail its
own is the last of them, so that whatever is before the window is before it by as
much (`ShownIsJudged`), and nothing but agents' messages comes after it (`AddJudged`). That
rejected messages are marked is said of the checkpoint and of the one turn that is under way
(`MarksInv`), and only while turns do not overlap: another turn may put its message between a rejected one
and the apology, or lose both.

**WorkspaceWipe.** That no row is an orphan is not inductive, as a deletion takes its rows table by
table while writers have rows that nobody else sees. `KeptRefersToKept` looks ahead:
what is left when the deletion commits refers to what is left, and what a writer
holds refers to that or to what else it holds, so either may commit first. The order of the statements
is the other half: a table is cleared after those that refer to it, so that
`WorkspaceComesLast` can say that at the last statement everything is doomed and
nobody holds a row, and `ForgottenOnTheWay` that the documents and secrets, which no rollback brings back,
went before.

**Catalog.** A list is ordered by name and cut into pages by offset, and the model cuts it by rank,
so the proof begins with a theory of ranks in a finite set of numbers: ranks are in order
(`RanksAreOrdered`), the first n have the ranks below n and there are n of them
(`FewAreBelow`, `ManyAreBelow`), and a page that is not full is the last (`LastPage`). No
induction is needed for them: that a set of numbers has a least element (`LeastNumber`) follows
from the library's theorem that the finite subsets of a set are well-founded. The invariant of a walk (`WalkInv`) is then that all of what was listed at the
start and is now before the offset has been seen: an insert moves rows to higher places only, and
a page takes the offset past exactly those it shows. `HeldInv` (an inserted row can still be committed)
is what the unique index and the foreign key see to, and `CopyInv` says what a copy
is good for: a copied row may be gone, but it has not changed its name or place. The two action properties
follow from it with `LoopInv`: a copy of an application is as the row is until it is written.

**The vaults.** `KeysTellOwners`: a variable holds a secret of the workspace its name begins with.
What a deletion has listed was there when it listed, and only a deletion of the same
workspace takes it away, on the event loop, which the one that listed still keeps. The
refinement maps a step to one operation of the box, or none. In the cluster names may
collide, and it is `LabelsTellOwners` that keeps readers apart: a secret's label is that of the
workspace whose value it holds. `ServersHaveTheEnvironment` carries the theorems on the
environment over to the composed specification that TLC runs.

**SlackThreads.** Nothing compares assignees, so the invariant follows the thread: an event has a writer
(`EventsHaveWriters`), the thread of a conversation is in the messages of its assignee
(`RowsAreAtHome`), and a message reaches a conversation of its thread, in the workspace of its
writer (`HeardInItsThread`).

**TicketDesk.** `AttemptsAreCounted` ties calls, failures and turns to each other;
each attempt opens one ticket at most, which is a new one (`TicketsAreNumbered`) and that of no
other turn and of no row until the turn inserts its own (`TicketsAreInHand`), also where the turn has
inserted others before. From that the bound on orphaned
tickets is an argument about cardinalities, one step at a time.

**The pool.** How many connections are free is a count, and nothing here can be proved by
induction over the users it runs over. So the model counts a set instead: the connections handed out, each
a user with a number (`HandedOut`). A step adds one element, takes one away, or takes all of one
user's, and the library's facts about cardinalities do the rest (`PoolGoes`). Where
only listeners have connections, the set is within the product of the listeners with 1..3, and it
lacks an element of it as long as one of them waits (`ListenersAlone`): so one is free. Where
everybody who has a connection waits for one more, a listener has two at most and a tool one, and anyone
else, who may only have one, has none: so the set is within the product of the listeners with 1..2
and the tools' first connections, and as it has as many elements as the pool, the tools are as many as
`KnotTakesTools` says (`KnotIsOfTools`).
`PoolInv` adds to the types that whoever waits has fewer connections than it may have.

**ContentStore.** What create_app_name makes of a name is defined by recursion on its length, and
that it has no "_" is a fact about all lengths. The least number to which the claim does not apply takes
the place of an induction (`LeastNumber`, which follows from the library's theorem that the finite
subsets of a set are well-founded): once to show that the recursive function exists
(`KeptIsDefined`), and once for what its values are (`NamesAreMade`). DocumentsAreConsistent is not
inductive, as what is due is not there between the two halves of a replacement. `ContentInv` adds
whose hand it is in (`DueIsThere`, `InHand`), that the ids that directories share at the moment are
known to be shared (`SharingIsKnown`: what a deletion takes of another directory than its own is of such an id), that one request at most keeps the event loop
(`OneIsBusy`), and what that one has made place for: nothing is stored under its id or in its
directory, and the applications its documents name are there (`PlaceIsMade`). What is
stored is by requests that are over (`StoredByOver`), so that an import that begins has nothing to
mix with. `OnlyTheBusyOneActs` then gives the two action properties: between the halves there is
no step of anybody else.

## 5. What is only model-checked

Liveness (EveryHandlerEnds, LoopComesFree, EveryTurnEnds, EveryWipeEnds, EveryImportEnds,
EverybodyIsServed) is out of TLAPS's reach here, as is ENABLED, which the fairness conditions are
made of. Every other property that a run checks is proved. What the Refuted... runs refute is, of
course, not.

## 6. Where code and words differ

One run refutes what the code says of itself:

| run | the code's words | what it does |
|---|---|---|
| `refuted_cancel` | "cannot cancel non active conversation" (`routers/conversation.py:326`) | the status is tested before the row is locked: a cancellation that has tested it overwrites what another handler wrote since; in TLC's trace (Create, CancelConv, ArchiveConv and its commit, then CancelUpdate) a conversation that has been archived is cancelled |

The other configurations named `Refuted...` are not among the regular runs; each has one property, which
TLC refutes when it is run by hand (`tlc -config RefutedMovesAreApplied.cfg MCCatalog`):

| configuration, module | the code's words | what it does |
|---|---|---|
| `RefutedUnarchivesOnlyArchived`, MCAccessRequest | "cannot unarchive non archived conversation" (`routers/conversation.py:410`) | an unarchive that has tested the status reopens a conversation that a cancellation, begun before it was archived, has cancelled in between |
| `RefutedCompletedIsTheEnd`, MCAccessRequest | "completed: the conversation has been reached it's end." (`models.py:96`) | the turn goes on after the hand-over, and a second call of request_access moves it on |
| `RefutedConflictMeansItExists`, MCRuleStore | "This record already exist." (`models_stores_sql.py:1375`) | a rule that names two things is refused for its own first context |
| `RefutedRuleIsActive`, MCRuleStore | "rule should be active" (`docs/dev/api_exploration.ipynb:741`) | a rule posted without "active" is inactive |
| `RefutedDeletedSuccessfully`, MCWorkspaceWipe | "workspace deleted successfully" (the notebook, after a 204) | an error that is not a foreign key's is swallowed: 204, and the workspace is there |
| `RefutedAppsAreAlphanumeric`, MCContentStore | "apps must be alphanumeric only" (`data_fetching/okta.py:65`) | only "_" is taken out of a name: documents name applications with other characters in them |
| `RefutedImportsKeepToTheirDirectory`, MCContentStore | "could not delete directory {dir.name} data before importing" (`data_fetching/factory.py:64`) | the data is deleted by external id over the whole collection: with it goes what another directory has under one of the ids |
| `RefutedMovesAreApplied`, MCCatalog | "Source path for move/copy operations" (`models.py:217`) | a move or copy has no value, and the patch of it is a 500 |
| `RefutedExistingIsUpdated`, MCVault | "Secret already exists, so update it" (`vault/k8s.py:64`) | the exception is not the one that is caught: setting a secret twice fails |
| `RefutedMissingIsDeleted`, MCVault | "Secret not found, nothing to delete" (`vault/k8s.py:84`) | the same; a workspace that has a secret can therefore not be deleted, as the names listed are prefixed once more |
| `RefutedOwnerReachesTheRequest`, MCSlackThreads | a ticket's answer belongs to its request (`create_ticket_for_role_request_tool.py:147`) | an owner who answers before the hand-over commits begins a conversation of their own |
| `RefutedTicketsHaveNames`, MCTicketDesk | "-> str" (`create_ticket/iface.py:19`) | Jira's client returns a dictionary: the issue is open and the conversation refused |
| `RefutedMailTicketsAreSent`, MCTicketDesk | "def send(self, from_addr: str, to: str \| List[str], msg: str, subject: str)" (`utils/emails/iface.py:7`) | the implementation has `content`, so every ticket by mail is a TypeError |

## 7. Plan

Done: all modules of section 2, and the proofs of section 4, which state every safety property
that a run checks. Left, in this order:

1. **Authz**: auth.py and authz.py with the ownership tests of the routes, over all
   roles and scopes: a pure decision, compared with a reference definition.
2. **Memory**: the pending writes that aget_tuple reads back, the listing of checkpoints and messages.

## 8. What is not modelled, and why

* Authentication and authorization: token verification is a library's, as is the cache of user data
  (a documented expiry, one reader); a decision compares scopes with a constant.
* Pending writes, and the listing of checkpoints and of messages. `aput_writes` stores writes and
  `aget_tuple` gives them back to LangGraph with the checkpoint
  (`models_stores_sql.py:1229-1266`); its query filters the checkpoints only, so that they are the writes of
  every thread. What LangGraph makes of them is LangGraph's: AgentGraph starts a turn from the
  checkpoint alone.
* The limit of 9999 rules, in no order, that the engine reads
  (`llm/tools/rule_engine/rule_engine_agent.py:46`): RuleStore's engine reads all of them.
* What the language models answer, the search by similarity, and what users' and
  accesses' data they are shown: free choices.
* How the webhook and the Boundary client word a provisioning. AccessRequest has their outcomes.
* The words of prompts and answers, i18n, the Slack home tab, the Slack library's
  installation store, `slack/actions_approve_deny.py` (registered by nothing),
  evaluation of prompts, migrations, construction of services.
* A directory is posted with its "provisioning_config" in the notebook
  (`docs/dev/api_exploration.ipynb:568`), which the route drops (`routers/directories.py:39`, a
  TODO): Catalog has what the route does.
* More than one server process: the deployment the documentation describes has one. AccessRequest does not
  depend on it, as its handlers share nothing but the database; RuleStore, Catalog, WorkspaceWipe,
  ContentStore and EnvVault do.
