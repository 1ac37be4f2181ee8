------------------------------- MODULE Catalog -------------------------------
(***************************************************************************)
(* What the administrators keep: workspaces, and the applications and      *)
(* directories of each.  They are created, patched, deleted and listed     *)
(* page by page.                                                           *)
(*                                                                         *)
(* POST is a plain function and runs in the thread pool, with a            *)
(* transaction of its own.  PATCH, DELETE and the lists of applications    *)
(* and directories are coroutines without an await: each keeps the event   *)
(* loop from its first statement to its last.  PATCH of a workspace does   *)
(* so too, but what it patches is the copy that a dependency read before   *)
(* the other dependencies were waited for.                                 *)
(***************************************************************************)
EXTENDS Naturals, FiniteSets

CONSTANTS
    Homes,      \* ids of workspaces
    Tokens,     \* what a token may name a workspace by
    External,   \* the external id each workspace is created with
    Old,        \* ids of applications and directories that are there at the start
    Clients,    \* requests that create, patch or delete, one each
    Walkers,    \* clients that list page by page
    Names,      \* numbers: names in their order
    Asked,      \* the fields that patches name
    Limit,      \* rows on a page
    None        \* no value, no row

ASSUME NamesAreOrdered == Names \subseteq Nat
ASSUME PagesHaveRows == Limit \in Nat \ {0}
\* An external id is what a client has chosen: that of another workspace, or its id.
\* Where there is none, it is something that no token names.
ASSUME TokensNameIds == Homes \subseteq Tokens
ASSUME IdsDiffer == Homes \cap Old = {} /\ Homes \cap Clients = {} /\ Old \cap Clients = {}
ASSUME TablesAreFinite == IsFiniteSet(Homes) /\ IsFiniteSet(Old)

\* What a patch of each may name.
ApplicationFields == {"aliases", "extra_instructions", "provision_schema"}
DirectoryFields == {"provisioning_config", "data_owner_config", "read_config"}
WorkspaceFields ==
    {"display_name", "logo_url", "config/email", "config/data_owner",
     "config/access_requests_method"}

Listed == {"applications", "directories"}
Kinds == Listed \cup {"workspaces"}

Mutable(kind) ==
    CASE kind = "applications" -> ApplicationFields
      [] kind = "directories" -> DirectoryFields
      [] kind = "workspaces" -> WorkspaceFields

\* A created row has the id of its client; a workspace is its own home.  Each field
\* holds the client that patched it last.
Row == [id : Clients \cup Old \cup Homes, kind : Kinds, home : Homes, name : Names,
        by : [Asked -> Clients \cup {None}]]

ASSUME NoneIsNoRow == None \notin Row

NewRow(i, kind, h, n) ==
    [id |-> i, kind |-> kind, home |-> h, name |-> n, by |-> [f \in Asked |-> None]]

VARIABLES
    rows,       \* the committed rows of the three tables
    held,       \* the row that each client's open transaction has inserted
    home,       \* the workspace each client was let into
    pc,         \* where each client is
    copy,       \* the row each client has read, or would insert
    answer,     \* the status code each client was answered with
    walk,       \* what each walker has seen
    gone        \* history: the rows that were deleted

client == <<home, pc, copy, answer>>
vars == <<rows, held, client, walk, gone>>

\* No route is between two statements on the event loop.
LoopIsFree ==
    /\ \A c \in Clients : pc[c] # "patching"
    /\ \A w \in Walkers : walk[w].pc # "counted"

Goto(c, point) == pc' = [pc EXCEPT ![c] = point]

Answer(c, code) ==
    /\ Goto(c, "over")
    /\ answer' = [answer EXCEPT ![c] = code]
    /\ UNCHANGED home

\* The request is answered and nothing has changed.
Refuse(c, code) ==
    /\ Answer(c, code)
    /\ UNCHANGED <<rows, held, copy, walk, gone>>

Workspaces == {r \in rows : r.kind = "workspaces"}
Exists(h) == \E r \in Workspaces : r.id = h

-----------------------------------------------------------------------------
(***************************************************************************)
(* Creating.                                                               *)
(***************************************************************************)

\* get_by_id of workspaces finds by the id or the external id, and takes any one row.
NamedBy(t) == {r \in Workspaces : r.id = t \/ External[r.id] = t}

\* The dependency reads a workspace that the token names, and other dependencies are
\* waited for.  The request works in it from here on, and a patch of the workspace on
\* what is read here.
Enter(c, token) ==
    /\ pc[c] = "idle"
    /\ LoopIsFree
    /\ \E r \in NamedBy(token) :
        copy' = [copy EXCEPT ![c] = r] /\ home' = [home EXCEPT ![c] = r.id]
    /\ Goto(c, "entered")
    /\ UNCHANGED <<rows, held, answer, walk, gone>>

EnterNowhere(c, token) ==
    /\ pc[c] = "idle"
    /\ LoopIsFree
    /\ NamedBy(token) = {}
    /\ Refuse(c, "400")

\* The unique indexes: on a workspace's name, and on the name of an application or
\* directory within its workspace.
SameName(q, r) ==
    /\ q.kind = r.kind
    /\ q.name = r.name
    /\ q.kind = "workspaces" \/ q.home = r.home

NameIsTaken(r) == \E q \in rows : SameName(q, r)

\* Slip: names are looked up, and no index sees to it that they are unique.
NameIsNeverPending(r) == FALSE

\* An insertion waits while another transaction has inserted the name.
NameIsPending(r) == \E d \in Clients : held[d] # None /\ SameName(held[d], r)

\* handle_db_operation: 409 for a name that is taken, 400 for a workspace that is
\* gone.
Insert(c, r) ==
    /\ copy' = [copy EXCEPT ![c] = r]
    /\ UNCHANGED <<rows, walk, gone>>
    /\ \/ NameIsTaken(r) /\ Answer(c, "409") /\ UNCHANGED held
       \/ /\ ~NameIsTaken(r) /\ ~NameIsPending(r)
          /\ r.kind \in Listed /\ ~Exists(r.home)
          /\ Answer(c, "400")
          /\ UNCHANGED held
       \/ /\ ~NameIsTaken(r) /\ ~NameIsPending(r)
          /\ r.kind \in Listed => Exists(r.home)
          /\ held' = [held EXCEPT ![c] = r]
          /\ Goto(c, "inserted")
          /\ UNCHANGED <<home, answer>>

CreateApplication(c, n) ==
    pc[c] = "entered" /\ Insert(c, NewRow(c, "applications", home[c], n))

\* Of the body only the name is looked at: no field of a directory is set.
CreateDirectory(c, n) ==
    pc[c] = "entered" /\ Insert(c, NewRow(c, "directories", home[c], n))

\* No dependency reads a workspace.  The id is a fresh one.
CreateWorkspace(c, h, n) ==
    /\ pc[c] = "idle"
    /\ ~Exists(h)
    /\ \A d \in Clients : held[d] # None => held[d].id # h
    /\ \A r \in rows \cup gone : r.id # h
    /\ Insert(c, NewRow(h, "workspaces", h, n))

CommitInsert(c) ==
    /\ pc[c] = "inserted"
    /\ rows' = rows \cup {held[c]}
    /\ held' = [held EXCEPT ![c] = None]
    /\ Answer(c, "201")
    /\ UNCHANGED <<copy, walk, gone>>

\* The transaction fails, and is rolled back.
CreateFails(c) ==
    /\ pc[c] = "inserted"
    /\ held' = [held EXCEPT ![c] = None]
    /\ Answer(c, "500")
    /\ UNCHANGED <<rows, copy, walk, gone>>

-----------------------------------------------------------------------------
(***************************************************************************)
(* Reading, deleting and patching one row.                                 *)
(***************************************************************************)

\* Slip: get_by_id looks in every workspace.
FoundAnywhere(c, kind) == {r \in rows : r.kind = kind}

\* get_by_id looks in the workspace of the client.
Found(c, kind) == {r \in rows : r.kind = kind /\ r.home = home[c]}

Missing(c, kind) == \E id \in Clients \cup Old : \A r \in Found(c, kind) : r.id # id

\* GET of one: its transaction reads and does nothing else.
Get(c, kind) ==
    /\ pc[c] = "entered"
    /\ \/ Found(c, kind) # {} /\ Refuse(c, "200")
       \/ Missing(c, kind) /\ Refuse(c, "404")

GetApplication(c) == Get(c, "applications")
GetDirectory(c) == Get(c, "directories")

GetWorkspace(c) ==
    /\ pc[c] = "idle"
    /\ \/ Workspaces # {} /\ Refuse(c, "200")
       \/ (\E t \in Tokens : NamedBy(t) = {}) /\ Refuse(c, "404")

\* Slip: the routes that delete are plain functions.
DeleteThreaded(c, kind) ==
    /\ pc[c] = "entered"
    /\ \/ /\ \E r \in Found(c, kind) : rows' = rows \ {r} /\ gone' = gone \cup {r}
          /\ Answer(c, "204")
          /\ UNCHANGED <<held, copy, walk>>
       \/ Missing(c, kind) /\ Refuse(c, "404")

Delete(c, kind) ==
    /\ pc[c] = "entered"
    /\ LoopIsFree
    /\ \/ /\ \E r \in Found(c, kind) : rows' = rows \ {r} /\ gone' = gone \cup {r}
          /\ Answer(c, "204")
          /\ UNCHANGED <<held, copy, walk>>
       \/ Missing(c, kind) /\ Refuse(c, "404")

\* Slip: the routes that patch are plain functions.
ReadThreaded(c, kind) ==
    /\ pc[c] = "entered"
    /\ \E r \in Found(c, kind) : copy' = [copy EXCEPT ![c] = r]
    /\ Goto(c, "patching")
    /\ UNCHANGED <<rows, held, home, answer, walk, gone>>

\* The route of a patch has read the row it is about.
Read(c, kind) ==
    /\ pc[c] = "entered"
    /\ LoopIsFree
    /\ \E r \in Found(c, kind) : copy' = [copy EXCEPT ![c] = r]
    /\ Goto(c, "patching")
    /\ UNCHANGED <<rows, held, home, answer, walk, gone>>

\* validate_path, before the route: some fields may not be patched.
PatchIsInvalid(c, f) ==
    /\ pc[c] = "entered"
    /\ \E kind \in Kinds : f \notin Mutable(kind)
    /\ Refuse(c, "422")

\* There is no row to patch; or the patch cannot be applied: model_dump names
\* "from_" what a move or a copy would need as "from".
PatchFails(c, kind) ==
    /\ pc[c] = "entered"
    /\ LoopIsFree
    /\ \/ Missing(c, kind) /\ Refuse(c, "404")
       \/ Found(c, kind) # {} /\ Refuse(c, "500")

\* Slip: what is not there is inserted.
Upsert(r) == rows' = {q \in rows : q.id # r.id} \cup {r}

\* update of the store: every column of the row with that id is set to what the
\* patched copy says.  There may be no such row any more.
Store(r) ==
    rows' = {q \in rows : q.id # r.id} \cup {s \in {r} : \E q \in rows : q.id = r.id}

\* jsonpatch sets the field of the copy, and the store is given all of it.
Patch(c, f) ==
    /\ f \in Mutable(copy[c].kind)
    /\ Store([copy[c] EXCEPT !.by[f] = c])
    /\ Answer(c, "200")
    /\ UNCHANGED <<held, copy, walk, gone>>

UpdateApplication(c, f) ==
    pc[c] = "patching" /\ copy[c].kind = "applications" /\ Patch(c, f)

UpdateDirectory(c, f) ==
    pc[c] = "patching" /\ copy[c].kind = "directories" /\ Patch(c, f)

\* The workspace patched is the one the client was let into, whatever the path says.
UpdateOrg(c, f) ==
    /\ pc[c] = "entered"
    /\ LoopIsFree
    /\ Patch(c, f)

\* A deletion of the workspace: everything of it goes at once.  It waits for
\* insertions that refer to the workspace.
WorkspaceIsWiped(h) ==
    /\ LoopIsFree
    /\ \A c \in Clients : held[c] # None => held[c].home # h
    /\ rows' = {r \in rows : r.home # h}
    /\ gone' = gone \cup {r \in rows : r.home = h}
    /\ UNCHANGED <<held, client, walk>>

-----------------------------------------------------------------------------
(***************************************************************************)
(* Listing.                                                                *)
(***************************************************************************)

Listing(w) == {r \in rows : r.kind = walk[w].kind /\ r.home = walk[w].home}

Ids(S) == {r.id : r \in S}

\* A client begins to list; "start" and "gone" are history.
StartWalk(w, kind, h) ==
    /\ walk[w].pc = "idle"
    /\ walk' = [walk EXCEPT ![w] =
                   [pc |-> "between", kind |-> kind, home |-> h, offset |-> 0, total |-> 0,
                    page |-> {}, seen |-> {},
                    start |-> Ids({r \in rows : r.kind = kind /\ r.home = h}), gone |-> gone]]
    /\ UNCHANGED <<rows, held, client, gone>>

ListApplications(w, h) == StartWalk(w, "applications", h)
ListDirectories(w, h) == StartWalk(w, "directories", h)

\* The first statement of list counts the rows.
Count(w) ==
    /\ walk[w].pc = "between"
    /\ LoopIsFree
    /\ walk' = [walk EXCEPT ![w].pc = "counted", ![w].total = Cardinality(Listing(w))]
    /\ UNCHANGED <<rows, held, client, gone>>

\* Slip: the query has no ORDER BY, as that of the rules.
AnyPage(S, offset) ==
    CHOOSE P \in SUBSET S :
        Cardinality(P) = IF Cardinality(S) <= offset THEN 0
                         ELSE IF Cardinality(S) - offset < Limit THEN Cardinality(S) - offset
                         ELSE Limit

\* ORDER BY name OFFSET offset LIMIT limit.
Page(S, offset) ==
    {r \in S : LET rank == Cardinality({q \in S : q.name < r.name})
               IN offset <= rank /\ rank < offset + Limit}

\* The second statement fetches the page.  The client asks for the next one until
\* a page is not full.
Fetch(w) ==
    /\ walk[w].pc = "counted"
    /\ LET page == Page(Listing(w), walk[w].offset) IN
        walk' = [walk EXCEPT
            ![w].pc = IF Cardinality(page) < Limit THEN "done" ELSE "between",
            ![w].page = Ids(page),
            ![w].seen = @ \cup Ids(page),
            ![w].offset = IF Cardinality(page) < Limit THEN @ ELSE @ + Limit]
    /\ UNCHANGED <<rows, held, client, gone>>

-----------------------------------------------------------------------------
Idle ==
    [pc |-> "idle", kind |-> "none", home |-> None, offset |-> 0, total |-> 0,
     page |-> {}, seen |-> {}, start |-> {}, gone |-> {}]

\* Each workspace has a name of its own, and so has each old row in its workspace.
Init ==
    /\ \E there \in SUBSET Homes, ws \in [Homes -> Names],
           old \in [Old -> [kind : Listed, home : Homes, name : Names]] :
        /\ \A o \in Old : old[o].home \in there
        /\ rows = {NewRow(h, "workspaces", h, ws[h]) : h \in there}
                  \cup {NewRow(o, old[o].kind, old[o].home, old[o].name) : o \in Old}
        /\ \A q, r \in rows : SameName(q, r) => q = r
    /\ held = [c \in Clients |-> None]
    /\ home = [c \in Clients |-> None]
    /\ pc = [c \in Clients |-> "idle"]
    /\ copy = [c \in Clients |-> None]
    /\ answer = [c \in Clients |-> "none"]
    /\ walk = [w \in Walkers |-> Idle]
    /\ gone = {}

Create(c) ==
    \/ \E token \in Tokens : Enter(c, token) \/ EnterNowhere(c, token)
    \/ \E n \in Names :
        \/ CreateApplication(c, n)
        \/ CreateDirectory(c, n)
        \/ \E h \in Homes : CreateWorkspace(c, h, n)
    \/ CommitInsert(c)
    \/ CreateFails(c)

Use(c) ==
    \/ GetWorkspace(c)
    \/ GetApplication(c)
    \/ GetDirectory(c)
    \/ \E kind \in Listed : Delete(c, kind) \/ Read(c, kind) \/ PatchFails(c, kind)
    \/ \E f \in Asked :
        \/ PatchIsInvalid(c, f)
        \/ UpdateApplication(c, f)
        \/ UpdateDirectory(c, f)
        \/ UpdateOrg(c, f)

List(w) ==
    \/ \E h \in Homes : ListApplications(w, h) \/ ListDirectories(w, h)
    \/ Count(w)
    \/ Fetch(w)

Next ==
    \/ \E c \in Clients : Create(c) \/ Use(c)
    \/ \E w \in Walkers : List(w)
    \/ \E h \in Homes : WorkspaceIsWiped(h)

Spec == Init /\ [][Next]_vars

-----------------------------------------------------------------------------
TypeOK ==
    /\ rows \subseteq Row
    /\ \A q, r \in rows : q.id = r.id \/ SameName(q, r) => q = r
    /\ \A r \in rows : Exists(r.home)
    /\ held \in [Clients -> Row \cup {None}]
    /\ home \in [Clients -> Homes \cup {None}]
    /\ pc \in [Clients -> {"idle", "entered", "inserted", "patching", "over"}]
    /\ copy \in [Clients -> Row \cup {None}]
    /\ answer \in [Clients -> {"none", "200", "201", "204", "400", "404", "409", "422", "500"}]
    /\ gone \subseteq Row

\* A patch of an application or a directory changes the field it names and no
\* other, though it writes every column from a copy: nobody's patch is undone
\* (update_application and update_directory do not await between reading the row
\* and writing it).  Patches of a workspace do undo each other.
PatchChangesItsField ==
    [][\A q \in rows, r \in rows' :
        q.id = r.id /\ q.kind \in Listed =>
            \A f, g \in Asked : q.by[f] # r.by[f] /\ q.by[g] # r.by[g] => f = g]_vars

\* A write keeps its place: a client changes nothing in a workspace other than the
\* one it was let into, though the stores update a row by its id alone; and what was
\* deleted does not come back, though a patch may write a row that it read before
\* the row was deleted (update of the stores).  Which workspace that is, the external
\* ids decide: a token whose workspace is the external id of another is let into
\* either (WorkspaceStoreSQL.get_by_id).
WritesKeepTheirPlace ==
    [][/\ \A c \in Clients :
            pc[c] \in {"entered", "patching"} /\ pc'[c] # pc[c] =>
                {r \in rows : r.home # home[c]} = {r \in rows' : r.home # home[c]}
       /\ \A r \in rows' : r.id \notin Ids(rows) => \E c \in Clients : held[c] = r]_vars

\* A patch of a field that may be patched, of a row that is there, does not fail: a
\* patch has a "Source path for move/copy operations" (models.py, PatchOperation).
MovesAreApplied ==
    [][\A c \in Clients :
        answer'[c] = "500" /\ answer[c] # "500" => pc[c] = "inserted"]_vars

GoneSince(w) ==
    {r \in gone \ walk[w].gone : r.kind = walk[w].kind /\ r.home = walk[w].home}

\* A client that lists page by page sees every row that was there when it began,
\* whatever is inserted meanwhile, as long as nothing is deleted (the order of
\* list in the stores of applications and directories).
WalkMissesNothing ==
    \A w \in Walkers :
        walk[w].pc = "done" /\ GoneSince(w) = {} => walk[w].start \subseteq walk[w].seen

\* A page that is not full is the last one by its total as well: no list
\* announces rows that it does not go on to show, though total and page are two
\* statements (the routes list of applications and directories).
TotalIsReached ==
    \A w \in Walkers :
        walk[w].pc = "done" => walk[w].total <= walk[w].offset + Cardinality(walk[w].page)

\* Names are unique in a workspace, whoever creates, patches and deletes, every row
\* is in a workspace that is there, and no list announces more than it shows.
CatalogIsConsistent == TypeOK /\ TotalIsReached

=============================================================================
