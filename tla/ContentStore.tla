----------------------------- MODULE ContentStore -----------------------------
(***************************************************************************)
(* The documents of one workspace in its vector store: the routes that     *)
(* add, replace and remove them, and the import that replaces what a       *)
(* directory has by one document for each group of its Okta tenant.        *)
(*                                                                         *)
(* All of it runs on the event loop.  A route has no await.  An import is  *)
(* a background task: it awaits Okta once for every group, and then not    *)
(* any more.  Every call of the vector store commits at once, and searches *)
(* of the agents read it at any time.                                      *)
(***************************************************************************)
EXTENDS Naturals, Sequences, FiniteSets

CONSTANTS
    Requests,   \* requests to the server, imports among them
    Dirs,       \* directories that have an import configured
    Exts,       \* external ids of documents that clients add
    Groups,     \* groups of the Okta tenant; their ids are external ids, too
    OktaApps    \* names of the tenant's applications, as sequences of characters

Letters == {"a", "b", "c"}

\* What is assumed of them (MCContentStore): Okta's names are words, of any length,
\* and its groups' ids are none that clients choose.
NamesAreWords ==
    /\ OktaApps \subseteq Seq(Letters \cup {"_", "-"})
    /\ Exts \cap Groups = {}

Ids == Exts \cup Groups

\* An application as one group's list has it: an object of its own.
Object == Groups \X OktaApps

VARIABLES
    docs,       \* the documents: which request added them, and what they say
    apps,       \* names of the workspace's applications
    assigned,   \* the applications assigned to each group in Okta
    pc,         \* where each request is
    job,        \* what each request is to do
    fetched,    \* the groups an import has fetched
    answer,     \* the status code each request was answered with
    due         \* directories and ids of what the answers given so far promise is there

store == <<docs, apps>>
vars == <<store, assigned, pc, job, fetched, answer, due>>

NoJob == [kind |-> "none"]
Jobs ==
    {NoJob} \cup [kind : {"post"}] \cup [kind : {"put", "remove"}, dir : Dirs, id : Ids]
            \cup [kind : {"import"}, dir : Dirs, create_apps : BOOLEAN]

\* Points at which a request keeps the event loop.
Busy == {"replace", "store"}
LoopIsFree == \A r \in Requests : pc[r] \notin Busy

Goto(r, point) == pc' = [pc EXCEPT ![r] = point]

Over(r, code) ==
    /\ Goto(r, "over")
    /\ answer' = [answer EXCEPT ![r] = code]

-----------------------------------------------------------------------------
(***************************************************************************)
(* What a document is, and the vector store.                               *)
(***************************************************************************)

\* Slip: the name is taken as Okta has it.
create_app_name_unchanged(name) == name

\* What is kept of the first characters, one more at a time.
create_app_name(name) ==
    LET kept[i \in 0..Len(name)] ==
            IF i = 0 THEN <<>>
            ELSE IF name[i] = "_" THEN kept[i - 1] ELSE Append(kept[i - 1], name[i])
    IN kept[Len(name)]

\* The name of an application is lower case letters and digits.
IsValidName(name) == name # <<>> /\ \A i \in DOMAIN name : name[i] \in Letters

\* What a client adds is about no application; a group's document names its own.
Doc(r, dir, id) == [by |-> r, dir |-> dir, id |-> id, apps |-> {}]
GroupDoc(r, g) ==
    [by |-> r, dir |-> job[r].dir, id |-> g, apps |-> {create_app_name(a) : a \in assigned[g]}]

IdsOf(ds) == {d.id : d \in ds}

\* Every document of the collection that has one of the ids.
Without(ids) == {d \in docs : d.id \notin ids}

\* Slip: the list is not restricted to the directory.
ListedEverywhere(dir) == docs

\* Slip: the default limit of the list, which is a page.
ListedOnePage(dir) ==
    IF \E d \in docs : d.dir = dir THEN {CHOOSE d \in docs : d.dir = dir} ELSE {}

\* list_documents, with a limit no directory exceeds.
Listed(dir) == {d \in docs : d.dir = dir}

-----------------------------------------------------------------------------
(***************************************************************************)
(* The routes of /content.                                                 *)
(***************************************************************************)

Ask(r, j) ==
    /\ pc[r] = "idle"
    /\ LoopIsFree
    /\ job' = [job EXCEPT ![r] = j]

\* No document is promised under the id any more, in any directory.
NoLongerDue(id) == {p \in due : p[2] # id}

\* POST: documents for any directories, at once.  What has the same external id stays.
Add(r) ==
    \E added \in SUBSET (Dirs \X Exts) :
        /\ Ask(r, [kind |-> "post"])
        /\ docs' = docs \cup {Doc(r, p[1], p[2]) : p \in added}
        /\ due' = due \cup added
        /\ Over(r, "200")
        /\ UNCHANGED <<apps, assigned, fetched>>

\* DELETE: by the id alone, in whatever directory.
Remove(r) ==
    \E dir \in Dirs, id \in Ids :
        /\ Ask(r, [kind |-> "remove", dir |-> dir, id |-> id])
        /\ docs' = Without({id})
        /\ due' = NoLongerDue(id)
        /\ Over(r, "204")
        /\ UNCHANGED <<apps, assigned, fetched>>

\* Slip: the old document is left to the store to replace.
ReplaceByAdding(r) ==
    \E dir \in Dirs, id \in Ids :
        /\ Ask(r, [kind |-> "put", dir |-> dir, id |-> id])
        /\ Goto(r, "store")
        /\ UNCHANGED <<store, assigned, fetched, answer, due>>

\* PUT: the old documents are deleted, and then the new one is added.
Replace(r) ==
    \E dir \in Dirs, id \in Ids :
        /\ Ask(r, [kind |-> "put", dir |-> dir, id |-> id])
        /\ docs' = Without({id})
        /\ Goto(r, "store")
        /\ UNCHANGED <<apps, assigned, fetched, answer, due>>

StoreReplacement(r) ==
    /\ pc[r] = "store"
    /\ job[r].kind = "put"
    /\ docs' = docs \cup {Doc(r, job[r].dir, job[r].id)}
    /\ due' = NoLongerDue(job[r].id) \cup {<<job[r].dir, job[r].id>>}
    /\ Over(r, "200")
    /\ UNCHANGED <<apps, assigned, job, fetched>>

\* No embedding or no database: what was to be replaced is gone.
ReplacementFails(r) ==
    /\ pc[r] = "store"
    /\ job[r].kind = "put"
    /\ due' = NoLongerDue(job[r].id)
    /\ Over(r, "500")
    /\ UNCHANGED <<store, assigned, job, fetched>>

-----------------------------------------------------------------------------
(***************************************************************************)
(* POST /directories/{id}/.import.                                         *)
(***************************************************************************)

\* 202 is answered before anything is imported.
Import(r) ==
    \E dir \in Dirs, create_apps \in BOOLEAN :
        /\ Ask(r, [kind |-> "import", dir |-> dir, create_apps |-> create_apps])
        /\ Goto(r, "fetch")
        /\ answer' = [answer EXCEPT ![r] = "202"]
        /\ UNCHANGED <<store, assigned, fetched, due>>

\* Slip: the next page is fetched, and the groups of the first one read again.
FetchGroupAgain(r) ==
    /\ pc[r] = "fetch"
    /\ LoopIsFree
    /\ \E g \in Groups : fetched' = [fetched EXCEPT ![r] = {g}]
    /\ UNCHANGED <<store, assigned, pc, job, answer, due>>

\* One group of the page, and the applications it is assigned.  A group without
\* any gives no document.
FetchGroup(r) ==
    /\ pc[r] = "fetch"
    /\ LoopIsFree
    /\ \E g \in Groups \ fetched[r] : fetched' = [fetched EXCEPT ![r] = @ \cup {g}]
    /\ UNCHANGED <<store, assigned, pc, job, answer, due>>

\* Any error ends the import, which nobody is told.
FetchFails(r) ==
    /\ pc[r] = "fetch"
    /\ LoopIsFree
    /\ Over(r, answer[r])
    /\ UNCHANGED <<store, assigned, job, fetched, due>>

GroupsWithApps(r) == {g \in fetched[r] : assigned[g] # {}}

\* The objects of all groups; those of one application are not the same.
AllApps(r) == {o \in Object : o[1] \in GroupsWithApps(r) /\ o[2] \in assigned[o[1]]}
Unknown(r) == {o \in AllApps(r) : create_app_name(o[2]) \notin apps}

\* Each object of an unknown name is inserted.  A name that is no application's,
\* or that comes up twice, raises.
CreatesApps(r) ==
    /\ \A o \in Unknown(r) : IsValidName(create_app_name(o[2]))
    /\ \A o, q \in Unknown(r) : create_app_name(o[2]) = create_app_name(q[2]) => o = q

\* Slip: the applications are created once the documents are there.
ReplaceDirectoryFirst(r) ==
    /\ pc[r] = "fetch"
    /\ LoopIsFree
    /\ fetched[r] = Groups
    /\ docs' = Without(IdsOf(Listed(job[r].dir)))
    /\ due' = {p \in due : p[1] # job[r].dir}
    /\ Goto(r, "replace")
    /\ UNCHANGED <<apps, assigned, job, fetched, answer>>

\* All groups are fetched: the applications are created if the request says so,
\* and what the directory has is deleted, by its ids: with it goes what another
\* directory has under one of them.  Only the former is the request's to take back.
ReplaceDirectory(r) ==
    /\ pc[r] = "fetch"
    /\ LoopIsFree
    /\ fetched[r] = Groups
    /\ IF job[r].create_apps
       THEN /\ CreatesApps(r)
            /\ apps' = apps \cup {create_app_name(o[2]) : o \in AllApps(r)}
       ELSE UNCHANGED apps
    /\ docs' = Without(IdsOf(Listed(job[r].dir)))
    /\ due' = {p \in due : p[1] # job[r].dir}
    /\ Goto(r, "replace")
    /\ UNCHANGED <<assigned, job, fetched, answer>>

CreateAppsFails(r) ==
    /\ pc[r] = "fetch"
    /\ LoopIsFree
    /\ fetched[r] = Groups
    /\ job[r].create_apps
    /\ ~CreatesApps(r)
    /\ Over(r, answer[r])
    /\ UNCHANGED <<store, assigned, job, fetched, due>>

StoreImport(r) ==
    /\ pc[r] = "replace"
    /\ docs' = docs \cup {GroupDoc(r, g) : g \in GroupsWithApps(r)}
    /\ due' = due \cup {<<job[r].dir, g>> : g \in GroupsWithApps(r)}
    /\ Over(r, answer[r])
    /\ UNCHANGED <<apps, assigned, job, fetched>>

StoreImportFails(r) ==
    /\ pc[r] = "replace"
    /\ Over(r, answer[r])
    /\ UNCHANGED <<store, assigned, job, fetched, due>>

-----------------------------------------------------------------------------
Init ==
    /\ docs = {}
    /\ apps = {}
    /\ assigned \in [Groups -> SUBSET OktaApps]
    /\ pc = [r \in Requests |-> "idle"]
    /\ job = [r \in Requests |-> NoJob]
    /\ fetched = [r \in Requests |-> {}]
    /\ answer = [r \in Requests |-> "none"]
    /\ due = {}

\* DELETE /applications/{id}.
DropApp ==
    /\ LoopIsFree
    /\ \E a \in apps : apps' = apps \ {a}
    /\ UNCHANGED <<docs, assigned, pc, job, fetched, answer, due>>

Step(r) ==
    \/ StoreReplacement(r)
    \/ FetchGroup(r)
    \/ ReplaceDirectory(r)
    \/ CreateAppsFails(r)
    \/ StoreImport(r)

Fail(r) == ReplacementFails(r) \/ FetchFails(r) \/ StoreImportFails(r)

Next ==
    \/ \E r \in Requests :
        \/ Add(r) \/ Remove(r) \/ Replace(r) \/ Import(r)
        \/ Step(r)
        \/ Fail(r)
    \/ DropApp

Spec == Init /\ [][Next]_vars

FairSpec == Spec /\ \A r \in Requests : WF_vars(Step(r))

-----------------------------------------------------------------------------
TypeOK ==
    /\ \A d \in docs :
        /\ d.by \in Requests /\ d.dir \in Dirs /\ d.id \in Ids
        /\ d.apps \subseteq Seq(Letters \cup {"-"})
    /\ \A a \in apps : IsValidName(a)
    /\ assigned \in [Groups -> SUBSET OktaApps]
    /\ pc \in [Requests -> {"idle", "fetch", "over"} \cup {"replace", "store"}]
    /\ job \in [Requests -> Jobs]
    /\ fetched \in [Requests -> SUBSET Groups]
    /\ answer \in [Requests -> {"none", "200", "202", "204", "500"}]
    /\ due \subseteq Dirs \X Ids

IsImported(d) == job[d.by].kind = "import"

\* What a directory and an id stand for is there.
Found(p) == \E d \in docs : d.dir = p[1] /\ d.id = p[2]

\* The ids under which more than one directory has documents.
SharedIds(ds) == {d.id : d \in {e \in ds : \E f \in ds : f.id = e.id /\ f.dir # e.dir}}

\* Two imports of one directory that overlap never leave the documents of both:
\* the one that ends last replaces all the other one stored (the deletion and the
\* addition in background_data_fetch, with no await in between).
ImportsDoNotMix ==
    \A d, e \in docs :
        IsImported(d) /\ IsImported(e) /\ d.dir = e.dir => d.by = e.by

\* A replacement that is answered 200 leaves exactly the new document under its
\* external id, however many there were (update of content.py).
ReplacedMeansOne ==
    [][\A r \in Requests :
        pc[r] = "store" /\ answer'[r] = "200" =>
            {d \in docs' : d.id = job[r].id} = {Doc(r, job[r].dir, job[r].id)}]_vars

\* An import that creates applications stores no document about an application
\* there is not: otherwise an agent that looks up the roles of an application by
\* its name would never find these (create_app_name in fetch_content).
ImportedAppsExist ==
    [][\A r \in Requests :
        pc[r] = "replace" /\ job[r].create_apps =>
            \A d \in docs' \ docs : d.apps \subseteq apps']_vars

\* An import ends, however many groups there are.
EveryImportEnds == \A r \in Requests : pc[r] = "fetch" ~> pc[r] = "over"

\* The log line in background_data_fetch: "could not delete directory {dir.name}
\* data before importing".  What an import deletes is that directory's.
ImportsKeepToTheirDirectory ==
    [][\A r \in Requests : ReplaceDirectory(r) => \A d \in docs \ docs' : d.dir = job[r].dir]_vars

\* The comment in fetch_content: "apps must be alphanumeric only".
AppsAreAlphanumeric == \A d \in docs : \A a \in d.apps : IsValidName(a)

=============================================================================
