---------------------------- MODULE MCContentStore ----------------------------
(***************************************************************************)
(* The instance of ContentStore that TLC explores, with names of its own   *)
(* so that Resources_proofs can extend it along with the other resources.  *)
(* An id is meant to be one document's, but nothing keeps two directories  *)
(* from using it: a history variable tells which ids they ever shared.     *)
(***************************************************************************)
CONSTANTS
    Requests, Dirs, Exts, Groups, OktaApps

VARIABLES
    docs, apps, assigned,
    point,      \* pc of ContentStore
    job, fetched, answer, due,
    shared      \* ids under which two directories ever had documents at once

Content == INSTANCE ContentStore WITH pc <- point

ASSUME NamesAssumption == Content!NamesAreWords

ContentInit == Content!Init /\ shared = {}

Shares == shared' = shared \cup Content!SharedIds(docs')

ContentNext == Content!Next /\ Shares

ContentSpec == ContentInit /\ [][ContentNext]_<<Content!vars, shared>>

ContentFairSpec ==
    /\ ContentSpec
    /\ \A r \in Requests : WF_(Content!vars)(Content!Step(r))

\* A plain name, one that becomes it, and one that stays invalid.
ThreeNames == {<<"a">>, <<"a", "_">>, <<"b", "-", "c">>}

\* What the answers promise is there can be found, in its directory: a document
\* that was added or replaced stays until a request removes or replaces its id, or an
\* import replaces its directory.  This is so of ids that are one directory's: where
\* two have used an id, the import of one also takes the other's document away, as
\* the store deletes by the id alone (background_data_fetch, delete_ids).
AcceptedIsFound ==
    Content!LoopIsFree => \A p \in due : p[2] \notin shared => Content!Found(p)

\* What requests and imports rely on of the store while they interleave: what was
\* accepted is found, two imports of a directory never leave the documents of both,
\* and every variable keeps its type (background_data_fetch, the routes of content.py).
DocumentsAreConsistent == Content!TypeOK /\ AcceptedIsFound /\ Content!ImportsDoNotMix

\* A replacement that is answered 200 leaves exactly the new document under its
\* external id, however many there were (update of content.py).
ReplacedMeansOne == Content!ReplacedMeansOne

\* An import that creates applications stores no document about an application
\* there is not (create_app_name in fetch_content).
ImportedAppsExist == Content!ImportedAppsExist

\* An import ends, however many groups there are.
EveryImportEnds == Content!EveryImportEnds

\* The log line in background_data_fetch: "could not delete directory {dir.name}
\* data before importing".  What an import deletes is that directory's.
ImportsKeepToTheirDirectory == Content!ImportsKeepToTheirDirectory

\* The comment in fetch_content: "apps must be alphanumeric only".
AppsAreAlphanumeric == Content!AppsAreAlphanumeric

=============================================================================
