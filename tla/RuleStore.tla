------------------------------- MODULE RuleStore -------------------------------
(***************************************************************************)
(* The auto-approval rules: the tables rules and rules_context, the routes *)
(* that create, patch and delete a rule, the routes that delete an         *)
(* application or a directory a rule may name, and the query with which    *)
(* the rule engine picks the rules of one access request.                  *)
(*                                                                         *)
(* One server process runs all of this.  Its event loop takes every        *)
(* request.  POST /rules is a plain function and runs in the thread pool.  *)
(* The other routes are coroutines without an await: each keeps the event  *)
(* loop from its first statement to its commit.                            *)
(***************************************************************************)
EXTENDS FiniteSets

CONSTANTS
    Rules,      \* rule ids
    Apps,       \* applications that exist at the start
    Dirs,       \* directories that exist at the start
    Whens,      \* texts of a rule
    Workers,    \* requests the server handles at the same time
    NoRule,     \* there is no such rule, or it names nothing
    Omitted     \* a field the request leaves out

Scopes == Apps \cup Dirs

Row == [active : BOOLEAN, when : Whens]

\* The body of POST /rules: CreateRuleBody.
Body == [active : BOOLEAN \cup {Omitted}, when : Whens,
         apps : SUBSET Apps, dirs : SUBSET Dirs]

\* The body of PATCH /rules/{id}: only RULE_MUTABLE_FIELDS may be replaced.
Patch == [active : BOOLEAN \cup {Omitted}, when : Whens \cup {Omitted}]

ASSUME ConstantsAssumption ==
    /\ Apps \cap Dirs = {}
    /\ NoRule \notin Row \cup Body \cup Rules \cup Scopes
    /\ Omitted \notin BOOLEAN \cup Whens

VARIABLES
    rules,      \* the committed rows of rules
    contexts,   \* the committed rows of rules_context: <<rule, what it names>>
    present,    \* the committed applications and directories
    pc,         \* where each handler is
    job,        \* what each handler works on
    linked,     \* what the uncommitted contexts of a handler name
    answer,     \* the status code of each handler's last answer
    accepted    \* for each rule, what the answers given so far promise of it

vars == <<rules, contexts, present, pc, job, linked, answer, accepted>>
tables == <<rules, contexts, present>>

NoJob == [rule |-> NoRule]

\* What a handler knows: of a POST, a PATCH, a DELETE of what rules may name.
Jobs == {NoJob} \cup [rule : Rules, body : Body]
                \cup [rule : Rules, patch : Patch, row : Row]
                \cup [rule : {NoRule}, scope : Scopes]

\* Points of a handler that runs on the event loop.
LoopPoints == {"patch", "drop", "drop_commit"}
Points == {"idle", "link", "rule_commit"} \cup LoopPoints

Stored(r) == rules[r] # NoRule

\* No coroutine is running.
LoopIsFree == \A v \in Workers : pc[v] \notin LoopPoints

\* Context rows of rule r name these; a bare context names nothing.
NamedBy(r) == {s \in Scopes : <<r, s>> \in contexts}
Links(body) == body.apps \cup body.dirs

\* The handler answers and is over.  A rollback is this and nothing else: what
\* the transaction wrote was only in job and linked.
Answer(w, code) ==
    /\ pc' = [pc EXCEPT ![w] = "idle"]
    /\ job' = [job EXCEPT ![w] = NoJob]
    /\ linked' = [linked EXCEPT ![w] = {}]
    /\ answer' = [answer EXCEPT ![w] = code]

\* The event loop takes a request and its handler, idle so far, begins with the
\* work j.  It takes none while a coroutine runs or waits.
Begin(w, point, j) ==
    /\ pc[w] = "idle"
    /\ LoopIsFree
    /\ pc' = [pc EXCEPT ![w] = point]
    /\ job' = [job EXCEPT ![w] = j]
    /\ answer' = [answer EXCEPT ![w] = "none"]
    /\ UNCHANGED <<linked, tables, accepted>>

-----------------------------------------------------------------------------
(***************************************************************************)
(* POST /rules: a row of rules, then one context for each application and  *)
(* each directory the body names, all of them with one generated id.       *)
(***************************************************************************)

\* CreateRuleBody: a rule is inactive unless the body says otherwise.
ActiveOf(body) == IF body.active = Omitted THEN FALSE ELSE body.active

\* The rule id is fresh; the id of a deleted rule stands for yet another one.
PostRule(w, r, body) ==
    /\ ~Stored(r)
    /\ \A v \in Workers : job[v].rule # r
    /\ Begin(w, "link", [rule |-> r, body |-> body])

\* Applications are linked before directories.
NextLinks(w) ==
    LET body == job[w].body
        apps == body.apps \ linked[w]
    IN  IF apps # {} THEN apps ELSE body.dirs \ linked[w]

\* The row of s is locked by a DELETE whose transaction is not over.
BeingDropped(s) == \E v \in Workers : pc[v] = "drop_commit" /\ job[v].scope = s

\* Slip: every context gets an id of its own.
LinkWithFreshId(w) ==
    /\ pc[w] = "link"
    /\ \E s \in NextLinks(w) :
        /\ s \in present
        /\ ~BeingDropped(s)
        /\ linked' = [linked EXCEPT ![w] = @ \cup {s}]
    /\ UNCHANGED <<tables, pc, job, answer, accepted>>

\* The first context: its row is inserted, and pins the row it names.
Link(w) ==
    /\ pc[w] = "link"
    /\ linked[w] = {}
    /\ \E s \in NextLinks(w) :
        /\ s \in present
        /\ ~BeingDropped(s)
        /\ linked' = [linked EXCEPT ![w] = {s}]
    /\ UNCHANGED <<tables, pc, job, answer, accepted>>

\* The first context names nothing that exists: a foreign key violation.
LinkIsUnknown(w) ==
    /\ pc[w] = "link"
    /\ linked[w] = {}
    /\ \E s \in NextLinks(w) : s \notin present
    /\ Answer(w, "400")
    /\ UNCHANGED <<tables, accepted>>

\* Slip: the error is answered, and the transaction stays open.
LinkCollidesUnrolled(w) ==
    /\ pc[w] = "link"
    /\ linked[w] # {}
    /\ NextLinks(w) # {}
    /\ pc' = [pc EXCEPT ![w] = "idle"]
    /\ job' = [job EXCEPT ![w] = NoJob]
    /\ answer' = [answer EXCEPT ![w] = "409"]
    /\ UNCHANGED <<tables, linked, accepted>>

\* The second context has the id of the first: a duplicate key.
LinkCollides(w) ==
    /\ pc[w] = "link"
    /\ linked[w] # {}
    /\ NextLinks(w) # {}
    /\ Answer(w, "409")
    /\ UNCHANGED <<tables, accepted>>

\* Every context is inserted.
LinksDone(w) ==
    /\ pc[w] = "link"
    /\ NextLinks(w) = {}
    /\ pc' = [pc EXCEPT ![w] = "rule_commit"]
    /\ UNCHANGED <<tables, job, linked, answer, accepted>>

CommitRule(w) ==
    /\ pc[w] = "rule_commit"
    /\ LET r == job[w].rule
           body == job[w].body
           named == IF linked[w] = {} THEN {NoRule} ELSE linked[w]
       IN  /\ rules' = [rules EXCEPT ![r] = [active |-> ActiveOf(body), when |-> body.when]]
           /\ contexts' = contexts \cup {<<r, s>> : s \in named}
           /\ accepted' = [accepted EXCEPT ![r] = [body EXCEPT !.active = ActiveOf(body)]]
    /\ Answer(w, "201")
    /\ UNCHANGED present

-----------------------------------------------------------------------------
(***************************************************************************)
(* PATCH and DELETE /rules/{id}.                                           *)
(***************************************************************************)

Patched(row, patch) ==
    [active |-> IF patch.active = Omitted THEN row.active ELSE patch.active,
     when |-> IF patch.when = Omitted THEN row.when ELSE patch.when]

\* Slip: the route is a plain function, and runs in the thread pool.
ReadForPatchThreaded(w, r, patch) ==
    /\ pc[w] = "idle"
    /\ Stored(r)
    /\ pc' = [pc EXCEPT ![w] = "patch"]
    /\ job' = [job EXCEPT ![w] = [rule |-> r, patch |-> patch, row |-> rules[r]]]
    /\ UNCHANGED <<linked, answer, tables, accepted>>

\* The rule is found and read.
ReadForPatch(w, r, patch) ==
    /\ Stored(r)
    /\ Begin(w, "patch", [rule |-> r, patch |-> patch, row |-> rules[r]])

\* Both mutable fields of the row are written, patched or not, and committed.
WritePatch(w) ==
    /\ pc[w] = "patch"
    /\ Stored(job[w].rule)
    /\ LET r == job[w].rule
           patch == job[w].patch
       IN  /\ rules' = [rules EXCEPT ![r] = Patched(job[w].row, patch)]
           /\ accepted' = [accepted EXCEPT
                  ![r].active = IF patch.active = Omitted THEN @ ELSE patch.active,
                  ![r].when = IF patch.when = Omitted THEN @ ELSE patch.when]
    /\ Answer(w, "200")
    /\ UNCHANGED <<contexts, present>>

\* The contexts of the rule and the rule; nobody else writes these rows.
DeleteRule(w, r) ==
    /\ LoopIsFree
    /\ pc[w] = "idle"
    /\ Stored(r)
    /\ contexts' = {c \in contexts : c[1] # r}
    /\ rules' = [rules EXCEPT ![r] = NoRule]
    /\ accepted' = [accepted EXCEPT ![r] = NoRule]
    /\ Answer(w, "204")
    /\ UNCHANGED present

\* GET, PATCH or DELETE of a rule there is not.
RuleNotFound(w, r) ==
    /\ LoopIsFree
    /\ pc[w] = "idle"
    /\ ~Stored(r)
    /\ Answer(w, "404")
    /\ UNCHANGED <<tables, accepted>>

-----------------------------------------------------------------------------
(***************************************************************************)
(* DELETE /applications/{id} and /directories/{id}.                        *)
(***************************************************************************)

Drop(w, s) == Begin(w, "drop", [rule |-> NoRule, scope |-> s])

\* A context that is not committed yet pins the row: the DELETE waits for it,
\* and the event loop with it.
Pinned(s) == \E v \in Workers : s \in linked[v]

\* Slip: the contexts that name the row are deleted with it.
DropCascades(w) ==
    /\ pc[w] = "drop"
    /\ ~Pinned(job[w].scope)
    /\ job[w].scope \in present
    /\ contexts' = {c \in contexts : c[2] # job[w].scope}
    /\ pc' = [pc EXCEPT ![w] = "drop_commit"]
    /\ UNCHANGED <<rules, present, job, linked, answer, accepted>>

DropRow(w) ==
    /\ pc[w] = "drop"
    /\ ~Pinned(job[w].scope)
    /\ job[w].scope \in present
    /\ ~\E c \in contexts : c[2] = job[w].scope
    /\ pc' = [pc EXCEPT ![w] = "drop_commit"]
    /\ UNCHANGED <<tables, job, linked, answer, accepted>>

\* A rule names the row: the foreign key refuses, and nothing handles the error.
DropIsRefused(w) ==
    /\ pc[w] = "drop"
    /\ ~Pinned(job[w].scope)
    /\ \E c \in contexts : c[2] = job[w].scope
    /\ Answer(w, "500")
    /\ UNCHANGED <<tables, accepted>>

DropFindsNothing(w) ==
    /\ pc[w] = "drop"
    /\ job[w].scope \notin present
    /\ Answer(w, "404")
    /\ UNCHANGED <<tables, accepted>>

CommitDrop(w) ==
    /\ pc[w] = "drop_commit"
    /\ present' = present \ {job[w].scope}
    /\ Answer(w, "204")
    /\ UNCHANGED <<rules, contexts, accepted>>

-----------------------------------------------------------------------------
(***************************************************************************)
(* get_rules: the active rules, joined with their contexts by one SELECT,  *)
(* and of those the ones whose lists admit the directory and application.  *)
(***************************************************************************)

Listed == {r \in Rules : /\ Stored(r)
                         /\ rules[r].active
                         /\ \E c \in contexts : c[1] = r}

Admits(r, dir, app) ==
    LET apps == NamedBy(r) \cap Apps
        dirs == NamedBy(r) \cap Dirs
    IN  \/ apps = {} /\ dirs = {}
        \/ apps = {} /\ dir \in dirs
        \/ dirs = {} /\ app \in apps

GetRules(dir, app) == {r \in Listed : Admits(r, dir, app)}

-----------------------------------------------------------------------------
Init ==
    /\ rules = [r \in Rules |-> NoRule]
    /\ contexts = {}
    /\ present = Scopes
    /\ pc = [w \in Workers |-> "idle"]
    /\ job = [w \in Workers |-> NoJob]
    /\ linked = [w \in Workers |-> {}]
    /\ answer = [w \in Workers |-> "none"]
    /\ accepted = [r \in Rules |-> NoRule]

\* What a client may ask for.
Start(w) ==
    \/ \E r \in Rules, body \in Body : PostRule(w, r, body)
    \/ \E r \in Rules, patch \in Patch : ReadForPatch(w, r, patch)
    \/ \E r \in Rules : DeleteRule(w, r) \/ RuleNotFound(w, r)
    \/ \E s \in Scopes : Drop(w, s)

\* The next statement of a handler.
Step(w) ==
    \/ Link(w)
    \/ LinkIsUnknown(w)
    \/ LinkCollides(w)
    \/ LinksDone(w)
    \/ CommitRule(w)
    \/ WritePatch(w)
    \/ DropRow(w)
    \/ DropIsRefused(w)
    \/ DropFindsNothing(w)
    \/ CommitDrop(w)

\* The connection is lost in the middle of a transaction.
Lost(w) ==
    /\ pc[w] # "idle"
    /\ Answer(w, "500")
    /\ UNCHANGED <<tables, accepted>>

Next == \E w \in Workers : Start(w) \/ Step(w) \/ Lost(w)

Spec == Init /\ [][Next]_vars

\* Threads and the event loop are scheduled.
FairSpec == Spec /\ \A w \in Workers : WF_vars(Step(w))

-----------------------------------------------------------------------------
TypeOK ==
    /\ rules \in [Rules -> Row \cup {NoRule}]
    /\ contexts \subseteq Rules \X (Scopes \cup {NoRule})
    /\ present \subseteq Scopes
    /\ pc \in [Workers -> Points]
    /\ job \in [Workers -> Jobs]
    /\ \A w \in Workers :
        /\ pc[w] = "idle" <=> job[w] = NoJob
        /\ pc[w] \in {"link", "rule_commit"} => job[w] \in [rule : Rules, body : Body]
        /\ pc[w] = "patch" => job[w] \in [rule : Rules, patch : Patch, row : Row]
        /\ pc[w] \in {"drop", "drop_commit"} => job[w] \in [rule : {NoRule}, scope : Scopes]
        /\ pc[w] \notin {"link", "rule_commit"} => linked[w] = {}
    /\ linked \in [Workers -> SUBSET Scopes]
    /\ answer \in [Workers -> {"none", "200", "201", "204", "400", "404", "409", "500"}]
    /\ accepted \in [Rules -> Body \cup {NoRule}]

\* What the lists of an accepted body ask for.
AsksFor(body, dir, app) ==
    /\ body.apps = {} \/ app \in body.apps
    /\ body.dirs = {} \/ dir \in body.dirs

\* Whenever the engine decides on a request, it goes by exactly the active rules
\* whose accepted body covers that request: no rule is applied beyond the lists
\* it was accepted with and none is forgotten, whatever else was created, patched,
\* deleted or refused in between (RuleStoreSQL.insert, list, get_rules).
EngineGoesByAcceptedRules ==
    \A dir \in Dirs, app \in Apps :
        GetRules(dir, app) =
            {r \in Rules : /\ accepted[r] # NoRule
                           /\ accepted[r].active = TRUE
                           /\ AsksFor(accepted[r], dir, app)}

\* A rule is as the answers have left it: a patch that only rewords a rule never
\* takes back another one that deactivated it, though update writes both fields
\* from a row read earlier (update_rule, RuleStoreSQL.update).
PatchesAreKept ==
    \A r \in Rules :
        /\ Stored(r) <=> accepted[r] # NoRule
        /\ Stored(r) => /\ rules[r].active = accepted[r].active
                        /\ rules[r].when = accepted[r].when

\* A rule of one application never becomes a rule of all of them when that
\* application is deleted, not even by a deletion that overlaps the rule's
\* creation (rules_context has no cascade; delete of ApplicationStoreSQL).
RuleKeepsWhatItNames ==
    \A r \in Rules : Stored(r) =>
        /\ NamedBy(r) = Links(accepted[r])
        /\ NamedBy(r) \subseteq present

\* The event loop, which every coroutine of the server shares, is never blocked
\* for good by a DELETE that waits for a rule's transaction.
LoopComesFree == []<>LoopIsFree

-----------------------------------------------------------------------------
(***************************************************************************)
(* What the code's own words say of an answer, and what does not hold.     *)
(***************************************************************************)

\* handle_db_operation answers 409 "This record already exist."
ConflictMeansItExists ==
    [][\A w \in Workers :
        answer[w] # "409" /\ answer'[w] = "409" => Stored(job[w].rule)]_vars

\* The API walk-through creates a rule without "active" and says "rule should be
\* active"; so do the defaults of the model and of the table.
RuleIsActiveUnlessToldOtherwise ==
    [][\A w \in Workers :
        /\ pc[w] = "rule_commit"
        /\ answer'[w] = "201"
        /\ job[w].body.active = Omitted
        => rules'[job[w].rule].active]_vars

=============================================================================
