-------------------------- MODULE WorkspaceWipe_proofs --------------------------
(***************************************************************************)
(* For any number of deletions, writers and authors at work at once: no    *)
(* row outlives what it refers to, the rows of a workspace go all at once, *)
(* and a workspace that is gone has left no secret and no old document.    *)
(***************************************************************************)
EXTENDS WorkspaceWipe, TLAPS

\* A request is only ever in the stages of its kind.
StagesAreTheirs ==
    /\ \A d \in Deleters : pc[d] \in {"idle", "admitted", "wiping", "over"}
    /\ \A w \in Writers : pc[w] \in {"idle", "inserted", "touched", "stuck", "over"}
    /\ \A a \in Authors : pc[a] \in {"idle", "admitted", "over"}

\* One deletion keeps the event loop; the rows it has deleted are its own, and the
\* rows a writer has inserted are there only until it commits.
OneIsWiping == \A c, d \in Deleters : pc[c] = "wiping" /\ pc[d] = "wiping" => c = d
DoomedByTheWiper == LoopIsFree => doomed = {}
HeldByInserters == \A w \in Writers : held[w] # {} => pc[w] = "inserted"

\* A writer inserts once, and what it inserts was not there.
NewRowsAreNew ==
    \A w \in Writers : /\ pc[w] \in {"idle", "inserted"} => \A r \in rows : r.id # w
                       /\ \A q \in held[w] : q.id = w

\* What will be left refers to what will be left, whichever transaction commits
\* first.
KeptRefersToKept ==
    /\ \A q \in rows \ doomed : RefersTo(q) \subseteq rows \ doomed
    /\ \A w \in Writers : \A q \in held[w] : RefersTo(q) \subseteq (rows \ doomed) \cup held[w]

\* Once the workspace is deleted nothing is left of it, and nobody can add a row.
WorkspaceComesLast == at > 11 \/ ~exists => rows = doomed /\ Inserted = {}
GoneIsOver == ~exists => LoopIsFree

\* What is not in the database goes before the workspace does.
ForgottenOnTheWay ==
    /\ at > 1 \/ ~exists => Old \notin docs
    /\ at > 10 \/ ~exists => secrets = {}

IInv ==
    /\ TypeOK
    /\ NothingIsOrphaned
    /\ StagesAreTheirs
    /\ OneIsWiping
    /\ DoomedByTheWiper
    /\ HeldByInserters
    /\ NewRowsAreNew
    /\ KeptRefersToKept
    /\ WorkspaceComesLast
    /\ GoneIsOver
    /\ ForgottenOnTheWay

-----------------------------------------------------------------------------
\* The order of wipe_workspace: the documents, eight tables, the secrets and last
\* the workspace.
LEMMA OrderIs ==
    /\ Len(Order) = 11
    /\ \A i \in 1 .. 11 : /\ Order[i] = "documents" <=> i = 1
                          /\ Order[i] \in Tables <=> i \in 2 .. 9
                          /\ Order[i] = "secrets" <=> i = 10
                          /\ Order[i] = "workspace" <=> i = 11
<1>1. Len(Order) = 11
    BY DEF Order
<1>2. /\ Order[1] = "documents" /\ Order[2] = "messages" /\ Order[3] = "conversations"
      /\ Order[4] = "applications" /\ Order[5] = "directories"
      /\ Order[6] = "rules_context" /\ Order[7] = "rules" /\ Order[8] = "checkpoints"
      /\ Order[9] = "writes" /\ Order[10] = "secrets" /\ Order[11] = "workspace"
    BY DEF Order
<1>3. \A i \in 1 .. 11 : \/ i = 1 \/ i = 2 \/ i = 3 \/ i = 4 \/ i = 5 \/ i = 6 \/ i = 7
                         \/ i = 8 \/ i = 9 \/ i = 10 \/ i = 11
    OBVIOUS
<1> QED
    BY <1>1, <1>2, <1>3 DEF Tables

\* Which item a deletion is at.
LEMMA WipingIsAt ==
    ASSUME TypeOK, NEW d \in Deleters, NEW item, Wiping(d, item)
    PROVE /\ at \in 1 .. 11
          /\ pc[d] = "wiping"
          /\ ~LoopIsFree
          /\ item = "documents" <=> at = 1
          /\ item \in Tables <=> at \in 2 .. 9
          /\ item = "secrets" <=> at = 10
          /\ item = "workspace" <=> at = 11
<1>1. ~LoopIsFree /\ at # 0
    BY DEF TypeOK, LoopIsFree, Wiping
<1>2. at \in 1 .. 11
    BY <1>1, OrderIs DEF TypeOK, Wiping
<1> QED
    BY <1>1, <1>2, OrderIs DEF Wiping

\* A request that comes or goes without deleting anything: what it finds in the
\* database makes no difference to the rows.
LEMMA DeleterMoves ==
    ASSUME IInv, NEW d \in Deleters, pc[d] # "wiping",
           NEW stage \in {"admitted", "over"}, Goto(d, stage),
           answer' \in [Clients -> {"none", "200", "201", "204", "400", "404", "412", "500"}],
           collection' \in BOOLEAN, UNCHANGED <<database, docs, secrets, at, doomed, held>>
    PROVE IInv'
<1> USE DEF IInv, database
<1>1. LoopIsFree' = LoopIsFree
    BY DEF TypeOK, LoopIsFree, Goto, Clients
<1>2. TypeOK'
    BY <1>1 DEF TypeOK, Goto, Clients
<1>3. StagesAreTheirs' /\ OneIsWiping'
    BY RequestsDiffer DEF TypeOK, Goto, Clients, StagesAreTheirs, OneIsWiping
<1>4. DoomedByTheWiper' /\ GoneIsOver'
    BY <1>1 DEF DoomedByTheWiper, GoneIsOver
<1>5. HeldByInserters' /\ NewRowsAreNew'
    BY RequestsDiffer DEF TypeOK, Goto, Clients, HeldByInserters, NewRowsAreNew
<1>6. NothingIsOrphaned' /\ KeptRefersToKept' /\ WorkspaceComesLast' /\ ForgottenOnTheWay'
    BY DEF NothingIsOrphaned, KeptRefersToKept, WorkspaceComesLast, ForgottenOnTheWay,
        Inserted
<1> QED
    BY <1>2, <1>3, <1>4, <1>5, <1>6

\* The deletion begins.
LEMMA BeginWipeOK ==
    ASSUME IInv, NEW d \in Deleters, BeginWipe(d)
    PROVE IInv'
<1> USE DEF IInv, BeginWipe, database, outside
<1>1. ~LoopIsFree'
    BY DEF TypeOK, LoopIsFree, Goto, Clients
<1>2. at' = 1 /\ at' \in 0 .. Len(Order) + 1 /\ (at' = 0 <=> LoopIsFree')
    BY <1>1, OrderIs DEF LoopIsFree
<1>3. TypeOK'
    BY <1>1, <1>2 DEF TypeOK, Goto, Clients
<1>4. StagesAreTheirs' /\ OneIsWiping'
    BY RequestsDiffer DEF TypeOK, LoopIsFree, Goto, Clients, StagesAreTheirs, OneIsWiping
<1>5. HeldByInserters' /\ NewRowsAreNew'
    BY RequestsDiffer DEF TypeOK, Goto, Clients, HeldByInserters, NewRowsAreNew
<1>6. NothingIsOrphaned' /\ KeptRefersToKept'
    BY DEF NothingIsOrphaned, KeptRefersToKept
<1>7. WorkspaceComesLast' /\ ForgottenOnTheWay' /\ DoomedByTheWiper' /\ GoneIsOver'
    BY <1>1, <1>2 DEF WorkspaceComesLast, ForgottenOnTheWay, DoomedByTheWiper, GoneIsOver
<1> QED
    BY <1>3, <1>4, <1>5, <1>6, <1>7

\* The deletion goes on to the next item.
LEMMA WipeAdvances ==
    ASSUME IInv, NEW d \in Deleters, NEW item, Wiping(d, item), at' = at + 1,
           doomed' \subseteq rows, docs' \subseteq docs, collection' \in BOOLEAN,
           UNCHANGED <<database, secrets, pc, held, answer>>
    PROVE /\ TypeOK' /\ NothingIsOrphaned' /\ StagesAreTheirs' /\ OneIsWiping'
          /\ DoomedByTheWiper' /\ HeldByInserters' /\ NewRowsAreNew' /\ GoneIsOver'
          /\ exists /\ exists'
<1> USE DEF IInv, database
<1>1. at \in 1 .. 11 /\ ~LoopIsFree /\ ~LoopIsFree'
    BY WipingIsAt DEF LoopIsFree
<1>2. at' # 0 /\ at' \in 0 .. Len(Order) + 1 /\ (at' = 0 <=> LoopIsFree')
    BY <1>1, OrderIs DEF LoopIsFree
<1>3. TypeOK'
    BY <1>1, <1>2 DEF TypeOK
<1> QED
    BY <1>1, <1>3 DEF NothingIsOrphaned, StagesAreTheirs, OneIsWiping, DoomedByTheWiper,
        HeldByInserters, NewRowsAreNew, GoneIsOver

\* The documents.
LEMMA WipeDocumentsOK ==
    ASSUME IInv, NEW d \in Deleters, WipeDocuments(d)
    PROVE IInv'
<1> USE DEF IInv, WipeDocuments, database
<1>1. at = 1
    BY WipingIsAt
<1>2. /\ TypeOK' /\ NothingIsOrphaned' /\ StagesAreTheirs' /\ OneIsWiping'
      /\ DoomedByTheWiper' /\ HeldByInserters' /\ NewRowsAreNew' /\ GoneIsOver' /\ exists'
    BY WipeAdvances DEF TypeOK
<1>3. WorkspaceComesLast' /\ ForgottenOnTheWay' /\ KeptRefersToKept'
    BY <1>1, <1>2 DEF WorkspaceComesLast, ForgottenOnTheWay, KeptRefersToKept
<1> QED
    BY <1>2, <1>3

\* A table: no row that stays refers to one of it, and nor does a row that a writer
\* has inserted.
LEMMA WipeTableOK ==
    ASSUME IInv, NEW d \in Deleters, WipeTable(d)
    PROVE IInv'
<1> USE DEF IInv, database, outside
<1> PICK t \in Tables :
        /\ Wiping(d, t)
        /\ \A r \in RowsOf(t) : ~Locked(r)
        /\ Referring(t) = {}
        /\ doomed' = doomed \cup RowsOf(t)
    BY DEF WipeTable
<1>1. at \in 2 .. 9 /\ at' = at + 1 /\ UNCHANGED <<database, outside, pc, held, answer>>
    BY WipingIsAt DEF WipeTable
<1>2. doomed' \subseteq rows
    BY DEF TypeOK, RowsOf
<1>3. KeptRefersToKept'
    <2>1. ASSUME NEW q \in rows \ doomed', NEW r \in RefersTo(q)
          PROVE r \in rows \ doomed'
        BY <2>1, <1>1 DEF KeptRefersToKept, Referring, RowsOf
    <2>2. ASSUME NEW w \in Writers, NEW q \in held[w], NEW r \in RefersTo(q)
          PROVE r \in (rows \ doomed') \cup held[w]
        <3>1. CASE r \in RowsOf(t)
            BY <3>1 DEF Locked, Inserted
        <3>2. CASE r \notin RowsOf(t)
            BY <3>2 DEF KeptRefersToKept
        <3> QED
            BY <3>1, <3>2
    <2> QED
        BY <1>1, <2>1, <2>2 DEF KeptRefersToKept
<1>4. /\ TypeOK' /\ NothingIsOrphaned' /\ StagesAreTheirs' /\ OneIsWiping'
      /\ DoomedByTheWiper' /\ HeldByInserters' /\ NewRowsAreNew' /\ GoneIsOver' /\ exists'
    BY <1>1, <1>2, WipeAdvances DEF TypeOK
<1>5. WorkspaceComesLast' /\ ForgottenOnTheWay'
    BY <1>1, <1>4 DEF WorkspaceComesLast, ForgottenOnTheWay
<1> QED
    BY <1>3, <1>4, <1>5

\* The secrets, one by one.
LEMMA WipeSecretOK ==
    ASSUME IInv, NEW d \in Deleters, WipeSecret(d)
    PROVE IInv'
<1> USE DEF IInv, WipeSecret, database
<1>1. secrets' \subseteq secrets
    OBVIOUS
<1>2. TypeOK'
    BY <1>1 DEF TypeOK, LoopIsFree
<1> QED
    BY <1>1, <1>2 DEF NothingIsOrphaned, StagesAreTheirs, OneIsWiping, DoomedByTheWiper,
        LoopIsFree, HeldByInserters, NewRowsAreNew, KeptRefersToKept, WorkspaceComesLast, Inserted,
        GoneIsOver, ForgottenOnTheWay

\* And when there is none left.
LEMMA NoMoreSecretsOK ==
    ASSUME IInv, NEW d \in Deleters, NoMoreSecrets(d)
    PROVE IInv'
<1> USE DEF IInv, NoMoreSecrets, database, outside
<1>1. at = 10
    BY WipingIsAt
<1>2. WorkspaceComesLast' /\ ForgottenOnTheWay' /\ KeptRefersToKept'
    BY <1>1, WipeAdvances DEF TypeOK, WorkspaceComesLast, ForgottenOnTheWay, KeptRefersToKept
<1> QED
    BY <1>2, WipeAdvances DEF TypeOK

\* The row of the workspace: no other row stays, and none is on its way.
LEMMA WipeWorkspaceOK ==
    ASSUME IInv, NEW d \in Deleters, WipeWorkspace(d)
    PROVE IInv'
<1> USE DEF IInv, WipeWorkspace, database, outside
<1>1. at = 11
    BY WipingIsAt
<1>2. \A q \in rows \cup Inserted : q.table \in Owned
    BY DEF TypeOK, Row, Owned, Inserted
<1>3. rows = doomed /\ Inserted = {}
    BY <1>2 DEF TypeOK
<1>4. WorkspaceComesLast' /\ ForgottenOnTheWay' /\ KeptRefersToKept'
    BY <1>1, <1>3, WipeAdvances
        DEF TypeOK, WorkspaceComesLast, ForgottenOnTheWay, KeptRefersToKept, Inserted
<1> QED
    BY <1>4, WipeAdvances DEF TypeOK

\* The deletion is over, and with it whoever keeps the event loop.
LEMMA WipeEnds ==
    ASSUME IInv, NEW d \in Deleters, pc[d] = "wiping",
           NEW code \in {"204", "400", "412"}, EndWipe(d, code),
           exists' \in BOOLEAN, rows' \subseteq rows, UNCHANGED <<outside, held>>
    PROVE /\ TypeOK' /\ StagesAreTheirs' /\ OneIsWiping' /\ DoomedByTheWiper'
          /\ HeldByInserters' /\ NewRowsAreNew' /\ GoneIsOver'
          /\ at' = 0
<1> USE DEF IInv, EndWipe, Answer, Goto, outside
<1>1. LoopIsFree'
    BY DEF TypeOK, OneIsWiping, LoopIsFree, Clients
<1>2. at' = 0 /\ at' \in 0 .. Len(Order) + 1
    BY OrderIs
<1>3. TypeOK'
    BY <1>1, <1>2 DEF TypeOK, Clients
<1>4. StagesAreTheirs' /\ OneIsWiping' /\ HeldByInserters' /\ NewRowsAreNew'
    BY RequestsDiffer DEF TypeOK, Clients, StagesAreTheirs, OneIsWiping, HeldByInserters,
        NewRowsAreNew
<1> QED
    BY <1>1, <1>2, <1>3, <1>4 DEF DoomedByTheWiper, GoneIsOver

\* It is rolled back: what it had deleted is there again.
LEMMA WipeIsUndone ==
    ASSUME IInv, NEW d \in Deleters, pc[d] = "wiping",
           NEW code \in {"204", "400", "412"}, EndWipe(d, code),
           UNCHANGED <<database, outside, held>>
    PROVE IInv'
<1> USE DEF IInv, database
<1>1. doomed' = {} /\ exists
    BY DEF EndWipe, GoneIsOver, LoopIsFree
<1>2. KeptRefersToKept'
    BY <1>1 DEF NothingIsOrphaned, KeptRefersToKept
<1>3. NothingIsOrphaned' /\ WorkspaceComesLast' /\ ForgottenOnTheWay'
    BY <1>1, WipeEnds DEF TypeOK, outside, NothingIsOrphaned, WorkspaceComesLast, ForgottenOnTheWay
<1> QED
    BY <1>2, <1>3, WipeEnds DEF TypeOK

\* It is committed: nothing is left.
LEMMA CommitWipeOK ==
    ASSUME IInv, NEW d \in Deleters, CommitWipe(d)
    PROVE IInv'
<1> USE DEF IInv, CommitWipe, outside
<1>1. rows = doomed /\ Inserted = {} /\ at > 11
    BY OrderIs DEF WorkspaceComesLast
<1>2. rows' = {} /\ doomed' = {} /\ Inserted' = {}
    BY <1>1 DEF EndWipe, Inserted
<1>3. NothingIsOrphaned' /\ WorkspaceComesLast'
    BY <1>2 DEF NothingIsOrphaned, WorkspaceComesLast
<1>4. KeptRefersToKept'
    BY <1>2 DEF KeptRefersToKept, Inserted
<1>5. ForgottenOnTheWay'
    BY <1>1 DEF TypeOK, ForgottenOnTheWay
<1> QED
    BY <1>2, <1>3, <1>4, <1>5, WipeEnds

\* A writer that waits, is refused or is answered changes no row.
LEMMA WriterMoves ==
    ASSUME IInv, NEW w \in Writers, pc[w] # "inserted",
           NEW stage \in {"touched", "stuck", "over"}, Goto(w, stage),
           answer' \in [Clients -> {"none", "200", "201", "204", "400", "404", "412", "500"}],
           UNCHANGED <<database, outside, at, doomed, held>>
    PROVE IInv'
<1> USE DEF IInv, database, outside
<1>1. LoopIsFree' = LoopIsFree /\ \A d \in Deleters : pc'[d] = pc[d]
    BY RequestsDiffer DEF TypeOK, LoopIsFree, Goto, Clients
<1>2. TypeOK'
    BY <1>1 DEF TypeOK, Goto, Clients
<1>3. StagesAreTheirs' /\ OneIsWiping'
    BY <1>1, RequestsDiffer DEF TypeOK, Goto, Clients, StagesAreTheirs, OneIsWiping
<1>4. DoomedByTheWiper' /\ GoneIsOver'
    BY <1>1 DEF DoomedByTheWiper, GoneIsOver
<1>5. HeldByInserters' /\ NewRowsAreNew'
    BY DEF TypeOK, Goto, Clients, HeldByInserters, NewRowsAreNew
<1>6. NothingIsOrphaned' /\ KeptRefersToKept' /\ WorkspaceComesLast' /\ ForgottenOnTheWay'
    BY DEF NothingIsOrphaned, KeptRefersToKept, WorkspaceComesLast, ForgottenOnTheWay,
        Inserted
<1> QED
    BY <1>2, <1>3, <1>4, <1>5, <1>6

\* A row and the rule inserted with it are rows of the writer.
LEMMA NewRows ==
    ASSUME NEW w \in Writers, NEW r \in Row, r.id = w
    PROVE New(r) \subseteq Row /\ New(r) # {} /\ \A q \in New(r) : q.id = w
BY DEF New, Row, Plain, Tables

\* An insertion finds what it refers to, and no deletion that has come to its end.
LEMMA InsertOK ==
    ASSUME IInv, NEW w \in Writers, NEW r \in Row, Insert(w, r)
    PROVE IInv'
<1> USE DEF IInv, Insert, Goto, database, outside
<1>1. LoopIsFree' = LoopIsFree /\ \A d \in Deleters : pc'[d] = pc[d]
    BY RequestsDiffer DEF TypeOK, LoopIsFree, Clients
<1>2. TypeOK'
    BY <1>1, NewRows DEF TypeOK, Clients
<1>3. StagesAreTheirs' /\ OneIsWiping' /\ HeldByInserters'
    BY <1>1, RequestsDiffer
        DEF TypeOK, Clients, StagesAreTheirs, OneIsWiping, HeldByInserters
<1>4. DoomedByTheWiper' /\ GoneIsOver' /\ NothingIsOrphaned' /\ NewRowsAreNew'
    BY <1>1, NewRows DEF TypeOK, Clients, DoomedByTheWiper, GoneIsOver, NothingIsOrphaned,
        NewRowsAreNew
<1>5. KeptRefersToKept'
    <2>1. ASSUME NEW q \in New(r), NEW x \in RefersTo(q)
          PROVE x \in (rows \ doomed) \cup New(r)
        <3>1. x \in UNION {RefersTo(p) : p \in New(r)}
            BY Zenon
        <3>2. x \in Referred(r) \/ x \in New(r)
            BY <3>1, Zenon DEF Referred
        <3> QED
            BY <3>2
    <2>2. ASSUME NEW v \in Writers
          PROVE held'[v] = IF v = w THEN New(r) ELSE held[v]
        BY DEF TypeOK
    <2> QED
        BY <2>1, <2>2 DEF KeptRefersToKept
<1>6. WorkspaceComesLast' /\ ForgottenOnTheWay'
    BY OrderIs DEF TypeOK, WorkspaceIsDoomed, WorkspaceComesLast, ForgottenOnTheWay
<1> QED
    BY <1>2, <1>3, <1>4, <1>5, <1>6

\* Its commit: while there is a row to commit, the workspace is there.
LEMMA CommitInsertOK ==
    ASSUME IInv, NEW w \in Writers, CommitInsert(w)
    PROVE IInv'
<1> USE DEF IInv, CommitInsert, Answer, Goto, outside
<1>1. LoopIsFree' = LoopIsFree /\ \A d \in Deleters : pc'[d] = pc[d]
    BY RequestsDiffer DEF TypeOK, LoopIsFree, Clients
<1>2. ASSUME NEW v \in Writers PROVE held'[v] = IF v = w THEN {} ELSE held[v]
    BY DEF TypeOK
<1>3. TypeOK'
    BY <1>1, <1>2 DEF TypeOK, Clients
<1>4. StagesAreTheirs' /\ OneIsWiping' /\ HeldByInserters'
    BY <1>1, <1>2, RequestsDiffer
        DEF TypeOK, Clients, StagesAreTheirs, OneIsWiping, HeldByInserters
<1>5. ~exists \/ at > 11 => held[w] = {}
    BY DEF WorkspaceComesLast, Inserted
<1>6. WorkspaceComesLast' /\ DoomedByTheWiper' /\ GoneIsOver' /\ ForgottenOnTheWay'
    BY <1>1, <1>2, <1>5
        DEF WorkspaceComesLast, Inserted, DoomedByTheWiper, GoneIsOver, ForgottenOnTheWay
<1>7. NewRowsAreNew'
    BY <1>2 DEF TypeOK, Clients, HeldByInserters, NewRowsAreNew
<1>8. NothingIsOrphaned'
    BY <1>5 DEF NothingIsOrphaned, KeptRefersToKept
<1>9. KeptRefersToKept'
    <2>1. ASSUME NEW q \in rows' \ doomed, NEW x \in RefersTo(q)
          PROVE x \in rows' \ doomed
        <3>1. CASE q \in rows \ doomed
            BY <3>1 DEF KeptRefersToKept
        <3>2. CASE q \in held[w]
            BY <3>2 DEF TypeOK, HeldByInserters, NewRowsAreNew, KeptRefersToKept
        <3> QED
            BY <3>1, <3>2
    <2>2. ASSUME NEW v \in Writers, NEW q \in held'[v], NEW x \in RefersTo(q)
          PROVE x \in (rows' \ doomed) \cup held'[v]
        BY <1>2 DEF KeptRefersToKept
    <2> QED
        BY <2>1, <2>2 DEF KeptRefersToKept
<1> QED
    BY <1>3, <1>4, <1>6, <1>7, <1>8, <1>9

\* A writer that fails leaves nothing.
LEMMA WriteFailsOK ==
    ASSUME IInv, NEW w \in Writers, WriteFails(w)
    PROVE IInv'
<1> USE DEF IInv, WriteFails, Answer, Goto, database, outside
<1>1. LoopIsFree' = LoopIsFree /\ \A d \in Deleters : pc'[d] = pc[d]
    BY RequestsDiffer DEF TypeOK, LoopIsFree, Clients
<1>2. \A v \in Writers : held'[v] = IF v = w THEN {} ELSE held[v]
    BY DEF TypeOK
<1>3. TypeOK'
    BY <1>1, <1>2 DEF TypeOK, Clients
<1>4. StagesAreTheirs' /\ OneIsWiping' /\ HeldByInserters' /\ NewRowsAreNew'
    BY <1>1, <1>2, RequestsDiffer
        DEF TypeOK, Clients, StagesAreTheirs, OneIsWiping, HeldByInserters, NewRowsAreNew
<1>5. Inserted' \subseteq Inserted
    BY <1>2 DEF Inserted
<1>6. /\ DoomedByTheWiper' /\ GoneIsOver' /\ WorkspaceComesLast' /\ ForgottenOnTheWay'
      /\ NothingIsOrphaned'
    BY <1>1, <1>5 DEF DoomedByTheWiper, GoneIsOver, WorkspaceComesLast, ForgottenOnTheWay,
        NothingIsOrphaned
<1>7. KeptRefersToKept'
    BY <1>2 DEF KeptRefersToKept
<1> QED
    BY <1>3, <1>4, <1>6, <1>7

\* A document is added while no deletion is under way, and it is not the old one.
LEMMA AuthorsOK ==
    ASSUME IInv, NEW a \in Authors, Admit(a) \/ AddDocument(a)
    PROVE IInv'
<1> USE DEF IInv, database
<1>1. /\ LoopIsFree' = LoopIsFree
      /\ \A c \in Deleters \cup Writers : pc'[c] = pc[c]
      /\ UNCHANGED <<exists, rows, secrets, at, doomed, held>>
    BY RequestsDiffer DEF TypeOK, LoopIsFree, Clients, Admit, AddDocument, Answer, Goto
<1>2. docs' \subseteq docs \cup {a}
    BY DEF Admit, AddDocument
<1>3. TypeOK'
    BY <1>1, <1>2 DEF TypeOK, Clients, Docs, Admit, AddDocument, Answer, Goto
<1>4. StagesAreTheirs'
    BY <1>1 DEF TypeOK, Clients, StagesAreTheirs, Admit, AddDocument, Answer, Goto
<1>5. OneIsWiping' /\ HeldByInserters' /\ NewRowsAreNew' /\ DoomedByTheWiper' /\ GoneIsOver'
    BY <1>1 DEF OneIsWiping, HeldByInserters, NewRowsAreNew, DoomedByTheWiper, GoneIsOver
<1>6. ForgottenOnTheWay'
    BY <1>1, <1>2, RequestsDiffer DEF ForgottenOnTheWay
<1>7. NothingIsOrphaned' /\ KeptRefersToKept' /\ WorkspaceComesLast'
    BY <1>1 DEF NothingIsOrphaned, KeptRefersToKept, WorkspaceComesLast, Inserted
<1> QED
    BY <1>3, <1>4, <1>5, <1>6, <1>7

\* When the server dies every open transaction is undone.
LEMMA CrashOK ==
    ASSUME IInv, Crash
    PROVE IInv'
<1> USE DEF IInv, Crash, database, outside
<1>1. LoopIsFree' /\ doomed' = {} /\ (\A w \in Writers : held'[w] = {}) /\ Inserted' = {}
    BY DEF TypeOK, LoopIsFree, Clients, Inserted
<1>2. at' = 0 /\ at' \in 0 .. Len(Order) + 1
    BY OrderIs
<1>3. TypeOK'
    BY <1>1, <1>2 DEF TypeOK, Clients
<1>4. StagesAreTheirs' /\ OneIsWiping' /\ HeldByInserters' /\ NewRowsAreNew'
    BY <1>1 DEF TypeOK, Clients, StagesAreTheirs, OneIsWiping, HeldByInserters, NewRowsAreNew
<1>5. DoomedByTheWiper' /\ GoneIsOver'
    BY <1>1 DEF DoomedByTheWiper, GoneIsOver
<1>6. NothingIsOrphaned' /\ KeptRefersToKept'
    BY <1>1 DEF NothingIsOrphaned, KeptRefersToKept
<1>7. WorkspaceComesLast' /\ ForgottenOnTheWay'
    BY <1>1, <1>2 DEF NothingIsOrphaned, WorkspaceComesLast, ForgottenOnTheWay
<1> QED
    BY <1>3, <1>4, <1>5, <1>6, <1>7

-----------------------------------------------------------------------------
\* A workspace begins whole.
LEMMA InitOK == Init => IInv
<1> SUFFICES ASSUME Init PROVE IInv
    OBVIOUS
<1> USE DEF Init
<1> PICK names \in {{}} \cup {{s} : s \in Scopes} : rows = OldRows(names)
    OBVIOUS
<1>1. LoopIsFree /\ at \in 0 .. Len(Order) + 1 /\ Inserted = {}
    BY OrderIs DEF LoopIsFree, Clients, Inserted
<1>2. rows \subseteq Row /\ \A r \in rows : r.id = Old
    BY DEF OldRows, Plain, Row, Ids, Tables
<1>3. TypeOK
    BY <1>1, <1>2 DEF TypeOK, Clients, Docs
<1>4. \A t \in Tables \ {"rules_context"} : Plain(t, Old) \in rows
    BY DEF OldRows
<1>5. ASSUME NEW r \in rows PROVE RefersTo(r) \subseteq rows
    BY <1>2, <1>4 DEF RefersTo, Row, Scopes, Tables
<1>6. NothingIsOrphaned /\ KeptRefersToKept /\ WorkspaceComesLast /\ ForgottenOnTheWay
    BY <1>1, <1>5 DEF NothingIsOrphaned, KeptRefersToKept, WorkspaceComesLast, ForgottenOnTheWay
<1>7. StagesAreTheirs /\ OneIsWiping /\ HeldByInserters /\ NewRowsAreNew
    BY <1>2, RequestsDiffer
        DEF Clients, StagesAreTheirs, OneIsWiping, HeldByInserters, NewRowsAreNew
<1>8. DoomedByTheWiper /\ GoneIsOver
    BY <1>1 DEF DoomedByTheWiper, GoneIsOver
<1> QED
    BY <1>3, <1>6, <1>7, <1>8 DEF IInv

\* Every step of a deletion keeps the invariant.
LEMMA DeletersOK ==
    ASSUME IInv, NEW d \in Deleters,
           Arrive(d) \/ ArriveLate(d) \/ DeleterStep(d) \/ VaultFails(d) \/ ErrorIsSwallowed(d)
    PROVE IInv'
<1>1. CASE Arrive(d) \/ ArriveLate(d) \/ NothingToWipe(d)
    BY <1>1, DeleterMoves DEF IInv, TypeOK, Clients, Arrive, ArriveLate, NothingToWipe, Answer,
        Goto, outside
<1>2. CASE \/ TableIsReferred(d) \/ VaultFails(d) \/ WorkspaceIsReferred(d)
           \/ ErrorIsSwallowed(d)
    BY <1>2, WipeIsUndone DEF TableIsReferred, VaultFails, WorkspaceIsReferred,
        ErrorIsSwallowed, Wiping
<1> QED
    BY <1>1, <1>2, BeginWipeOK, WipeDocumentsOK, WipeTableOK, WipeSecretOK, NoMoreSecretsOK,
        WipeWorkspaceOK, CommitWipeOK DEF DeleterStep

\* And every step of a writer.
LEMMA WritersOK ==
    ASSUME IInv, NEW w \in Writers,
           \/ \E r \in Row : Insert(w, r) \/ InsertIsRefused(w, r)
           \/ Touch(w)
           \/ \E d \in Deleters : Entangle(d, w)
           \/ WriterStep(w) \/ WriteFails(w)
    PROVE IInv'
<1>1. CASE \E r \in Row : InsertIsRefused(w, r)
    BY <1>1, WriterMoves DEF IInv, TypeOK, Clients, InsertIsRefused, Answer, Goto
<1>2. CASE Touch(w) \/ Disentangle(w) \/ \E d \in Deleters : Entangle(d, w)
    BY <1>2, WriterMoves DEF IInv, TypeOK, Clients, Touch, Disentangle, Entangle, Goto
<1>3. CASE CommitTouch(w)
    BY <1>3, WriterMoves DEF IInv, TypeOK, Clients, CommitTouch, Answer, Goto
<1> QED
    BY <1>1, <1>2, <1>3, InsertOK, CommitInsertOK, WriteFailsOK DEF WriterStep

\* Every step keeps the invariant.
LEMMA StepOK == IInv /\ [Next]_vars => IInv'
<1> SUFFICES ASSUME IInv, [Next]_vars PROVE IInv'
    OBVIOUS
<1>1. CASE UNCHANGED vars
    BY <1>1 DEF vars, database, outside, IInv, TypeOK, NothingIsOrphaned, StagesAreTheirs,
        OneIsWiping, LoopIsFree, DoomedByTheWiper, HeldByInserters, NewRowsAreNew,
        KeptRefersToKept, WorkspaceComesLast, Inserted, GoneIsOver, ForgottenOnTheWay
<1>2. CASE Next
    BY <1>2, DeletersOK, WritersOK, AuthorsOK, CrashOK DEF Next, Fault, BreakDeadlock
<1> QED
    BY <1>1, <1>2

\* The invariant holds in every reachable state.
THEOREM Inductive == Spec => []IInv
<1> QED
    BY InitOK, StepOK, PTL DEF Spec

\* No row outlives what it refers to, whatever is inserted while the deletion is
\* under way (the foreign keys, wipe_workspace).
THEOREM NoRowIsOrphaned == Spec => []RowsAreConsistent
<1>1. IInv => RowsAreConsistent
    BY DEF IInv, RowsAreConsistent
<1> QED
    BY <1>1, Inductive, PTL

\* A workspace that is gone has left no secret and no document it had.
THEOREM NothingIsRemembered == Spec => []GoneMeansForgotten
<1>1. IInv => GoneMeansForgotten
    BY DEF IInv, ForgottenOnTheWay, GoneMeansForgotten
<1> QED
    BY <1>1, Inductive, PTL

\* Rows go in a commit of the deletion only, and then every row does.
LEMMA RowsGoAtTheCommit ==
    IInv /\ [Next]_vars => [rows \ rows' # {} => ~exists' /\ rows' = {}]_vars
<1> SUFFICES ASSUME IInv, Next, rows \ rows' # {}
             PROVE ~exists' /\ rows' = {}
    OBVIOUS
<1>1. PICK d \in Deleters : CommitWipe(d)
    BY DEF Next, Fault, BreakDeadlock, DeleterStep, WriterStep, database, Arrive, ArriveLate,
        BeginWipe, NothingToWipe, WipeDocuments, WipeTable, TableIsReferred, WipeSecret,
        NoMoreSecrets, VaultFails, WipeWorkspace, WorkspaceIsReferred, ErrorIsSwallowed,
        Insert, InsertIsRefused, CommitInsert, Touch, CommitTouch, Entangle,
        WriteFails, Disentangle, Admit, AddDocument, Crash
<1>2. rows = doomed
    BY <1>1, OrderIs DEF IInv, WorkspaceComesLast, CommitWipe
<1> QED
    BY <1>1, <1>2 DEF CommitWipe

\* The rows of a workspace go all at once or not at all.
THEOREM RowsGoAtOnce == Spec => TablesGoTogether
<1> QED
    BY Inductive, RowsGoAtTheCommit, PTL DEF Spec, TablesGoTogether

=============================================================================
