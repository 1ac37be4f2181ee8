------------------------ MODULE AccessRequest_proofs ------------------------
(***************************************************************************)
(* Proofs about AccessRequest, for every set of conversations and handlers *)
(* and every limit on tool calls.                                          *)
(*                                                                         *)
(* TypeOK is not inductive: an UPDATE is well typed only if its row exists,*)
(* and it exists because handlers are about committed rows, because writes *)
(* never change a row's type or previous conversation, and because an      *)
(* uncommitted write is always under the row lock.  TableInv says all of   *)
(* this; the safety invariants are then proved on top of it.               *)
(***************************************************************************)
EXTENDS MCAccessHistory, TLAPS

USE DEF ConversationId

\* A written row is locked by its writer until the end of the transaction.
WritesAreLocked ==
    \A w \in Workers, c \in Convs : pending[w][c] # NoRow => lock[c] = w

\* Only generated ids name rows, so that no insert hits an existing row.
RowsAreUsed ==
    \A c \in Convs :
        Committed(c) \/ (\E w \in Workers : pending[w][c] # NoRow) => c \in used

\* A handler is always about a committed row.
HandlersHaveRows ==
    \A w \in Workers : pc[w] # "idle" => cid[w] \in Convs /\ Committed(cid[w])

\* A write changes neither the type nor the previous conversation of a row.
WritesKeepIdentity ==
    \A w \in Workers, c \in Convs : pending[w][c] # NoRow /\ Committed(c) =>
        /\ pending[w][c].type = conversations[c].type
        /\ pending[w][c].previous = conversations[c].previous

\* A cancellation that goes on to the previous conversation has found one.
PreviousIsFound ==
    \A w \in Workers : pc[w] = "cancel_prev_update" =>
        PreviousOf(w) \in Convs /\ Committed(PreviousOf(w))

TableInv ==
    /\ TypeOK
    /\ WritesAreLocked
    /\ RowsAreUsed
    /\ HandlersHaveRows
    /\ WritesKeepIdentity
    /\ PreviousIsFound

-----------------------------------------------------------------------------
(***************************************************************************)
(* TableInv is inductive: one lemma for each way a step touches the table. *)
(***************************************************************************)

\* The empty table satisfies TableInv.
LEMMA TableInit == Init => TableInv
  BY ConstantsAssumption
  DEF Init, TableInv, TypeOK, WritesAreLocked, RowsAreUsed, HandlersHaveRows,
      WritesKeepIdentity, PreviousIsFound, Committed, Points, CommitPoints, LockPoints

\* Steps that leave the table and the ids alone and keep each handler on a row.
LEMMA TableQuiet ==
  ASSUME TableInv, UNCHANGED <<tableVars, used>>,
         pc' \in [Workers -> Points], cid' \in [Workers -> Convs \cup {NoConv}],
         calls' \in [Workers -> 0..MaxCalls], granted' \subseteq Convs, seeded' \subseteq Convs,
         \A w \in Workers : pc'[w] # "idle" => cid'[w] \in Convs /\ Committed(cid'[w]),
         \A w \in Workers : pc'[w] = "cancel_prev_update" =>
            /\ conversations[cid'[w]].previous \in Convs
            /\ Committed(conversations[cid'[w]].previous)
  PROVE  TableInv'
  BY DEF TableInv, TypeOK, WritesAreLocked, RowsAreUsed, HandlersHaveRows, Committed,
         WritesKeepIdentity, PreviousIsFound, PreviousOf, tableVars

\* The insert of a requester's conversation.
LEMMA TableInsert ==
  ASSUME TableInv, NEW c \in Convs, InsertCommitted(c), UNCHANGED <<lock, pending, calls, granted, seeded>>,
         pc' \in [Workers -> Points], cid' \in [Workers -> Convs \cup {NoConv}],
         \A w \in Workers : pc'[w] # "idle" =>
            \/ cid'[w] = c /\ pc'[w] # "cancel_prev_update"
            \/ pc'[w] = pc[w] /\ cid'[w] = cid[w]
  PROVE  TableInv'
<1>1. NewRow("recommendation", NoConv) \in Row /\ NewRow("recommendation", NoConv) # NoRow
  BY ConstantsAssumption DEF NewRow, Row, Types, Statuses
<1>2. ~Committed(c) /\ \A w \in Workers : pending[w][c] = NoRow
  BY DEF InsertCommitted, TableInv, RowsAreUsed
<1>3. TypeOK'
  BY <1>1 DEF TableInv, TypeOK, InsertCommitted
<1>4. WritesAreLocked' /\ RowsAreUsed'
  BY DEF TableInv, TypeOK, InsertCommitted, WritesAreLocked, RowsAreUsed, Committed
<1>5. HandlersHaveRows'
  BY <1>1 DEF TableInv, TypeOK, InsertCommitted, HandlersHaveRows, Committed
<1>6. WritesKeepIdentity'
  BY <1>2 DEF TableInv, TypeOK, InsertCommitted, WritesKeepIdentity, Committed
<1>7. PreviousIsFound'
  BY <1>1, <1>2 DEF TableInv, TypeOK, InsertCommitted, HandlersHaveRows, PreviousIsFound, PreviousOf, Committed
<1> QED
  BY <1>3, <1>4, <1>5, <1>6, <1>7 DEF TableInv

\* What a transaction sees of a committed row is a row of the same request.
LEMMA VisibleRow ==
  ASSUME TableInv, NEW w \in Workers, NEW c \in Convs, Committed(c)
  PROVE  /\ Visible(w, c) \in Row
         /\ Visible(w, c) # NoRow
         /\ Visible(w, c).type = conversations[c].type
         /\ Visible(w, c).previous = conversations[c].previous
  BY DEF TableInv, TypeOK, WritesKeepIdentity, Committed, Visible

\* The update of a committed row.
LEMMA TableUpdate ==
  ASSUME TableInv, NEW w \in Workers, NEW from, NEW c \in Convs, Committed(c),
         NEW status \in Statuses, NEW to \in Points \ {"idle", "cancel_prev_update"},
         pc[w] # "idle", Update(w, from, c, status, to)
  PROVE  TableInv'
<1> DEFINE row == [Visible(w, c) EXCEPT !.status = status]
<1>1. row \in Row /\ row # NoRow
  BY VisibleRow, ConstantsAssumption DEF Row
<1>2. row.type = conversations[c].type /\ row.previous = conversations[c].previous
  BY VisibleRow DEF Row
<1>3. /\ lock[c] \in {NoWorker, w}
      /\ lock' = [lock EXCEPT ![c] = w]
      /\ pending' = [pending EXCEPT ![w][c] = row]
      /\ pc' = [pc EXCEPT ![w] = to]
      /\ UNCHANGED <<conversations, used, cid, calls, granted, seeded>>
  BY DEF Update, UpdateStatus, Goto
<1> HIDE DEF row
<1>4. TypeOK'
  BY <1>1, <1>3 DEF TableInv, TypeOK
<1>5. WritesAreLocked'
  <2> SUFFICES ASSUME NEW v \in Workers, NEW e \in Convs, pending'[v][e] # NoRow
               PROVE  lock'[e] = v
    BY DEF WritesAreLocked
  <2>1. CASE v = w /\ e = c
    BY <2>1, <1>3 DEF TableInv, TypeOK
  <2>2. CASE v # w \/ e # c
    <3>1. pending[v][e] # NoRow /\ lock[e] = v
      BY <2>2, <1>3 DEF TableInv, TypeOK, WritesAreLocked
    <3>2. e = c => v = w
      BY <3>1, <1>3, ConstantsAssumption
    <3> QED
      BY <3>1, <3>2, <2>2, <1>3 DEF TableInv, TypeOK
  <2> QED
    BY <2>1, <2>2
<1>6. RowsAreUsed'
  BY <1>3 DEF TableInv, TypeOK, RowsAreUsed, Committed
<1>7. HandlersHaveRows'
  BY <1>3 DEF TableInv, TypeOK, HandlersHaveRows, Committed
<1>8. WritesKeepIdentity'
  BY <1>2, <1>3 DEF TableInv, TypeOK, WritesKeepIdentity, Committed
<1>9. PreviousIsFound'
  BY <1>3 DEF TableInv, TypeOK, PreviousIsFound, PreviousOf, Committed
<1> QED
  BY <1>4, <1>5, <1>6, <1>7, <1>8, <1>9 DEF TableInv

\* The insert of a data owner's conversation.
LEMMA TableInsertOwner ==
  ASSUME TableInv, NEW w \in Workers, NEW d \in Convs, InsertOwnerConversation(w, d)
  PROVE  TableInv'
<1>1. /\ NewRow("dataowner", cid[w]) \in Row
      /\ NewRow("dataowner", cid[w]) # NoRow
  BY ConstantsAssumption
  DEF InsertOwnerConversation, TableInv, TypeOK, HandlersHaveRows, NewRow, Row, Types, Statuses
<1>2. /\ ~Committed(d)
      /\ \A v \in Workers : pending[v][d] = NoRow
  BY DEF InsertOwnerConversation, InsertRow, TableInv, RowsAreUsed
<1>3. /\ lock' = [lock EXCEPT ![d] = w]
      /\ pending' = [pending EXCEPT ![w][d] = NewRow("dataowner", cid[w])]
      /\ used' = used \cup {d}
      /\ pc' = [pc EXCEPT ![w] = "seed"]
      /\ pc[w] = "insert"
      /\ UNCHANGED <<conversations, cid, calls, granted, seeded>>
  BY DEF InsertOwnerConversation, InsertRow, Goto
<1>4. TypeOK'
  BY <1>1, <1>3 DEF TableInv, TypeOK, Points
<1>5. WritesAreLocked' /\ RowsAreUsed'
  BY <1>2, <1>3 DEF TableInv, TypeOK, WritesAreLocked, RowsAreUsed, Committed
<1>6. HandlersHaveRows' /\ PreviousIsFound'
  BY <1>3 DEF TableInv, TypeOK, HandlersHaveRows, PreviousIsFound, PreviousOf, Committed
<1>7. WritesKeepIdentity'
  BY <1>2, <1>3 DEF TableInv, TypeOK, WritesKeepIdentity, Committed
<1> QED
  BY <1>4, <1>5, <1>6, <1>7 DEF TableInv

\* The end of a handler, or of its transaction, for the variables it owns.
LEMMA FinishTypes ==
  ASSUME TypeOK, NEW w \in Workers,
         Finish(w) \/ (Goto(w, "turn") /\ UNCHANGED <<cid, calls>>)
  PROVE  /\ pc' \in [Workers -> Points]
         /\ cid' \in [Workers -> Convs \cup {NoConv}]
         /\ calls' \in [Workers -> 0..MaxCalls]
         /\ pc'[w] \in {"idle", "turn"}
         /\ pc'[w] = "turn" => cid'[w] = cid[w]
         /\ \A v \in Workers \ {w} : pc'[v] = pc[v] /\ cid'[v] = cid[v]
<1>1. "idle" \in Points /\ "turn" \in Points
  BY DEF Points
<1>2. 0 \in 0..MaxCalls
  BY ConstantsAssumption
<1>3. CASE Finish(w)
  BY <1>1, <1>2, <1>3 DEF TypeOK, Finish, Goto
<1>4. CASE Goto(w, "turn") /\ UNCHANGED <<cid, calls>>
  BY <1>1, <1>4 DEF TypeOK, Goto
<1> QED
  BY <1>3, <1>4

\* A commit or a rollback.
LEMMA TableEnd ==
  ASSUME TableInv, NEW w \in Workers, CommitWrites(w) \/ RollbackWrites(w), pc[w] # "idle",
         Finish(w) \/ (Goto(w, "turn") /\ UNCHANGED <<cid, calls>>),
         UNCHANGED <<used, granted, seeded>>
  PROVE  TableInv'
<1>1. /\ conversations' = [c \in Convs |-> Visible(w, c)] \/ UNCHANGED conversations
      /\ lock' = [c \in Convs |-> IF lock[c] = w THEN NoWorker ELSE lock[c]]
      /\ pending' = [pending EXCEPT ![w] = [c \in Convs |-> NoRow]]
  BY DEF CommitWrites, RollbackWrites, ReleaseLocks, ForgetWrites
<1>2. conversations' \in [Convs -> Row \cup {NoRow}]
  BY <1>1 DEF Visible, TableInv, TypeOK
<1>3. TypeOK'
  BY <1>1, <1>2, FinishTypes DEF TableInv, TypeOK
<1>4. WritesAreLocked'
  BY <1>1 DEF TableInv, TypeOK, WritesAreLocked
<1>5. \A c \in Convs : Committed(c) =>
        /\ Committed(c)'
        /\ conversations'[c].type = conversations[c].type
        /\ conversations'[c].previous = conversations[c].previous
  BY <1>1, VisibleRow DEF Committed
<1>6. \A c \in Convs : Committed(c)' => Committed(c) \/ pending[w][c] # NoRow
  BY <1>1 DEF Committed, Visible
<1>7. RowsAreUsed'
  BY <1>1, <1>6 DEF TableInv, TypeOK, RowsAreUsed
<1>8. HandlersHaveRows'
  BY <1>5, FinishTypes DEF TableInv, HandlersHaveRows
<1>9. WritesKeepIdentity'
  <2> SUFFICES ASSUME NEW v \in Workers, NEW c \in Convs, pending'[v][c] # NoRow, Committed(c)'
               PROVE  /\ pending'[v][c].type = conversations'[c].type
                      /\ pending'[v][c].previous = conversations'[c].previous
    BY DEF WritesKeepIdentity, Committed
  <2>1. v # w /\ pending'[v][c] = pending[v][c]
    BY <1>1 DEF TableInv, TypeOK
  <2>2. pending[w][c] = NoRow
    BY <2>1 DEF TableInv, WritesAreLocked
  <2>3. Committed(c)
    BY <2>2, <1>6
  <2> QED
    BY <2>1, <2>3, <1>5 DEF TableInv, WritesKeepIdentity
<1>10. PreviousIsFound'
  <2> SUFFICES ASSUME NEW v \in Workers, pc'[v] = "cancel_prev_update"
               PROVE  (PreviousOf(v) \in Convs /\ Committed(PreviousOf(v)))'
    BY DEF PreviousIsFound
  <2>1. v # w /\ pc[v] = "cancel_prev_update" /\ cid'[v] = cid[v]
    BY FinishTypes DEF TableInv
  <2>2. cid[v] \in Convs /\ Committed(cid[v])
    BY <2>1 DEF TableInv, HandlersHaveRows
  <2>3. PreviousOf(v) \in Convs /\ Committed(PreviousOf(v))
    BY <2>1 DEF TableInv, PreviousIsFound
  <2>4. PreviousOf(v)' = PreviousOf(v)
    BY <2>1, <2>2, <1>5 DEF PreviousOf
  <2>5. Committed(PreviousOf(v))'
    BY <2>3, <2>4, <1>5 DEF Committed
  <2> QED
    BY <2>3, <2>4, <2>5
<1> QED
  BY <1>3, <1>4, <1>7, <1>8, <1>9, <1>10 DEF TableInv

\* A step that starts a handler on a committed row.
LEMMA TableStart ==
  ASSUME TableInv, NEW w \in Workers, NEW c \in Convs, Committed(c), NEW point \in Points,
         point # "cancel_prev_update", pc' = [pc EXCEPT ![w] = point],
         cid' = [cid EXCEPT ![w] = c], UNCHANGED <<tableVars, calls, used, granted, seeded>>
  PROVE  TableInv'
<1>1. /\ pc' \in [Workers -> Points]
      /\ cid' \in [Workers -> Convs \cup {NoConv}]
      /\ calls' \in [Workers -> 0..MaxCalls]
      /\ granted' \subseteq Convs /\ seeded' \subseteq Convs
  BY DEF TableInv, TypeOK
<1>2. \A v \in Workers : pc'[v] # "idle" => cid'[v] \in Convs /\ Committed(cid'[v])
  BY DEF TableInv, TypeOK, HandlersHaveRows
<1>3. \A v \in Workers : pc'[v] = "cancel_prev_update" =>
        /\ conversations[cid'[v]].previous \in Convs
        /\ Committed(conversations[cid'[v]].previous)
  BY DEF TableInv, TypeOK, PreviousIsFound, PreviousOf
<1> QED
  BY <1>1, <1>2, <1>3, TableQuiet

\* A step that moves a handler on without touching the table.
LEMMA TableMove ==
  ASSUME TableInv, NEW w \in Workers, NEW point \in Points,
         pc[w] # "idle", pc' = [pc EXCEPT ![w] = point], cid' = cid,
         point = "cancel_prev_update" => PreviousIsActive(w),
         calls' \in [Workers -> 0..MaxCalls], granted' \subseteq Convs, seeded' \subseteq Convs,
         UNCHANGED <<tableVars, used>>
  PROVE  TableInv'
<1>1. pc' \in [Workers -> Points] /\ cid' \in [Workers -> Convs \cup {NoConv}]
  BY DEF TableInv, TypeOK
<1>2. \A v \in Workers : pc'[v] # "idle" => cid'[v] \in Convs /\ Committed(cid'[v])
  BY DEF TableInv, TypeOK, HandlersHaveRows
<1>3. cid[w] \in Convs /\ conversations[cid[w]] \in Row
  BY DEF TableInv, TypeOK, HandlersHaveRows, Committed
<1>4. PreviousIsActive(w) => PreviousOf(w) \in Convs /\ Committed(PreviousOf(w))
  BY <1>3 DEF PreviousIsActive, IsActive, PreviousOf, Row
<1>5. \A v \in Workers : pc'[v] = "cancel_prev_update" =>
        /\ conversations[cid'[v]].previous \in Convs
        /\ Committed(conversations[cid'[v]].previous)
  BY <1>4 DEF TableInv, TypeOK, PreviousIsFound, PreviousOf
<1> QED
  BY <1>1, <1>2, <1>5, TableQuiet

\* Every step preserves TableInv.
LEMMA TableNext == TableInv /\ [Next]_vars => TableInv'
<1> SUFFICES ASSUME TableInv, [Next]_vars PROVE TableInv'
  OBVIOUS
<1> USE DEF Points, CommitPoints, LockPoints
<1>t. /\ granted \subseteq Convs /\ seeded \subseteq Convs
      /\ calls \in [Workers -> 0..MaxCalls]
      /\ pc \in [Workers -> Points]
  BY DEF TableInv, TypeOK
<1>h. \A w \in Workers : pc[w] # "idle" => cid[w] \in Convs /\ Committed(cid[w])
  BY DEF TableInv, HandlersHaveRows
<1>1. ASSUME NEW w \in Workers, NEW c \in Convs, Create(w, c) PROVE TableInv'
  BY <1>1, TableInsert DEF Create, TableInv, TypeOK
<1>2. ASSUME NEW w \in Workers, NEW c \in Convs, SlackNewThread(w, c) PROVE TableInv'
  <2>1. /\ pc' \in [Workers -> Points]
        /\ cid' \in [Workers -> Convs \cup {NoConv}]
        /\ \A v \in Workers : pc'[v] # "idle" =>
              \/ cid'[v] = c /\ pc'[v] # "cancel_prev_update"
              \/ pc'[v] = pc[v] /\ cid'[v] = cid[v]
    BY <1>2 DEF SlackNewThread, StartTurn, Goto, TableInv, TypeOK
  <2> QED
    BY <1>2, <2>1, TableInsert DEF SlackNewThread, StartTurn
<1>3. ASSUME NEW w \in Workers, NEW c \in Convs, BeginTurn(w, c) PROVE TableInv'
  BY <1>3, TableStart DEF BeginTurn, StartTurn, Goto, IsActive
<1>4. ASSUME NEW w \in Workers, NEW c \in Convs,
             CancelConv(w, c) \/ ArchiveConv(w, c) \/ UnarchiveConv(w, c)
      PROVE TableInv'
  <2>1. PICK point \in {"cancel", "archive", "unarchive"} : Committed(c) /\ StartRoute(w, c, point)
    BY <1>4 DEF CancelConv, ArchiveConv, UnarchiveConv, IsActive, IsArchived
  <2> QED
    BY <2>1, TableStart DEF StartRoute, Goto
<1>5. ASSUME NEW w \in Workers, LockStep(w) PROVE TableInv'
  <2>1. ASSUME NEW from \in Points \ {"idle"}, NEW c \in Convs, Committed(c),
               NEW status \in Statuses, NEW to \in Points \ {"idle", "cancel_prev_update"},
               Update(w, from, c, status, to)
        PROVE TableInv'
    BY <2>1, TableUpdate DEF Update
  <2>2. ASSUME NEW from \in Points \ {"idle"}, NEW status \in Statuses,
               NEW to \in Points \ {"idle", "cancel_prev_update"},
               Update(w, from, cid[w], status, to)
        PROVE TableInv'
    BY <2>1, <2>2, <1>h DEF Update
  <2>3. CASE ApproveUpdate(w)
    BY <2>2, <2>3 DEF ApproveUpdate, Statuses
  <2>4. CASE DenyUpdate(w)
    BY <2>2, <2>4 DEF DenyUpdate, Statuses
  <2>5. CASE CompleteUpdate(w)
    BY <2>2, <2>5 DEF CompleteUpdate, Statuses
  <2>6. CASE CancelUpdate(w)
    BY <2>2, <2>6 DEF CancelUpdate, Statuses
  <2>7. CASE CancelPreviousUpdate(w)
    <3>1. PreviousOf(w) \in Convs /\ Committed(PreviousOf(w))
      BY <2>7 DEF CancelPreviousUpdate, TableInv, PreviousIsFound
    <3> QED
      BY <3>1, <2>1, <2>7 DEF CancelPreviousUpdate, Statuses
  <2>8. CASE ArchiveUpdate(w)
    BY <2>2, <2>8 DEF ArchiveUpdate, Statuses
  <2>9. CASE UnarchiveUpdate(w)
    BY <2>2, <2>9 DEF UnarchiveUpdate, Statuses
  <2> QED
    BY <1>5, <2>3, <2>4, <2>5, <2>6, <2>7, <2>8, <2>9 DEF LockStep
<1>6. ASSUME NEW w \in Workers, FreeStep(w) PROVE TableInv'
  <2>1. ASSUME NEW from \in Points \ {"idle"}, NEW to \in Points \ {"cancel_prev_update"},
               Advance(w, from, to)
        PROVE TableInv'
    BY <2>1, <1>t, TableMove DEF Advance, Goto
  <2>2. ASSUME NEW type, NEW to \in Points \ {"cancel_prev_update"}, CallTool(w, type, to)
        PROVE TableInv'
    <3>1. calls' \in [Workers -> 0..MaxCalls]
      BY <2>2, <1>t, ConstantsAssumption DEF CallTool
    <3> QED
      BY <2>2, <3>1, <1>t, TableMove DEF CallTool, Goto
  <2>3. CASE EndTurn(w)
    <3>1. /\ pc' \in [Workers -> Points]
          /\ cid' \in [Workers -> Convs \cup {NoConv}]
          /\ calls' \in [Workers -> 0..MaxCalls]
          /\ pc'[w] = "idle"
          /\ \A v \in Workers \ {w} : pc'[v] = pc[v] /\ cid'[v] = cid[v]
      BY <2>3, FinishTypes, ConstantsAssumption DEF EndTurn, Finish, Goto, TableInv, TypeOK
    <3> QED
      BY <3>1, <2>3, <1>t, TableQuiet
      DEF EndTurn, TableInv, HandlersHaveRows, PreviousIsFound, PreviousOf
  <2>4. CASE RequestAccess(w) \/ RequestAccessMisses(w) \/ ApproveRoles(w) \/ DenyAccess(w)
    BY <2>4, <2>2 DEF RequestAccess, RequestAccessMisses, ApproveRoles, DenyAccess
  <2>5. CASE RulesApprove(w) \/ RulesDeny(w) \/ OpenTicket(w) \/ CancelLeavesPrevious(w)
    BY <2>5, <2>1 DEF RulesApprove, RulesDeny, OpenTicket, CancelLeavesPrevious
  <2>6. CASE CancelReadsActivePrevious(w)
    BY <2>6, <1>t, TableMove DEF CancelReadsActivePrevious, Advance, Goto
  <2>7. CASE Provision(w) \/ ProvisionFails(w)
    <3>1. granted' \subseteq Convs /\ pc[w] = "provision"
      BY <2>7, <1>t, <1>h DEF Provision, ProvisionFails
    <3> QED
      BY <2>7, <3>1, <1>t, TableMove DEF Provision, ProvisionFails, Goto
  <2>8. CASE SeedCheckpoint(w)
    <3>1. seeded' \subseteq Convs
      BY <2>8, <1>t DEF SeedCheckpoint, Inserted
    <3> QED
      BY <2>8, <3>1, <1>t, TableMove DEF SeedCheckpoint, Goto
  <2>9. CASE \E d \in Convs : InsertOwnerConversation(w, d)
    BY <2>9, TableInsertOwner
  <2>10. CASE ToolFails(w)
    BY <2>10, TableEnd DEF ToolFails
  <2>11. CASE InsertFails(w)
    BY <2>11, TableEnd DEF InsertFails, Abort
  <2>12. CASE Commit(w)
    BY <2>12, TableEnd DEF Commit
  <2> QED
    BY <1>6, <2>3, <2>4, <2>5, <2>6, <2>7, <2>8, <2>9, <2>10, <2>11, <2>12 DEF FreeStep
<1>7. ASSUME NEW w \in Workers, Abort(w) PROVE TableInv'
  BY <1>7, TableEnd DEF Abort
<1>8. CASE UNCHANGED vars
  BY <1>8 DEF vars, TableInv, TypeOK, WritesAreLocked, RowsAreUsed, HandlersHaveRows,
              WritesKeepIdentity, PreviousIsFound, PreviousOf, Committed
<1> QED
  BY <1>1, <1>2, <1>3, <1>4, <1>5, <1>6, <1>7, <1>8 DEF Next, Start, Quiet

\* TableInv holds in every state.
THEOREM TableCorrect == Spec => []TableInv
  BY TableInit, TableNext, PTL DEF Spec

\* Every variable of the request handlers holds what it should, in every state:
\* no UPDATE ever misses its row, whichever handler runs when.
THEOREM TypeCorrect == Spec => []TypeOK
<1>1. TableInv => TypeOK
  BY DEF TableInv
<1> QED
  BY <1>1, TableCorrect, PTL

-----------------------------------------------------------------------------
(***************************************************************************)
(* The safety invariants of AccessRequest, on top of TableInv.             *)
(*                                                                         *)
(* Each of them is about committed rows, while a commit publishes whatever *)
(* its transaction has written.  So the induction needs to know what a     *)
(* transaction may have written at each point of its handler (HandlerInv), *)
(* and that no other handler's step can change that (OtherHandlers).       *)
(***************************************************************************)

\* The points of a handler at which its transaction may have written.
WritePoints == {"seed", "complete", "cancel_prev", "cancel_prev_update"} \cup CommitPoints

\* The points at which request_access is under way.
RequestPoints == {"rules", "ticket", "insert", "seed", "complete"}

Writes(w) == {c \in Convs : pending[w][c] # NoRow}

\* What the transaction of w may have written, and what it may write next.
HandlerInv(w) ==
    /\ pc[w] \notin WritePoints => Writes(w) = {}
    /\ pc[w] \in RequestPoints => conversations[cid[w]].type = "recommendation"
    /\ pc[w] \in {"seed", "complete"} => Inserted(w) # {} /\ Writes(w) = Inserted(w)
    /\ \A d \in Inserted(w) :
        /\ pc[w] \in {"seed", "complete", "tool_commit"}
        /\ pending[w][d].type = "dataowner"
        /\ pending[w][d].status = "active"
        /\ pending[w][d].previous = cid[w]
        /\ pc[w] = "seed" \/ d \in seeded
        /\ conversations[cid[w]].type = "recommendation"
    /\ \A c \in Writes(w) :
        /\ pending[w][c].status = "completed" => c = cid[w] /\ Inserted(w) # {}
        /\ pending[w][c].status = "approved" => c \in granted
    /\ pc[w] = "approve" => cid[w] \in granted
    /\ pc[w] \in {"cancel_prev", "cancel_prev_update"} => Writes(w) \subseteq {cid[w]}

\* Locks are only held for writes, and only an owner's row has a previous one.
RowsInv ==
    /\ \A c \in Convs, w \in Workers : lock[c] = w => c \in Writes(w)
    /\ \A c \in Convs : Committed(c) /\ conversations[c].previous # NoConv
                            => conversations[c].type = "dataowner"
    /\ ApprovedIsGranted
    /\ CompletedHasOwnerConversation
    /\ OwnerConversationIsBriefed

SafetyInv == TableInv /\ RowsInv /\ \A w \in Workers : HandlerInv(w)

-----------------------------------------------------------------------------

\* The empty table satisfies SafetyInv.
LEMMA SafetyInit == Init => SafetyInv
<1> SUFFICES ASSUME Init PROVE SafetyInv
  OBVIOUS
<1>1. RowsInv
  BY ConstantsAssumption
  DEF Init, RowsInv, Writes, Committed, ApprovedIsGranted, CompletedHasOwnerConversation,
      OwnerConversationIsBriefed
<1>2. \A w \in Workers : HandlerInv(w)
  BY DEF Init, HandlerInv, WritePoints, RequestPoints, CommitPoints, Writes, Inserted
<1> QED
  BY <1>1, <1>2, TableInit DEF SafetyInv

\* What a step does to the rows and effects never disturbs a handler that does
\* not take it: rows stay, effects stay, and no row it has inserted appears.
LEMMA OtherHandlers ==
  ASSUME TableInv, NEW v \in Workers, HandlerInv(v),
         pc'[v] = pc[v], cid'[v] = cid[v], pending'[v] = pending[v],
         granted \subseteq granted', seeded \subseteq seeded',
         \A c \in Convs : Committed(c) =>
            Committed(c)' /\ conversations'[c].type = conversations[c].type,
         \A c \in Convs : Committed(c)' => Committed(c) \/ pending[v][c] = NoRow
  PROVE  HandlerInv(v)'
<1>1. Writes(v)' = Writes(v) /\ Inserted(v)' = Inserted(v)
  BY DEF Writes, Inserted
<1>2. pc[v] # "idle" => conversations'[cid[v]].type = conversations[cid[v]].type
  BY DEF TableInv, HandlersHaveRows
<1> QED
  BY <1>1, <1>2 DEF HandlerInv, RequestPoints, WritePoints, CommitPoints

\* A step that leaves the table alone keeps what is said of the rows.
LEMMA RowsQuiet ==
  ASSUME RowsInv, UNCHANGED tableVars, granted \subseteq granted', seeded \subseteq seeded'
  PROVE  RowsInv'
  BY DEF RowsInv, tableVars, Writes, Committed, ApprovedIsGranted,
         CompletedHasOwnerConversation, OwnerConversationIsBriefed

\* A step of handler w that leaves the table alone: only w itself is to be
\* looked at.
LEMMA SafetyQuiet ==
  ASSUME SafetyInv, NEW w \in Workers, UNCHANGED tableVars,
         granted \subseteq granted', seeded \subseteq seeded',
         \A v \in Workers \ {w} : pc'[v] = pc[v] /\ cid'[v] = cid[v],
         HandlerInv(w)', TableInv'
  PROVE  SafetyInv'
<1>1. \A v \in Workers \ {w} : HandlerInv(v)'
  BY OtherHandlers DEF SafetyInv, tableVars, Committed
<1> QED
  BY <1>1, RowsQuiet DEF SafetyInv

\* The insert of a requester's conversation.
LEMMA SafetyInsert ==
  ASSUME SafetyInv, TableInv', NEW w \in Workers, NEW c \in Convs, InsertCommitted(c),
         UNCHANGED <<lock, pending, granted, seeded>>,
         \/ UNCHANGED <<pc, cid>>
         \/ pc[w] = "idle" /\ pc' = [pc EXCEPT ![w] = "turn"] /\ cid' = [cid EXCEPT ![w] = c]
  PROVE  SafetyInv'
<1> DEFINE row == NewRow("recommendation", NoConv)
<1>1. conversations' = [conversations EXCEPT ![c] = row] /\ ~Committed(c)
  BY DEF InsertCommitted, SafetyInv, TableInv, RowsAreUsed
<1>2. \A v \in Workers : pending[v][c] = NoRow
  BY DEF InsertCommitted, SafetyInv, TableInv, RowsAreUsed
<1>3. /\ row # NoRow /\ row.type = "recommendation" /\ row.status = "active"
      /\ row.previous = NoConv
  BY ConstantsAssumption DEF NewRow, Row, Types, Statuses
<1> HIDE DEF row
<1>4. \A e \in Convs : Committed(e) => Committed(e)' /\ conversations'[e] = conversations[e]
  BY <1>1 DEF SafetyInv, TableInv, TypeOK, Committed
<1>5. \A e \in Convs : Committed(e)' => Committed(e) \/ e = c
  BY <1>1 DEF SafetyInv, TableInv, TypeOK, Committed
<1>6. conversations'[c] = row
  BY <1>1 DEF SafetyInv, TableInv, TypeOK
<1>7. RowsInv'
  <2>1. \A e \in Convs, v \in Workers : lock'[e] = v => e \in Writes(v)'
    BY DEF SafetyInv, RowsInv, Writes
  <2>2. \A e \in Convs : Committed(e)' /\ conversations'[e].previous # NoConv
                            => conversations'[e].type = "dataowner"
    BY <1>3, <1>4, <1>5, <1>6 DEF SafetyInv, RowsInv
  <2>3. ApprovedIsGranted'
    BY <1>3, <1>4, <1>5, <1>6 DEF SafetyInv, RowsInv, ApprovedIsGranted, Committed
  <2>4. CompletedHasOwnerConversation'
    BY <1>3, <1>4, <1>5, <1>6 DEF SafetyInv, RowsInv, CompletedHasOwnerConversation, Committed
  <2>5. OwnerConversationIsBriefed'
    BY <1>3, <1>4, <1>5, <1>6 DEF SafetyInv, RowsInv, OwnerConversationIsBriefed, Committed
  <2> QED
    BY <2>1, <2>2, <2>3, <2>4, <2>5 DEF RowsInv, Writes, Committed
<1>8. ASSUME NEW v \in Workers, pc'[v] = pc[v], cid'[v] = cid[v] PROVE HandlerInv(v)'
  BY <1>2, <1>4, <1>5, <1>8, OtherHandlers DEF SafetyInv
<1>9. ASSUME pc[w] = "idle", pc' = [pc EXCEPT ![w] = "turn"] PROVE HandlerInv(w)'
  <2>1. HandlerInv(w) /\ pc'[w] = "turn"
    BY <1>9 DEF SafetyInv, TableInv, TypeOK
  <2>2. Writes(w) = {}
    BY <2>1, <1>9 DEF HandlerInv, WritePoints, CommitPoints
  <2>3. Writes(w)' = {}
    BY <2>2 DEF Writes
  <2> QED
    BY <2>1, <2>3 DEF HandlerInv, WritePoints, CommitPoints, RequestPoints, Writes, Inserted
<1>10. \A v \in Workers : HandlerInv(v)'
  BY <1>8, <1>9 DEF SafetyInv, TableInv, TypeOK
<1> QED
  BY <1>7, <1>10 DEF SafetyInv

\* The update of a committed row to a status that no other one rests on, or to
\* one whose condition the handler has met: its own writes are all that changes.
LEMMA RowsUnpublished ==
  ASSUME SafetyInv, TableInv', NEW w \in Workers, NEW c \in Convs, NEW row \in Row,
         lock' = [lock EXCEPT ![c] = w], pending' = [pending EXCEPT ![w][c] = row],
         UNCHANGED conversations, granted \subseteq granted', seeded \subseteq seeded'
  PROVE  RowsInv'
<1>1. row # NoRow
  BY ConstantsAssumption
<1>2. \A e \in Convs, v \in Workers : lock'[e] = v => pending'[v][e] # NoRow
  <2> SUFFICES ASSUME NEW e \in Convs, NEW v \in Workers, lock'[e] = v
               PROVE  pending'[v][e] # NoRow
    OBVIOUS
  <2>1. CASE e = c
    BY <2>1, <1>1 DEF SafetyInv, TableInv, TypeOK
  <2>2. CASE e # c
    BY <2>2 DEF SafetyInv, TableInv, TypeOK, RowsInv, Writes
  <2> QED
    BY <2>1, <2>2
<1> QED
  BY <1>2 DEF SafetyInv, RowsInv, Writes, Committed, ApprovedIsGranted,
              CompletedHasOwnerConversation, OwnerConversationIsBriefed

\* A handler updates a committed row.
LEMMA SafetyUpdate ==
  ASSUME SafetyInv, TableInv', NEW w \in Workers, NEW from \in LockPoints, NEW c \in Convs, Committed(c),
         NEW status \in Statuses, NEW to \in CommitPoints \cup {"cancel_prev"},
         pc[w] # "idle", Update(w, from, c, status, to),
         status = "approved" => c \in granted,
         status = "completed" => c = cid[w] /\ from = "complete",
         to = "tool_commit" \/ from # "complete",
         to = "cancel_prev" => c = cid[w] /\ from = "cancel"
  PROVE  SafetyInv'
<1> DEFINE row == [Visible(w, c) EXCEPT !.status = status]
<1>1. row \in Row /\ row # NoRow /\ row.status = status
  BY VisibleRow, ConstantsAssumption DEF Row, SafetyInv
<1>2. /\ pc[w] = from
      /\ lock' = [lock EXCEPT ![c] = w]
      /\ pending' = [pending EXCEPT ![w][c] = row]
      /\ pc' = [pc EXCEPT ![w] = to]
      /\ UNCHANGED <<conversations, used, cid, calls, granted, seeded>>
  BY DEF Update, UpdateStatus, Goto
<1> HIDE DEF row
<1>3. RowsInv'
  BY <1>1, <1>2, RowsUnpublished
<1>4. \A v \in Workers \ {w} : HandlerInv(v)'
  BY <1>2, OtherHandlers DEF SafetyInv, TableInv, TypeOK, Committed
<1>5. /\ HandlerInv(w) /\ pc'[w] = to
      /\ Writes(w)' = Writes(w) \cup {c}
      /\ Inserted(w)' = Inserted(w)
      /\ pending'[w][c] = row
      /\ \A e \in Convs \ {c} : pending'[w][e] = pending[w][e]
      /\ c \notin Inserted(w)
  BY <1>1, <1>2 DEF SafetyInv, TableInv, TypeOK, Writes, Inserted, Committed
<1>6. HandlerInv(w)'
  <2>1. to \notin RequestPoints /\ to \in WritePoints /\ to # "approve" /\ to # "cancel_prev_update"
    BY DEF RequestPoints, WritePoints, CommitPoints
  <2>2. ASSUME NEW d \in Inserted(w)'
        PROVE  /\ pc'[w] \in {"seed", "complete", "tool_commit"}
               /\ pending'[w][d].type = "dataowner"
               /\ pending'[w][d].status = "active"
               /\ pending'[w][d].previous = cid'[w]
               /\ pc'[w] = "seed" \/ d \in seeded'
               /\ conversations'[cid'[w]].type = "recommendation"
    <3>1. d \in Inserted(w) /\ d # c /\ d \in Convs
      BY <1>5, <2>2 DEF Inserted
    <3>2. from = "complete" /\ to = "tool_commit"
      BY <3>1, <1>2, <1>5 DEF HandlerInv, LockPoints
    <3> QED
      BY <3>1, <3>2, <1>2, <1>5 DEF HandlerInv
  <2>3. ASSUME NEW e \in Writes(w)'
        PROVE  /\ pending'[w][e].status = "completed" => e = cid'[w] /\ Inserted(w)' # {}
               /\ pending'[w][e].status = "approved" => e \in granted'
    <3>1. CASE e = c
      BY <3>1, <1>1, <1>2, <1>5 DEF HandlerInv
    <3>2. CASE e # c
      <4>1. e \in Writes(w) /\ e \in Convs
        BY <3>2, <1>5, <2>3 DEF Writes
      <4> QED
        BY <4>1, <3>2, <1>2, <1>5 DEF HandlerInv
    <3> QED
      BY <3>1, <3>2
  <2>4. to = "cancel_prev" => Writes(w)' \subseteq {cid'[w]}
    BY <1>2, <1>5 DEF HandlerInv, WritePoints, CommitPoints
  <2>5. to \notin {"seed", "complete"}
    BY DEF CommitPoints
  <2> QED
    BY <2>1, <2>2, <2>3, <2>4, <2>5, <1>5 DEF HandlerInv
<1> QED
  BY <1>3, <1>4, <1>6 DEF SafetyInv

\* The data owner's conversation is written, but not published yet.
LEMMA SafetyInsertOwner ==
  ASSUME SafetyInv, TableInv', NEW w \in Workers, NEW d \in Convs, InsertOwnerConversation(w, d)
  PROVE  SafetyInv'
<1> DEFINE row == NewRow("dataowner", cid[w])
<1>1. /\ row \in Row /\ row # NoRow /\ row.type = "dataowner" /\ row.status = "active"
      /\ row.previous = cid[w]
  BY ConstantsAssumption
  DEF InsertOwnerConversation, SafetyInv, TableInv, TypeOK, HandlersHaveRows, NewRow, Row,
      Types, Statuses
<1>2. /\ pc[w] = "insert" /\ d \notin used
      /\ lock' = [lock EXCEPT ![d] = w]
      /\ pending' = [pending EXCEPT ![w][d] = row]
      /\ pc' = [pc EXCEPT ![w] = "seed"]
      /\ UNCHANGED <<conversations, cid, calls, granted, seeded>>
  BY DEF InsertOwnerConversation, InsertRow, Goto
<1> HIDE DEF row
<1>3. RowsInv'
  BY <1>1, <1>2, RowsUnpublished
<1>4. \A v \in Workers \ {w} : HandlerInv(v)'
  BY <1>2, OtherHandlers DEF SafetyInv, TableInv, TypeOK, Committed
<1>5. /\ HandlerInv(w) /\ pc'[w] = "seed" /\ ~Committed(d)
      /\ Writes(w) = {}
      /\ conversations[cid[w]].type = "recommendation"
  BY <1>2 DEF SafetyInv, TableInv, TypeOK, RowsAreUsed, HandlerInv, WritePoints, CommitPoints,
              RequestPoints
<1>6. /\ pending'[w][d] = row
      /\ Writes(w)' = {d}
      /\ Inserted(w)' = {d}
  BY <1>1, <1>2, <1>5 DEF SafetyInv, TableInv, TypeOK, Writes, Inserted, Committed
<1>7. HandlerInv(w)'
  BY <1>1, <1>2, <1>5, <1>6 DEF HandlerInv, WritePoints, CommitPoints, RequestPoints
<1> QED
  BY <1>3, <1>4, <1>7 DEF SafetyInv

\* What the end of a transaction leaves of its handler and of the locks.
LEMMA SafetyEnd ==
  ASSUME SafetyInv, NEW w \in Workers, ReleaseLocks(w), ForgetWrites(w),
         Finish(w) \/ (Goto(w, "turn") /\ UNCHANGED <<cid, calls>>)
  PROVE  /\ HandlerInv(w)'
         /\ \A v \in Workers \ {w} :
               pc'[v] = pc[v] /\ cid'[v] = cid[v] /\ pending'[v] = pending[v]
         /\ \A c \in Convs, v \in Workers : lock'[c] = v => pending'[v][c] # NoRow
<1>1. /\ lock' = [c \in Convs |-> IF lock[c] = w THEN NoWorker ELSE lock[c]]
      /\ pending' = [pending EXCEPT ![w] = [c \in Convs |-> NoRow]]
  BY DEF ReleaseLocks, ForgetWrites
<1>2. /\ pc'[w] \in {"idle", "turn"}
      /\ \A v \in Workers \ {w} : pc'[v] = pc[v] /\ cid'[v] = cid[v]
  BY FinishTypes DEF SafetyInv, TableInv
<1>3. \A v \in Workers \ {w} : pending'[v] = pending[v]
  BY <1>1 DEF SafetyInv, TableInv, TypeOK
<1>4. Writes(w)' = {} /\ Inserted(w)' = {}
  BY <1>1 DEF SafetyInv, TableInv, TypeOK, Writes, Inserted
<1>5. HandlerInv(w)'
  BY <1>2, <1>4 DEF HandlerInv, WritePoints, CommitPoints, RequestPoints
<1>6. ASSUME NEW c \in Convs, NEW v \in Workers, lock'[c] = v PROVE pending'[v][c] # NoRow
  <2>1. lock[c] = v /\ v # w
    BY <1>1, <1>6, ConstantsAssumption
  <2> QED
    BY <2>1, <1>3 DEF SafetyInv, RowsInv, Writes
<1> QED
  BY <1>2, <1>3, <1>5, <1>6

\* A rollback leaves the rows as they are.
LEMMA SafetyRollback ==
  ASSUME SafetyInv, TableInv', NEW w \in Workers, RollbackWrites(w),
         Finish(w) \/ (Goto(w, "turn") /\ UNCHANGED <<cid, calls>>),
         UNCHANGED <<used, granted, seeded>>
  PROVE  SafetyInv'
<1>1. UNCHANGED conversations /\ ReleaseLocks(w) /\ ForgetWrites(w)
  BY DEF RollbackWrites
<1>2. /\ HandlerInv(w)'
      /\ \A v \in Workers \ {w} :
            pc'[v] = pc[v] /\ cid'[v] = cid[v] /\ pending'[v] = pending[v]
      /\ \A c \in Convs, v \in Workers : lock'[c] = v => pending'[v][c] # NoRow
  BY <1>1, SafetyEnd
<1>3. \A v \in Workers \ {w} : HandlerInv(v)'
  BY <1>1, <1>2, OtherHandlers DEF SafetyInv, Committed
<1>4. RowsInv'
  BY <1>1, <1>2 DEF SafetyInv, RowsInv, Writes, Committed, ApprovedIsGranted,
                    CompletedHasOwnerConversation, OwnerConversationIsBriefed
<1> QED
  BY <1>2, <1>3, <1>4 DEF SafetyInv

\* A commit publishes what HandlerInv says the transaction may have written.
LEMMA SafetyCommit ==
  ASSUME SafetyInv, TableInv', NEW w \in Workers, Commit(w)
  PROVE  SafetyInv'
<1>1. /\ pc[w] \in CommitPoints /\ pc[w] # "seed"
      /\ ReleaseLocks(w) /\ ForgetWrites(w)
      /\ Finish(w) \/ (Goto(w, "turn") /\ UNCHANGED <<cid, calls>>)
      /\ UNCHANGED <<used, granted, seeded>>
  BY DEF Commit, CommitWrites, CommitPoints
<1>2. \A c \in Convs : conversations'[c] =
          IF pending[w][c] # NoRow THEN pending[w][c] ELSE conversations[c]
  BY DEF Commit, CommitWrites, Visible
<1>3. /\ HandlerInv(w)'
      /\ \A v \in Workers \ {w} :
            pc'[v] = pc[v] /\ cid'[v] = cid[v] /\ pending'[v] = pending[v]
      /\ \A c \in Convs, v \in Workers : lock'[c] = v => pending'[v][c] # NoRow
  BY <1>1, SafetyEnd
<1>4. \A c \in Convs : Committed(c) =>
          /\ Committed(c)'
          /\ conversations'[c].type = conversations[c].type
          /\ conversations'[c].previous = conversations[c].previous
  BY <1>2 DEF SafetyInv, TableInv, WritesKeepIdentity, Committed
<1>5. \A c \in Convs : ~Committed(c) /\ Committed(c)' =>
          /\ c \in Inserted(w)
          /\ conversations'[c].type = "dataowner"
          /\ conversations'[c].status = "active"
          /\ conversations'[c].previous = cid[w]
          /\ c \in seeded
  BY <1>1, <1>2 DEF SafetyInv, HandlerInv, Inserted, Committed
<1>6. ASSUME NEW v \in Workers \ {w} PROVE HandlerInv(v)'
  <2>1. \A c \in Convs : Committed(c)' => Committed(c) \/ pending[v][c] = NoRow
    BY <1>2 DEF SafetyInv, TableInv, WritesAreLocked, Committed
  <2> QED
    BY <1>1, <1>3, <1>4, <2>1, OtherHandlers DEF SafetyInv
<1>7. ApprovedIsGranted'
  BY <1>1, <1>2 DEF SafetyInv, RowsInv, HandlerInv, ApprovedIsGranted, Writes, Committed
<1>8. CompletedHasOwnerConversation'
  <2> SUFFICES ASSUME NEW c \in Convs, Committed(c)', conversations'[c].status = "completed"
               PROVE  \E d \in Convs : /\ Committed(d)'
                                       /\ conversations'[d].type = "dataowner"
                                       /\ conversations'[d].previous = c
    BY DEF CompletedHasOwnerConversation
  <2>1. CASE pending[w][c] # NoRow
    <3>1. c = cid[w] /\ Inserted(w) # {}
      BY <1>2, <2>1 DEF SafetyInv, HandlerInv, Writes
    <3>2. PICK d \in Inserted(w) : TRUE
      BY <3>1
    <3>3. d \in Convs /\ ~Committed(d) /\ Committed(d)'
      BY <1>2, <3>2 DEF Inserted, Committed
    <3> QED
      BY <1>5, <3>1, <3>3
  <2>2. CASE pending[w][c] = NoRow
    <3>1. PICK d \in Convs : /\ Committed(d)
                             /\ conversations[d].type = "dataowner"
                             /\ conversations[d].previous = c
      BY <1>2, <2>2 DEF SafetyInv, RowsInv, CompletedHasOwnerConversation, Committed
    <3> QED
      BY <1>4, <3>1
  <2> QED
    BY <2>1, <2>2
<1>9. OwnerConversationIsBriefed'
  <2> SUFFICES ASSUME NEW d \in Convs, Committed(d)', conversations'[d].type = "dataowner"
               PROVE  /\ d \in seeded
                      /\ conversations'[d].previous \in Convs
                      /\ conversations'[conversations'[d].previous] # NoRow
                      /\ conversations'[conversations'[d].previous].type = "recommendation"
    BY <1>1 DEF OwnerConversationIsBriefed, Committed
  <2>1. CASE Committed(d)
    BY <2>1, <1>4 DEF SafetyInv, RowsInv, OwnerConversationIsBriefed, Committed
  <2>2. CASE ~Committed(d)
    <3>1. cid[w] \in Convs /\ Committed(cid[w])
      BY <1>1 DEF SafetyInv, TableInv, HandlersHaveRows, CommitPoints
    <3>2. conversations[cid[w]].type = "recommendation"
      BY <1>5, <2>2 DEF SafetyInv, HandlerInv
    <3> QED
      BY <1>4, <1>5, <2>2, <3>1, <3>2 DEF Committed
  <2> QED
    BY <2>1, <2>2
<1>10. RowsInv'
  <2>1. \A c \in Convs : Committed(c)' /\ conversations'[c].previous # NoConv
                            => conversations'[c].type = "dataowner"
    BY <1>4, <1>5 DEF SafetyInv, RowsInv
  <2> QED
    BY <1>3, <1>7, <1>8, <1>9, <2>1 DEF RowsInv, Writes, Committed
<1> QED
  BY <1>3, <1>6, <1>10 DEF SafetyInv

\* A handler that has written nothing moves on, and still has written nothing.
LEMMA SafetyMove ==
  ASSUME SafetyInv, TableInv', NEW w \in Workers, NEW point \in Points \ WritePoints,
         pc[w] \notin WritePoints, UNCHANGED tableVars,
         granted \subseteq granted', seeded \subseteq seeded',
         pc' = [pc EXCEPT ![w] = point],
         \A v \in Workers \ {w} : cid'[v] = cid[v],
         point \in RequestPoints => conversations[cid'[w]].type = "recommendation",
         point = "approve" => cid'[w] \in granted'
  PROVE  SafetyInv'
<1>1. pc'[w] = point /\ \A v \in Workers \ {w} : pc'[v] = pc[v]
  BY DEF SafetyInv, TableInv, TypeOK
<1>2. Writes(w) = {}
  BY DEF SafetyInv, HandlerInv
<1>3. Writes(w)' = {} /\ Inserted(w)' = {}
  BY <1>2 DEF tableVars, Writes, Inserted
<1>4. HandlerInv(w)'
  BY <1>1, <1>3 DEF HandlerInv, WritePoints, RequestPoints, tableVars
<1> QED
  BY <1>1, <1>4, SafetyQuiet

\* The checkpoint is seeded: it is the one the inserted conversation needs.
LEMMA SafetySeed ==
  ASSUME SafetyInv, TableInv', NEW w \in Workers, SeedCheckpoint(w)
  PROVE  SafetyInv'
<1>1. /\ pc[w] = "seed" /\ pc'[w] = "complete" /\ \A v \in Workers \ {w} : pc'[v] = pc[v]
      /\ seeded' = seeded \cup Inserted(w)
      /\ UNCHANGED <<tableVars, cid, calls, used, granted>>
  BY DEF SeedCheckpoint, Goto, SafetyInv, TableInv, TypeOK
<1>2. Writes(w)' = Writes(w) /\ Inserted(w)' = Inserted(w) /\ HandlerInv(w)
  BY <1>1 DEF tableVars, Writes, Inserted, Committed, SafetyInv
<1>3. HandlerInv(w)'
  BY <1>1, <1>2 DEF HandlerInv, WritePoints, RequestPoints, tableVars
<1> QED
  BY <1>1, <1>3, SafetyQuiet

\* A cancellation reads the previous conversation.
LEMMA SafetyReadsPrevious ==
  ASSUME SafetyInv, TableInv', NEW w \in Workers, NEW to \in {"cancel_prev_update", "cancel_commit"},
         Advance(w, "cancel_prev", to)
  PROVE  SafetyInv'
<1>1. /\ pc[w] = "cancel_prev" /\ pc'[w] = to /\ \A v \in Workers \ {w} : pc'[v] = pc[v]
      /\ UNCHANGED <<tableVars, cid, calls, used, granted, seeded>>
  BY DEF Advance, Goto, SafetyInv, TableInv, TypeOK
<1>2. /\ Writes(w)' = Writes(w) /\ Inserted(w)' = Inserted(w) /\ HandlerInv(w)
      /\ Inserted(w) = {}
  BY <1>1 DEF tableVars, Writes, Inserted, Committed, SafetyInv, HandlerInv
<1>3. HandlerInv(w)'
  BY <1>1, <1>2 DEF HandlerInv, WritePoints, RequestPoints, CommitPoints, tableVars
<1> QED
  BY <1>1, <1>3, SafetyQuiet

\* Every step preserves SafetyInv.
LEMMA SafetyNext == SafetyInv /\ [Next]_vars => SafetyInv'
<1> SUFFICES ASSUME SafetyInv, [Next]_vars PROVE SafetyInv'
  OBVIOUS
<1>t. TableInv' /\ TypeOK /\ pc \in [Workers -> Points]
  BY TableNext DEF SafetyInv, TableInv, TypeOK
<1>h. \A w \in Workers : pc[w] # "idle" => cid[w] \in Convs /\ Committed(cid[w])
  BY DEF SafetyInv, TableInv, HandlersHaveRows
<1> USE DEF Points, CommitPoints, LockPoints
<1>m. ASSUME NEW w \in Workers, NEW point \in Points \ WritePoints,
             pc[w] \notin WritePoints, UNCHANGED <<tableVars, cid>>,
             granted \subseteq granted', seeded \subseteq seeded', Goto(w, point),
             point \in RequestPoints => conversations[cid[w]].type = "recommendation",
             point = "approve" => cid[w] \in granted'
      PROVE  SafetyInv'
  BY <1>t, <1>m, SafetyMove DEF Goto
<1>1. ASSUME NEW w \in Workers, NEW c \in Convs, Create(w, c) PROVE SafetyInv'
  BY <1>1, <1>t, SafetyInsert DEF Create
<1>2. ASSUME NEW w \in Workers, NEW c \in Convs, SlackNewThread(w, c) PROVE SafetyInv'
  BY <1>2, <1>t, SafetyInsert DEF SlackNewThread, StartTurn, Goto
<1>3. ASSUME NEW w \in Workers, NEW c \in Convs,
             NEW point \in {"turn", "cancel", "archive", "unarchive"},
             pc[w] = "idle", Goto(w, point), cid' = [cid EXCEPT ![w] = c],
             UNCHANGED <<tableVars, granted, seeded>>
      PROVE  SafetyInv'
  <2>1. point \notin WritePoints \cup RequestPoints /\ point # "approve" /\ pc[w] \notin WritePoints
    BY <1>3 DEF WritePoints, RequestPoints
  <2>2. \A v \in Workers \ {w} : cid'[v] = cid[v]
    BY <1>3, <1>t DEF TypeOK
  <2> QED
    BY <1>3, <1>t, <2>1, <2>2, SafetyMove DEF Goto
<1>4. ASSUME NEW w \in Workers, NEW c \in Convs,
             \/ BeginTurn(w, c) \/ CancelConv(w, c) \/ ArchiveConv(w, c) \/ UnarchiveConv(w, c)
      PROVE  SafetyInv'
  BY <1>4, <1>3 DEF BeginTurn, StartTurn, CancelConv, ArchiveConv, UnarchiveConv, StartRoute
<1>5. ASSUME NEW w \in Workers, LockStep(w) PROVE SafetyInv'
  <2>1. ASSUME NEW from \in LockPoints, NEW status \in Statuses,
               NEW to \in CommitPoints \cup {"cancel_prev"},
               Update(w, from, cid[w], status, to),
               status = "approved" => cid[w] \in granted,
               status = "completed" => from = "complete",
               to = "tool_commit" \/ from # "complete",
               to = "cancel_prev" => from = "cancel"
        PROVE  SafetyInv'
    <3>1. cid[w] \in Convs /\ Committed(cid[w]) /\ pc[w] # "idle"
      BY <2>1, <1>h DEF Update
    <3> QED
      BY <2>1, <3>1, <1>t, SafetyUpdate
  <2>2. CASE ApproveUpdate(w)
    <3>1. cid[w] \in granted
      BY <2>2 DEF ApproveUpdate, Update, SafetyInv, HandlerInv
    <3> QED
      BY <2>1, <2>2, <3>1 DEF ApproveUpdate, Statuses
  <2>3. CASE DenyUpdate(w)
    BY <2>1, <2>3 DEF DenyUpdate, Statuses
  <2>4. CASE CompleteUpdate(w)
    BY <2>1, <2>4 DEF CompleteUpdate, Statuses
  <2>5. CASE CancelUpdate(w)
    BY <2>1, <2>5 DEF CancelUpdate, Statuses
  <2>6. CASE CancelPreviousUpdate(w)
    <3>1. PreviousOf(w) \in Convs /\ Committed(PreviousOf(w)) /\ pc[w] # "idle"
      BY <2>6 DEF CancelPreviousUpdate, SafetyInv, TableInv, PreviousIsFound
    <3> QED
      BY <3>1, <1>t, <2>6, SafetyUpdate DEF CancelPreviousUpdate, Statuses
  <2>7. CASE ArchiveUpdate(w)
    BY <2>1, <2>7 DEF ArchiveUpdate, Statuses
  <2>8. CASE UnarchiveUpdate(w)
    BY <2>1, <2>8 DEF UnarchiveUpdate, Statuses
  <2> QED
    BY <1>5, <2>2, <2>3, <2>4, <2>5, <2>6, <2>7, <2>8 DEF LockStep
<1>6. ASSUME NEW w \in Workers, FreeStep(w) PROVE SafetyInv'
  <2>1. CASE EndTurn(w)
    <3>1. \A v \in Workers \ {w} : cid'[v] = cid[v]
      BY <2>1, <1>t DEF EndTurn, Finish, TypeOK
    <3> QED
      BY <2>1, <3>1, <1>t, SafetyMove DEF EndTurn, Finish, Goto, WritePoints, RequestPoints
  <2>2. CASE RequestAccess(w) \/ RequestAccessMisses(w) \/ ApproveRoles(w) \/ DenyAccess(w)
    BY <2>2, <1>m DEF RequestAccess, RequestAccessMisses, ApproveRoles, DenyAccess, CallTool,
                      WritePoints, RequestPoints
  <2>3. CASE RulesApprove(w) \/ RulesDeny(w) \/ OpenTicket(w)
    <3>1. pc[w] \in RequestPoints \ WritePoints
      BY <2>3 DEF RulesApprove, RulesDeny, OpenTicket, Advance, RequestPoints, WritePoints
    <3>2. conversations[cid[w]].type = "recommendation"
      BY <3>1 DEF SafetyInv, HandlerInv
    <3> QED
      BY <2>3, <3>1, <3>2, <1>m
      DEF RulesApprove, RulesDeny, OpenTicket, Advance, RequestPoints, WritePoints
  <2>4. CASE Provision(w)
    BY <2>4, <1>m DEF Provision, WritePoints, RequestPoints
  <2>5. CASE ProvisionFails(w)
    <3>1. granted \subseteq granted' /\ seeded \subseteq seeded'
      BY <2>5 DEF ProvisionFails
    <3> QED
      BY <2>5, <3>1, <1>m DEF ProvisionFails, WritePoints, RequestPoints
  <2>6. CASE ToolFails(w)
    BY <2>6, <1>t, SafetyRollback DEF ToolFails
  <2>7. CASE \E d \in Convs : InsertOwnerConversation(w, d)
    BY <2>7, <1>t, SafetyInsertOwner
  <2>8. CASE InsertFails(w)
    BY <2>8, <1>t, SafetyRollback DEF InsertFails, Abort
  <2>9. CASE SeedCheckpoint(w)
    BY <2>9, <1>t, SafetySeed
  <2>10. CASE CancelReadsActivePrevious(w) \/ CancelLeavesPrevious(w)
    BY <2>10, <1>t, SafetyReadsPrevious DEF CancelReadsActivePrevious, CancelLeavesPrevious
  <2>11. CASE Commit(w)
    BY <2>11, <1>t, SafetyCommit
  <2> QED
    BY <1>6, <2>1, <2>2, <2>3, <2>4, <2>5, <2>6, <2>7, <2>8, <2>9, <2>10, <2>11 DEF FreeStep
<1>7. ASSUME NEW w \in Workers, Abort(w) PROVE SafetyInv'
  BY <1>7, <1>t, SafetyRollback DEF Abort
<1>8. CASE UNCHANGED vars
  <2>1. \A v \in Workers : HandlerInv(v)'
    BY <1>8, OtherHandlers DEF vars, SafetyInv, Committed
  <2> QED
    BY <1>8, <2>1, <1>t, RowsQuiet DEF vars, tableVars, SafetyInv
<1> QED
  BY <1>1, <1>2, <1>4, <1>5, <1>6, <1>7, <1>8 DEF Next, Start, Quiet

\* A handler that waits for a row holds locks only as LockOrder says.
LEMMA SafetyOrdersLocks == SafetyInv => LockOrder
<1> SUFFICES ASSUME SafetyInv, NEW w \in Workers, pc[w] \in LockPoints,
                    NEW c \in Convs, lock[c] = w
             PROVE  Visible(w, c).type = "dataowner" /\ Visible(w, c).previous = Wanted(w)
  BY DEF LockOrder
<1>1. c \in Writes(w) /\ HandlerInv(w)
  BY DEF SafetyInv, RowsInv
<1>2. pc[w] \in {"complete", "cancel_prev_update"}
  BY <1>1 DEF HandlerInv, WritePoints, LockPoints, CommitPoints
<1>3. CASE pc[w] = "complete"
  BY <1>1, <1>3 DEF HandlerInv, Visible, Writes, Wanted
<1>4. CASE pc[w] = "cancel_prev_update"
  <2>1. c = cid[w] /\ Committed(c)
    BY <1>1, <1>4 DEF HandlerInv, SafetyInv, TableInv, HandlersHaveRows
  <2>2. conversations[c].previous \in Convs
    BY <1>4, <2>1 DEF SafetyInv, TableInv, PreviousIsFound, PreviousOf
  <2>3. conversations[c].type = "dataowner"
    BY <2>1, <2>2, ConstantsAssumption DEF SafetyInv, RowsInv
  <2> QED
    BY <1>4, <2>1, <2>3, VisibleRow DEF SafetyInv, Wanted, PreviousOf
<1> QED
  BY <1>2, <1>3, <1>4

-----------------------------------------------------------------------------

\* SafetyInv holds in every state.
THEOREM SafetyCorrect == Spec => []SafetyInv
  BY SafetyInit, SafetyNext, PTL DEF Spec

\* No request is ever shown as approved before its access is provisioned, in
\* any number of conversations and with any number of handlers.
THEOREM ApprovalCorrect == Spec => []ApprovedIsGranted
<1>1. SafetyInv => ApprovedIsGranted
  BY DEF SafetyInv, RowsInv
<1> QED
  BY <1>1, SafetyCorrect, PTL

\* A completed request always has a data owner's conversation about it.
THEOREM HandOverCorrect == Spec => []CompletedHasOwnerConversation
<1>1. SafetyInv => CompletedHasOwnerConversation
  BY DEF SafetyInv, RowsInv
<1> QED
  BY <1>1, SafetyCorrect, PTL

\* A data owner's conversation that can be opened always has its checkpoint and
\* its requester's conversation.
THEOREM BriefingCorrect == Spec => []OwnerConversationIsBriefed
<1>1. SafetyInv => OwnerConversationIsBriefed
  BY DEF SafetyInv, RowsInv
<1> QED
  BY <1>1, SafetyCorrect, PTL

\* Row locks are always taken in one order, so handlers never deadlock on them.
THEOREM LockOrderCorrect == Spec => []LockOrder
  BY SafetyOrdersLocks, SafetyCorrect, PTL

-----------------------------------------------------------------------------
(***************************************************************************)
(* The handlers implement RequestLedger.  A commit publishes a whole       *)
(* transaction, and is one entry of the ledger because of what exactly the *)
(* transaction holds at each commit point (TransactionInv).                *)
(***************************************************************************)

\* What the transaction of w has written when it can be committed, row by row.
TransactionInv(w) ==
    /\ \A d, e \in Inserted(w) : d = e
    /\ pc[w] = "deny" => conversations[cid[w]].type = "dataowner"
    /\ pc[w] = "tool_commit" =>
        /\ Writes(w) = Inserted(w) \cup {cid[w]}
        /\ pending[w][cid[w]].status \in {"approved", "denied", "completed"}
        /\ pending[w][cid[w]].status = "denied" => conversations[cid[w]].type = "dataowner"
        /\ Inserted(w) # {} => pending[w][cid[w]].status = "completed"
    /\ pc[w] \in {"cancel_prev", "cancel_prev_update"} => Writes(w) = {cid[w]}
    /\ pc[w] = "cancel_commit" => Writes(w) \in {{cid[w]}, {cid[w], PreviousOf(w)}}
    /\ pc[w] \in {"cancel_prev", "cancel_prev_update", "cancel_commit"} =>
        \A c \in Writes(w) : pending[w][c].status = "cancelled"
    /\ pc[w] = "archive_commit" =>
        Writes(w) = {cid[w]} /\ pending[w][cid[w]].status = "archived"
    /\ pc[w] = "unarchive_commit" =>
        Writes(w) = {cid[w]} /\ pending[w][cid[w]].status = "active"

LedgerInv == SafetyInv /\ \A w \in Workers : TransactionInv(w)

\* A step of one handler leaves the transactions of the others as they are: rows
\* keep their type and their request, and none that they have inserted appears.
LEMMA OtherTransactions ==
  ASSUME TableInv, NEW v \in Workers, TransactionInv(v),
         pc'[v] = pc[v], cid'[v] = cid[v], pending'[v] = pending[v],
         \A c \in Convs : Committed(c) =>
            /\ Committed(c)'
            /\ conversations'[c].type = conversations[c].type
            /\ conversations'[c].previous = conversations[c].previous,
         \A c \in Convs : Committed(c)' => Committed(c) \/ pending[v][c] = NoRow
  PROVE  TransactionInv(v)'
<1>1. Writes(v)' = Writes(v) /\ Inserted(v)' = Inserted(v)
  BY DEF Writes, Inserted
<1>2. pc[v] # "idle" => /\ conversations'[cid[v]].type = conversations[cid[v]].type
                        /\ PreviousOf(v)' = PreviousOf(v)
  BY DEF TableInv, HandlersHaveRows, PreviousOf
<1> QED
  BY <1>1, <1>2 DEF TransactionInv

\* A step of handler w that publishes no row: only w itself is to be looked at.
LEMMA TransactionQuiet ==
  ASSUME LedgerInv, NEW w \in Workers, UNCHANGED conversations,
         \A v \in Workers \ {w} : pc'[v] = pc[v] /\ cid'[v] = cid[v] /\ pending'[v] = pending[v],
         TransactionInv(w)'
  PROVE  \A v \in Workers : TransactionInv(v)'
  BY OtherTransactions DEF LedgerInv, SafetyInv, Committed

\* A handler that has written nothing moves on, or begins, and the ledger may
\* learn of an access that has been provisioned.
LEMMA TransactionMove ==
  ASSUME LedgerInv, NEW w \in Workers, NEW point \in Points \ WritePoints,
         pc[w] \notin WritePoints, UNCHANGED tableVars, pc' = [pc EXCEPT ![w] = point],
         \A v \in Workers \ {w} : cid'[v] = cid[v],
         point = "deny" => conversations[cid'[w]].type = "dataowner"
  PROVE  \A v \in Workers : TransactionInv(v)'
<1>1. pc'[w] = point /\ \A v \in Workers \ {w} : pc'[v] = pc[v]
  BY DEF LedgerInv, SafetyInv, TableInv, TypeOK
<1>2. Writes(w)' = {} /\ Inserted(w)' = {}
  BY DEF LedgerInv, SafetyInv, HandlerInv, tableVars, Writes, Inserted
<1>3. TransactionInv(w)'
  BY <1>1, <1>2 DEF TransactionInv, WritePoints, CommitPoints, tableVars
<1> QED
  BY <1>1, <1>3, TransactionQuiet DEF tableVars

\* What an update of a committed row leaves in its transaction.
LEMMA UpdateWrites ==
  ASSUME LedgerInv, NEW w \in Workers, NEW from, NEW c \in Convs, Committed(c),
         NEW status \in Statuses, NEW to \in Points, Update(w, from, c, status, to)
  PROVE  /\ pc[w] = from /\ pc'[w] = to /\ UNCHANGED <<conversations, cid, granted, seeded>>
         /\ \A v \in Workers \ {w} :
               pc'[v] = pc[v] /\ cid'[v] = cid[v] /\ pending'[v] = pending[v]
         /\ Writes(w)' = Writes(w) \cup {c} /\ Inserted(w)' = Inserted(w)
         /\ pending'[w][c].status = status
         /\ \A e \in Convs \ {c} : pending'[w][e] = pending[w][e]
<1> DEFINE row == [Visible(w, c) EXCEPT !.status = status]
<1>1. row \in Row /\ row # NoRow /\ row.status = status
  BY VisibleRow, ConstantsAssumption DEF Row, LedgerInv, SafetyInv
<1>2. /\ pc[w] = from
      /\ pending' = [pending EXCEPT ![w][c] = row]
      /\ pc' = [pc EXCEPT ![w] = to]
      /\ UNCHANGED <<conversations, used, cid, calls, granted, seeded>>
  BY DEF Update, UpdateStatus, Goto
<1> HIDE DEF row
<1>3. pending'[w][c] = row /\ \A e \in Convs \ {c} : pending'[w][e] = pending[w][e]
  BY <1>2 DEF LedgerInv, SafetyInv, TableInv, TypeOK
<1>4. Writes(w)' = Writes(w) \cup {c} /\ Inserted(w)' = Inserted(w)
  BY <1>1, <1>2, <1>3 DEF Writes, Inserted, Committed
<1> QED
  BY <1>1, <1>2, <1>3, <1>4 DEF LedgerInv, SafetyInv, TableInv, TypeOK

\* The first, and but for a cancellation and a hand-over only, update.
LEMMA TransactionUpdate ==
  ASSUME LedgerInv, NEW w \in Workers, LockStep(w)
  PROVE  (\A v \in Workers : TransactionInv(v)') /\ UNCHANGED Ledger!vars
<1> USE DEF Points, CommitPoints, LockPoints, Statuses
<1>h. pc[w] # "idle" => cid[w] \in Convs /\ Committed(cid[w])
  BY DEF LedgerInv, SafetyInv, TableInv, HandlersHaveRows
<1>i. HandlerInv(w) /\ TransactionInv(w)
  BY DEF LedgerInv, SafetyInv
<1>e. UNCHANGED Ledger!vars
  BY DEF LockStep, ApproveUpdate, DenyUpdate, CompleteUpdate, CancelUpdate, CancelPreviousUpdate,
         ArchiveUpdate, UnarchiveUpdate, Update, UpdateStatus, Ledger!vars
<1>1. ASSUME NEW from \in LockPoints, NEW c \in Convs, Committed(c), NEW status \in Statuses,
             NEW to \in Points, Update(w, from, c, status, to), TransactionInv(w)'
      PROVE  \A v \in Workers : TransactionInv(v)'
  BY <1>1, UpdateWrites, TransactionQuiet
<1>2. CASE ApproveUpdate(w)
  <2>1. cid[w] \in Convs /\ Committed(cid[w]) /\ Writes(w) = {} /\ Inserted(w) = {}
    BY <1>2, <1>h, <1>i DEF ApproveUpdate, Update, HandlerInv, WritePoints, Inserted, Writes
  <2>2. TransactionInv(w)'
    BY <1>2, <2>1, UpdateWrites DEF ApproveUpdate, TransactionInv
  <2> QED
    BY <1>e, <1>1, <1>2, <2>1, <2>2 DEF ApproveUpdate
<1>3. CASE DenyUpdate(w)
  <2>1. /\ cid[w] \in Convs /\ Committed(cid[w]) /\ Writes(w) = {} /\ Inserted(w) = {}
        /\ conversations[cid[w]].type = "dataowner"
    BY <1>3, <1>h, <1>i DEF DenyUpdate, Update, HandlerInv, WritePoints, Inserted, Writes, TransactionInv
  <2>2. TransactionInv(w)'
    BY <1>3, <2>1, UpdateWrites DEF DenyUpdate, TransactionInv
  <2> QED
    BY <1>e, <1>1, <1>3, <2>1, <2>2 DEF DenyUpdate
<1>4. CASE CompleteUpdate(w)
  <2>1. /\ cid[w] \in Convs /\ Committed(cid[w]) /\ Writes(w) = Inserted(w)
        /\ \A d, e \in Inserted(w) : d = e
    BY <1>4, <1>h, <1>i DEF CompleteUpdate, Update, HandlerInv, TransactionInv
  <2>2. TransactionInv(w)'
    BY <1>4, <2>1, UpdateWrites DEF CompleteUpdate, TransactionInv
  <2> QED
    BY <1>e, <1>1, <1>4, <2>1, <2>2 DEF CompleteUpdate
<1>5. CASE CancelUpdate(w)
  <2>1. cid[w] \in Convs /\ Committed(cid[w]) /\ Writes(w) = {} /\ Inserted(w) = {}
    BY <1>5, <1>h, <1>i DEF CancelUpdate, Update, HandlerInv, WritePoints, Inserted, Writes
  <2>2. TransactionInv(w)'
    BY <1>5, <2>1, UpdateWrites DEF CancelUpdate, TransactionInv
  <2> QED
    BY <1>e, <1>1, <1>5, <2>1, <2>2 DEF CancelUpdate
<1>6. CASE CancelPreviousUpdate(w)
  <2> DEFINE p == PreviousOf(w)
  <2>1. pc[w] = "cancel_prev_update" /\ Update(w, "cancel_prev_update", p, "cancelled", "cancel_commit")
    BY <1>6 DEF CancelPreviousUpdate
  <2>2. p \in Convs /\ Committed(p) /\ cid[w] \in Convs
    BY <2>1, <1>h DEF LedgerInv, SafetyInv, TableInv, PreviousIsFound
  <2>3. /\ Writes(w) = {cid[w]} /\ Inserted(w) = {}
        /\ \A c \in Writes(w) : pending[w][c].status = "cancelled"
    BY <2>1, <1>i DEF HandlerInv, TransactionInv
  <2>4. PreviousOf(w)' = p
    BY <2>1, <2>2, UpdateWrites DEF PreviousOf
  <2> HIDE DEF p
  <2>5. /\ pc'[w] = "cancel_commit" /\ cid'[w] = cid[w]
        /\ Writes(w)' = {cid[w], p} /\ Inserted(w)' = {}
        /\ pending'[w][p].status = "cancelled"
        /\ \A e \in Convs \ {p} : pending'[w][e] = pending[w][e]
    BY <2>1, <2>2, <2>3, UpdateWrites
  <2>6. TransactionInv(w)'
    BY <2>2, <2>3, <2>4, <2>5 DEF TransactionInv
  <2> QED
    BY <1>e, <1>1, <2>1, <2>2, <2>6
<1>7. CASE ArchiveUpdate(w)
  <2>1. cid[w] \in Convs /\ Committed(cid[w]) /\ Writes(w) = {} /\ Inserted(w) = {}
    BY <1>7, <1>h, <1>i DEF ArchiveUpdate, Update, HandlerInv, WritePoints, Inserted, Writes
  <2>2. TransactionInv(w)'
    BY <1>7, <2>1, UpdateWrites DEF ArchiveUpdate, TransactionInv
  <2> QED
    BY <1>e, <1>1, <1>7, <2>1, <2>2 DEF ArchiveUpdate
<1>8. CASE UnarchiveUpdate(w)
  <2>1. cid[w] \in Convs /\ Committed(cid[w]) /\ Writes(w) = {} /\ Inserted(w) = {}
    BY <1>8, <1>h, <1>i DEF UnarchiveUpdate, Update, HandlerInv, WritePoints, Inserted, Writes
  <2>2. TransactionInv(w)'
    BY <1>8, <2>1, UpdateWrites DEF UnarchiveUpdate, TransactionInv
  <2> QED
    BY <1>e, <1>1, <1>8, <2>1, <2>2 DEF UnarchiveUpdate
<1> QED
  BY <1>e, <1>2, <1>3, <1>4, <1>5, <1>6, <1>7, <1>8 DEF LockStep

\* The data owner's conversation is written: it is the one row of its transaction.
LEMMA TransactionInsertOwner ==
  ASSUME LedgerInv, NEW w \in Workers, NEW d \in Convs, InsertOwnerConversation(w, d)
  PROVE  (\A v \in Workers : TransactionInv(v)') /\ UNCHANGED Ledger!vars
<1>1. /\ pc[w] = "insert" /\ d \notin used
      /\ pending' = [pending EXCEPT ![w][d] = NewRow("dataowner", cid[w])]
      /\ pc' = [pc EXCEPT ![w] = "seed"]
      /\ UNCHANGED <<conversations, cid, calls, granted, seeded>>
  BY DEF InsertOwnerConversation, InsertRow, Goto
<1>2. Writes(w) = {}
  BY <1>1 DEF LedgerInv, SafetyInv, HandlerInv, WritePoints, CommitPoints
<1>3. \A e \in Inserted(w)' : e = d
  BY <1>1, <1>2 DEF LedgerInv, SafetyInv, TableInv, TypeOK, Writes, Inserted, Committed
<1>4. /\ pc'[w] = "seed"
      /\ \A v \in Workers \ {w} :
            pc'[v] = pc[v] /\ cid'[v] = cid[v] /\ pending'[v] = pending[v]
  BY <1>1 DEF LedgerInv, SafetyInv, TableInv, TypeOK
<1>5. TransactionInv(w)'
  BY <1>3, <1>4 DEF TransactionInv
<1> QED
  BY <1>1, <1>4, <1>5, TransactionQuiet DEF Ledger!vars

\* The checkpoint is seeded: the ledger is told of the briefing of a conversation
\* that does not exist yet.
LEMMA LedgerSeed ==
  ASSUME LedgerInv, NEW w \in Workers, SeedCheckpoint(w)
  PROVE  (\A v \in Workers : TransactionInv(v)') /\ Ledger!Next
<1>1. /\ pc[w] = "seed" /\ pc'[w] = "complete" /\ \A v \in Workers \ {w} : pc'[v] = pc[v]
      /\ seeded' = seeded \cup Inserted(w)
      /\ UNCHANGED <<tableVars, cid, calls, used, granted>>
  BY DEF SeedCheckpoint, Goto, LedgerInv, SafetyInv, TableInv, TypeOK
<1>2. Inserted(w)' = Inserted(w) /\ TransactionInv(w) /\ HandlerInv(w)
  BY <1>1 DEF tableVars, Inserted, Committed, LedgerInv, SafetyInv
<1>3. TransactionInv(w)'
  BY <1>1, <1>2 DEF TransactionInv, tableVars
<1>4. PICK d \in Inserted(w) : Inserted(w) = {d}
  BY <1>1, <1>2 DEF HandlerInv, TransactionInv
<1>5. d \in Convs /\ ~Ledger!Exists(d)
  BY <1>4 DEF Inserted, Committed, Ledger!Exists
<1>6. Ledger!Brief(d)
  BY <1>1, <1>4, <1>5 DEF Ledger!Brief, tableVars
<1> QED
  BY <1>1, <1>3, <1>5, <1>6, TransactionQuiet DEF Ledger!Next, tableVars

\* A cancellation reads the previous conversation.
LEMMA TransactionReadsPrevious ==
  ASSUME LedgerInv, NEW w \in Workers, NEW to \in {"cancel_prev_update", "cancel_commit"},
         Advance(w, "cancel_prev", to)
  PROVE  (\A v \in Workers : TransactionInv(v)') /\ UNCHANGED Ledger!vars
<1>1. /\ pc[w] = "cancel_prev" /\ pc'[w] = to /\ \A v \in Workers \ {w} : pc'[v] = pc[v]
      /\ UNCHANGED <<tableVars, cid, calls, used, granted, seeded>>
  BY DEF Advance, Goto, LedgerInv, SafetyInv, TableInv, TypeOK
<1>2. Writes(w)' = Writes(w) /\ Inserted(w)' = Inserted(w) /\ TransactionInv(w)
  BY <1>1 DEF tableVars, Writes, Inserted, Committed, LedgerInv
<1>3. TransactionInv(w)'
  BY <1>1, <1>2 DEF TransactionInv, tableVars
<1> QED
  BY <1>1, <1>3, TransactionQuiet DEF tableVars, Ledger!vars

\* The insert of a requester's conversation opens it in the ledger.
LEMMA LedgerInsert ==
  ASSUME LedgerInv, NEW w \in Workers, NEW c \in Convs, InsertCommitted(c),
         UNCHANGED <<lock, pending, granted, seeded>>,
         \/ UNCHANGED <<pc, cid>>
         \/ pc[w] = "idle" /\ pc' = [pc EXCEPT ![w] = "turn"] /\ cid' = [cid EXCEPT ![w] = c]
  PROVE  (\A v \in Workers : TransactionInv(v)') /\ Ledger!Next
<1>1. /\ conversations' = [conversations EXCEPT ![c] = NewRow("recommendation", NoConv)]
      /\ ~Committed(c)
      /\ \A v \in Workers : pending[v][c] = NoRow
  BY DEF InsertCommitted, LedgerInv, SafetyInv, TableInv, RowsAreUsed
<1>2. \A e \in Convs : Committed(e) => Committed(e)' /\ conversations'[e] = conversations[e]
  BY <1>1 DEF LedgerInv, SafetyInv, TableInv, TypeOK, Committed
<1>3. \A e \in Convs : Committed(e)' => Committed(e) \/ e = c
  BY <1>1 DEF LedgerInv, SafetyInv, TableInv, TypeOK, Committed
<1>4. ASSUME NEW v \in Workers, pc'[v] = pc[v], cid'[v] = cid[v] PROVE TransactionInv(v)'
  BY <1>1, <1>2, <1>3, <1>4, OtherTransactions DEF LedgerInv, SafetyInv
<1>5. ASSUME pc[w] = "idle", pc' = [pc EXCEPT ![w] = "turn"] PROVE TransactionInv(w)'
  <2>1. pc'[w] = "turn"
    BY <1>5 DEF LedgerInv, SafetyInv, TableInv, TypeOK
  <2>2. Inserted(w)' = {}
    BY <1>5 DEF LedgerInv, SafetyInv, HandlerInv, WritePoints, CommitPoints, Writes, Inserted
  <2> QED
    BY <2>1, <2>2 DEF TransactionInv
<1>6. \A v \in Workers : TransactionInv(v)'
  BY <1>4, <1>5 DEF LedgerInv, SafetyInv, TableInv, TypeOK
<1>7. Ledger!OpenRequest(c)
  BY <1>1 DEF Ledger!OpenRequest, Ledger!Exists, Ledger!Open, NewRow, Committed
<1> QED
  BY <1>6, <1>7 DEF Ledger!Next

\* The end of a transaction leaves nothing to be said of it, and what is said of
\* the others as it was.
LEMMA TransactionEnd ==
  ASSUME LedgerInv, NEW w \in Workers, CommitWrites(w) \/ RollbackWrites(w),
         Finish(w) \/ (Goto(w, "turn") /\ UNCHANGED <<cid, calls>>)
  PROVE  \A v \in Workers : TransactionInv(v)'
<1>1. /\ ReleaseLocks(w) /\ ForgetWrites(w)
      /\ conversations' = [c \in Convs |-> Visible(w, c)] \/ UNCHANGED conversations
  BY DEF CommitWrites, RollbackWrites
<1>2. \A v \in Workers \ {w} : pc'[v] = pc[v] /\ cid'[v] = cid[v] /\ pending'[v] = pending[v]
  BY <1>1, SafetyEnd DEF LedgerInv
<1>3. pc'[w] \in {"idle", "turn"} /\ Inserted(w)' = {}
  BY <1>1, FinishTypes DEF LedgerInv, SafetyInv, TableInv, TypeOK, ForgetWrites, Inserted
<1>4. TransactionInv(w)'
  BY <1>3 DEF TransactionInv
<1>5. \A c \in Convs : Committed(c) =>
          /\ Committed(c)'
          /\ conversations'[c].type = conversations[c].type
          /\ conversations'[c].previous = conversations[c].previous
  BY <1>1, VisibleRow DEF LedgerInv, SafetyInv, Committed
<1>6. ASSUME NEW v \in Workers \ {w} PROVE TransactionInv(v)'
  <2>1. \A c \in Convs : Committed(c)' => Committed(c) \/ pending[v][c] = NoRow
    BY <1>1 DEF LedgerInv, SafetyInv, TableInv, WritesAreLocked, Committed, Visible
  <2> QED
    BY <1>2, <1>5, <2>1, OtherTransactions DEF LedgerInv, SafetyInv
<1> QED
  BY <1>4, <1>6

\* A row is another one with a new status if it is a write to it with that status.
LEMMA WrittenStatus ==
  ASSUME LedgerInv, NEW w \in Workers, NEW c \in Convs, Committed(c), pending[w][c] # NoRow,
         NEW status, pending[w][c].status = status
  PROVE  Visible(w, c) = Ledger!WithStatus(c, status)
  BY DEF LedgerInv, SafetyInv, TableInv, TypeOK, WritesKeepIdentity, Committed, Visible,
         Ledger!WithStatus, Row

\* A commit is one entry of the ledger: the hand-over, a decision, a cancellation
\* of one conversation or of two, an archiving or a reopening.
LEMMA LedgerCommit ==
  ASSUME LedgerInv, NEW w \in Workers, Commit(w)
  PROVE  (\A v \in Workers : TransactionInv(v)') /\ Ledger!Next
<1> DEFINE c == cid[w]
<1>1. /\ pc[w] \in CommitPoints
      /\ conversations' = [e \in Convs |-> Visible(w, e)]
      /\ UNCHANGED <<used, granted, seeded>>
      /\ CommitWrites(w)
      /\ Finish(w) \/ (Goto(w, "turn") /\ UNCHANGED <<cid, calls>>)
  BY DEF Commit, CommitWrites
<1>2. \A v \in Workers : TransactionInv(v)'
  BY <1>1, TransactionEnd
<1>3. /\ c \in Convs /\ Committed(c) /\ TransactionInv(w) /\ HandlerInv(w)
      /\ conversations \in [Convs -> Row \cup {NoRow}]
  BY <1>1 DEF CommitPoints, LedgerInv, SafetyInv, TableInv, HandlersHaveRows, TypeOK
<1>4. \A e \in Convs \ Writes(w) : Visible(w, e) = conversations[e]
  BY DEF Writes, Visible
<1>5. ASSUME NEW status, Writes(w) = {c}, pending[w][c].status = status
      PROVE  Ledger!SetStatus(c, status)
  <2>1. Visible(w, c) = Ledger!WithStatus(c, status)
    BY <1>3, <1>5, WrittenStatus DEF Writes
  <2>2. conversations' = [conversations EXCEPT ![c] = Ledger!WithStatus(c, status)]
    BY <1>1, <1>3, <1>4, <1>5, <2>1
  <2> QED
    BY <1>1, <1>3, <2>2 DEF Ledger!SetStatus, Ledger!Exists, Committed
<1>6. CASE pc[w] = "tool_commit" /\ Inserted(w) = {}
  <2>1. Writes(w) = {c} /\ c \in Writes(w)
    BY <1>3, <1>6 DEF TransactionInv
  <2>2. pending[w][c].status \in {"approved", "denied"}
    BY <1>3, <1>6, <2>1 DEF TransactionInv, HandlerInv
  <2>3. CASE pending[w][c].status = "approved"
    BY <1>2, <1>3, <1>5, <2>1, <2>3 DEF HandlerInv, Ledger!Approve, Ledger!Next
  <2>4. CASE pending[w][c].status = "denied"
    BY <1>2, <1>3, <1>5, <1>6, <2>1, <2>4
    DEF TransactionInv, Committed, Ledger!Exists, Ledger!Deny, Ledger!Next
  <2> QED
    BY <1>2, <2>2, <2>3, <2>4
<1>7. CASE pc[w] = "tool_commit" /\ Inserted(w) # {}
  <2>1. PICK d \in Inserted(w) : Inserted(w) = {d}
    BY <1>3, <1>7 DEF TransactionInv
  <2>2. /\ d \in Convs /\ ~Committed(d) /\ d # c /\ d \in seeded
        /\ Writes(w) = {c, d} /\ pending[w][c].status = "completed"
        /\ conversations[c].type = "recommendation"
    BY <1>3, <1>7, <2>1 DEF TransactionInv, HandlerInv, Inserted
  <2>3. Visible(w, c) = Ledger!WithStatus(c, "completed")
    BY <1>3, <2>2, WrittenStatus DEF Writes
  <2>4. Visible(w, d) = Ledger!Open("dataowner", c)
    <3>1. /\ pending[w][d] \in Row
          /\ pending[w][d].type = "dataowner"
          /\ pending[w][d].status = "active"
          /\ pending[w][d].previous = c
          /\ Visible(w, d) = pending[w][d]
      BY <1>3, <2>1 DEF HandlerInv, Inserted, Visible, LedgerInv, SafetyInv, TableInv, TypeOK
    <3> QED
      BY <3>1 DEF Row, Ledger!Open
  <2>5. conversations' = [conversations EXCEPT ![c] = Ledger!WithStatus(c, "completed"),
                                               ![d] = Ledger!Open("dataowner", c)]
    BY <1>1, <1>3, <1>4, <2>2, <2>3, <2>4
  <2>6. Ledger!HandOver(c, d)
    BY <1>1, <1>3, <2>2, <2>5 DEF Ledger!HandOver, Ledger!Exists, Committed
  <2> QED
    BY <1>2, <1>3, <2>2, <2>6 DEF Ledger!Next
<1>8. CASE pc[w] = "cancel_commit" /\ Writes(w) = {c}
  BY <1>2, <1>3, <1>5, <1>8 DEF TransactionInv, Ledger!Cancel, Ledger!Next
<1>9. CASE pc[w] = "cancel_commit" /\ Writes(w) # {c}
  <2> DEFINE p == PreviousOf(w)
  <2>1. /\ Writes(w) = {c, p} /\ Inserted(w) = {}
        /\ \A e \in Writes(w) : pending[w][e].status = "cancelled"
    BY <1>3, <1>9 DEF TransactionInv, HandlerInv
  <2>2. p \in Convs /\ Committed(p) /\ pending[w][p] # NoRow /\ pending[w][c] # NoRow
    BY <2>1 DEF Writes, Inserted
  <2>3. Visible(w, c) = Ledger!WithStatus(c, "cancelled") /\ Visible(w, p) = Ledger!WithStatus(p, "cancelled")
    BY <1>3, <2>1, <2>2, WrittenStatus
  <2>4. conversations' = [conversations EXCEPT ![p] = Ledger!WithStatus(p, "cancelled"),
                                               ![c] = Ledger!WithStatus(c, "cancelled")]
    BY <1>1, <1>3, <1>4, <2>1, <2>2, <2>3
  <2>5. Ledger!CancelBoth(p, c)
    BY <1>1, <1>3, <2>2, <2>4 DEF Ledger!CancelBoth, Ledger!Exists, Committed, PreviousOf
  <2> QED
    BY <1>2, <1>3, <2>2, <2>5 DEF Ledger!Next
<1>10. CASE pc[w] = "archive_commit"
  BY <1>2, <1>3, <1>5, <1>10 DEF TransactionInv, Ledger!Archive, Ledger!Next
<1>11. CASE pc[w] = "unarchive_commit"
  BY <1>2, <1>3, <1>5, <1>11 DEF TransactionInv, Ledger!Reopen, Ledger!Next
<1> QED
  BY <1>1, <1>6, <1>7, <1>8, <1>9, <1>10, <1>11 DEF CommitPoints

\* Every step of the handlers keeps LedgerInv and is a step of the ledger, or none.
LEMMA LedgerNext == LedgerInv /\ [Next]_vars => LedgerInv' /\ [Ledger!Next]_(Ledger!vars)
<1> SUFFICES ASSUME LedgerInv, [Next]_vars
             PROVE  (\A v \in Workers : TransactionInv(v)') /\ [Ledger!Next]_(Ledger!vars)
  BY SafetyNext DEF LedgerInv
<1>h. \A w \in Workers : /\ HandlerInv(w)
                         /\ pc[w] # "idle" => cid[w] \in Convs /\ Committed(cid[w])
  BY DEF LedgerInv, SafetyInv, TableInv, HandlersHaveRows
<1> USE DEF Points, CommitPoints, LockPoints
<1>m. ASSUME NEW w \in Workers, NEW point \in Points \ WritePoints,
             pc[w] \notin WritePoints, UNCHANGED <<tableVars, cid>>, Goto(w, point),
             point = "deny" => conversations[cid[w]].type = "dataowner"
      PROVE  \A v \in Workers : TransactionInv(v)'
  BY <1>m, TransactionMove DEF Goto
<1>1. ASSUME NEW w \in Workers, NEW c \in Convs, Create(w, c) \/ SlackNewThread(w, c)
      PROVE  (\A v \in Workers : TransactionInv(v)') /\ Ledger!Next
  BY <1>1, LedgerInsert DEF Create, SlackNewThread, StartTurn, Goto
<1>2. ASSUME NEW w \in Workers, NEW c \in Convs,
             \/ BeginTurn(w, c) \/ CancelConv(w, c) \/ ArchiveConv(w, c) \/ UnarchiveConv(w, c)
      PROVE  (\A v \in Workers : TransactionInv(v)') /\ UNCHANGED Ledger!vars
  <2>1. PICK point \in {"turn", "cancel", "archive", "unarchive"} :
            /\ pc[w] = "idle" /\ Goto(w, point) /\ cid' = [cid EXCEPT ![w] = c]
            /\ UNCHANGED <<tableVars, granted, seeded>>
    BY <1>2 DEF BeginTurn, StartTurn, CancelConv, ArchiveConv, UnarchiveConv, StartRoute
  <2>2. point \in Points \ WritePoints /\ point # "deny" /\ pc[w] \notin WritePoints
    BY <2>1 DEF WritePoints
  <2>3. \A v \in Workers \ {w} : cid'[v] = cid[v]
    BY <2>1 DEF LedgerInv, SafetyInv, TableInv, TypeOK
  <2> QED
    BY <2>1, <2>2, <2>3, TransactionMove DEF Goto, tableVars, Ledger!vars
<1>3. ASSUME NEW w \in Workers, FreeStep(w)
      PROVE  (\A v \in Workers : TransactionInv(v)') /\ [Ledger!Next]_(Ledger!vars)
  <2>1. CASE EndTurn(w)
    <3>1. \A v \in Workers \ {w} : cid'[v] = cid[v]
      BY <2>1 DEF EndTurn, Finish, LedgerInv, SafetyInv, TableInv, TypeOK
    <3> QED
      BY <2>1, <3>1, TransactionMove DEF EndTurn, Finish, Goto, WritePoints, tableVars, Ledger!vars
  <2>2. CASE RequestAccess(w) \/ RequestAccessMisses(w) \/ ApproveRoles(w) \/ DenyAccess(w)
    <3>1. UNCHANGED Ledger!vars
      BY <2>2 DEF RequestAccess, RequestAccessMisses, ApproveRoles, DenyAccess, CallTool,
                  tableVars, Ledger!vars
    <3> QED
      BY <2>2, <3>1, <1>m DEF RequestAccess, RequestAccessMisses, ApproveRoles, DenyAccess, CallTool,
                         WritePoints
  <2>3. CASE RulesApprove(w) \/ RulesDeny(w) \/ OpenTicket(w)
    BY <2>3, <1>m DEF RulesApprove, RulesDeny, OpenTicket, Advance, WritePoints, tableVars, Ledger!vars
  <2>4. CASE Provision(w) \/ ProvisionFails(w)
    <3>1. /\ pc[w] = "provision" /\ UNCHANGED <<tableVars, cid, calls, used, seeded>>
          /\ granted' = granted \/ granted' = granted \cup {cid[w]}
          /\ Goto(w, "approve") \/ Goto(w, "turn")
      BY <2>4 DEF Provision, ProvisionFails
    <3>2. \A v \in Workers : TransactionInv(v)'
      BY <3>1, <1>m DEF WritePoints
    <3>3. CASE granted' = granted
      BY <3>1, <3>2, <3>3 DEF tableVars, Ledger!vars
    <3>4. CASE granted' = granted \cup {cid[w]}
      <4>1. cid[w] \in Convs /\ Ledger!Provision(cid[w])
        BY <3>1, <3>4, <1>h DEF tableVars, Committed, Ledger!Provision, Ledger!Exists
      <4> QED
        BY <3>2, <4>1 DEF Ledger!Next
    <3> QED
      BY <3>1, <3>3, <3>4
  <2>5. CASE ToolFails(w)
    <3>1. UNCHANGED Ledger!vars
      BY <2>5 DEF ToolFails, RollbackWrites, Ledger!vars
    <3> QED
      BY <2>5, <3>1, TransactionEnd DEF ToolFails
  <2>6. CASE \E d \in Convs : InsertOwnerConversation(w, d)
    BY <2>6, TransactionInsertOwner
  <2>7. CASE InsertFails(w)
    <3>1. UNCHANGED Ledger!vars
      BY <2>7 DEF InsertFails, Abort, RollbackWrites, Ledger!vars
    <3> QED
      BY <2>7, <3>1, TransactionEnd DEF InsertFails, Abort
  <2>8. CASE SeedCheckpoint(w)
    BY <2>8, LedgerSeed
  <2>9. CASE CancelReadsActivePrevious(w) \/ CancelLeavesPrevious(w)
    BY <2>9, TransactionReadsPrevious DEF CancelReadsActivePrevious, CancelLeavesPrevious
  <2>10. CASE Commit(w)
    BY <2>10, LedgerCommit
  <2> QED
    BY <1>3, <2>1, <2>2, <2>3, <2>4, <2>5, <2>6, <2>7, <2>8, <2>9, <2>10 DEF FreeStep
<1>4. ASSUME NEW w \in Workers, Abort(w)
      PROVE  (\A v \in Workers : TransactionInv(v)') /\ UNCHANGED Ledger!vars
  <2>1. UNCHANGED Ledger!vars
    BY <1>4 DEF Abort, RollbackWrites, Ledger!vars
  <2> QED
    BY <1>4, <2>1, TransactionEnd DEF Abort
<1>5. CASE UNCHANGED vars
  <2>1. \A v \in Workers : TransactionInv(v)'
    BY <1>5, OtherTransactions DEF vars, LedgerInv, SafetyInv, Committed
  <2> QED
    BY <1>5, <2>1 DEF vars, Ledger!vars
<1> QED
  BY <1>1, <1>2, <1>3, <1>4, <1>5, TransactionUpdate DEF Next, Start, Quiet

\* The empty table satisfies LedgerInv.
LEMMA LedgerInit == Init => LedgerInv
<1>1. Init => \A w \in Workers : TransactionInv(w)
  BY DEF Init, TransactionInv, Inserted
<1> QED
  BY <1>1, SafetyInit DEF LedgerInv

\* The handlers with their transactions, locks, failures and crashes implement the
\* ledger in which every entry is atomic.
THEOREM HandlersKeepTheLedger == Spec => ImplementsLedger
<1>1. Init => LedgerInv /\ Ledger!Init
  BY LedgerInit DEF Init, Ledger!Init
<1> QED
  BY <1>1, LedgerNext, PTL DEF Spec, ImplementsLedger, Ledger!Spec

-----------------------------------------------------------------------------
(***************************************************************************)
(* What the routes promise of handlers that come one after the other.      *)
(***************************************************************************)

OneIsBusy == \A v, w \in Workers : pc[v] # "idle" /\ pc[w] # "idle" => v = w

\* What a route has read of a row is still so when it writes the row.
RouteInv(w) ==
    /\ pc[w] \in {"cancel", "archive"} => IsActive(cid[w])
    /\ pc[w] = "unarchive" => IsArchived(cid[w])
    /\ pc[w] = "cancel_prev_update" => IsActive(PreviousOf(w))
    /\ pc[w] \in {"cancel_prev", "cancel_prev_update", "cancel_commit", "archive_commit"} =>
        \A c \in Writes(w) : IsActive(c)
    /\ pc[w] = "unarchive_commit" => IsArchived(cid[w])

\* A request that was handed over never becomes active again: it stays completed,
\* or the rest of the turn that handed it over has it approved.
HandedOverIsClosed ==
    \A d \in Convs : Committed(d) /\ conversations[d].type = "dataowner" =>
        conversations[conversations[d].previous].status \in {"completed", "approved"}

AloneInv == ~overlapped => OneIsBusy /\ HandedOverIsClosed /\ \A w \in Workers : RouteInv(w)


\* The points at which something is said of a route.
RoutePoints == {"cancel", "cancel_prev", "cancel_prev_update", "cancel_commit",
                "archive", "archive_commit", "unarchive", "unarchive_commit"}

\* A step that publishes no row, while every other handler is idle.
LEMMA AloneQuiet ==
  ASSUME OneIsBusy, OneIsBusy', HandedOverIsClosed, NEW w \in Workers, UNCHANGED conversations,
         pc[w] # "idle" \/ pc'[w] # "idle", \A v \in Workers \ {w} : pc'[v] = pc[v],
         pc'[w] \notin RoutePoints \/ RouteInv(w)'
  PROVE  HandedOverIsClosed' /\ \A v \in Workers : RouteInv(v)'
<1>1. HandedOverIsClosed'
  BY DEF HandedOverIsClosed, Committed
<1>2. \A v \in Workers \ {w} : pc'[v] = "idle"
  BY DEF OneIsBusy
<1>3. \A v \in Workers : pc'[v] \notin RoutePoints => RouteInv(v)'
  BY DEF RouteInv, RoutePoints
<1> QED
  BY <1>1, <1>2, <1>3 DEF RoutePoints

\* A new conversation of a requester changes nothing of the rows there are.
LEMMA AloneInsert ==
  ASSUME LedgerInv, OneIsBusy, OneIsBusy', HandedOverIsClosed, \A v \in Workers : RouteInv(v),
         NEW w \in Workers, NEW c \in Convs, Create(w, c) \/ SlackNewThread(w, c)
  PROVE  HandedOverIsClosed' /\ \A v \in Workers : RouteInv(v)'
<1> DEFINE row == NewRow("recommendation", NoConv)
<1>1. conversations' = [conversations EXCEPT ![c] = row] /\ ~Committed(c) /\ UNCHANGED pending
  BY DEF Create, SlackNewThread, InsertCommitted, LedgerInv, SafetyInv, TableInv, RowsAreUsed
<1>2. row.type = "recommendation"
  BY DEF NewRow
<1> HIDE DEF row
<1>3. \A e \in Convs : Committed(e) => Committed(e)' /\ conversations'[e] = conversations[e]
  BY <1>1 DEF LedgerInv, SafetyInv, TableInv, TypeOK, Committed
<1>4. \A e \in Convs : Committed(e)' => Committed(e) \/ conversations'[e].type = "recommendation"
  BY <1>1, <1>2 DEF LedgerInv, SafetyInv, TableInv, TypeOK, Committed
<1>5. HandedOverIsClosed'
  BY <1>3, <1>4 DEF HandedOverIsClosed, LedgerInv, SafetyInv, RowsInv, OwnerConversationIsBriefed,
                    Committed
<1>6. ASSUME NEW v \in Workers, pc'[v] = pc[v], cid'[v] = cid[v] PROVE RouteInv(v)'
  <2>1. CASE pc[v] = "idle"
    BY <1>6, <2>1 DEF RouteInv
  <2>2. CASE pc[v] # "idle"
    <3>1. cid[v] \in Convs /\ Committed(cid[v]) /\ conversations'[cid[v]] = conversations[cid[v]]
      BY <1>3, <2>2 DEF LedgerInv, SafetyInv, TableInv, HandlersHaveRows
    <3>2. \A e \in Convs : /\ IsActive(e) => IsActive(e)'
                           /\ IsArchived(e) => IsArchived(e)'
      BY <1>3 DEF IsActive, IsArchived, Committed
    <3>3. Writes(v)' = Writes(v) /\ PreviousOf(v)' = PreviousOf(v)
      BY <1>1, <1>6, <3>1 DEF Writes, PreviousOf
    <3>4. pc[v] = "cancel_prev_update" => PreviousOf(v) \in Convs
      BY DEF LedgerInv, SafetyInv, TableInv, PreviousIsFound
    <3>5. Writes(v) \subseteq Convs /\ RouteInv(v)
      BY DEF Writes
    <3> QED
      BY <1>6, <3>1, <3>2, <3>3, <3>4, <3>5 DEF RouteInv
  <2> QED
    BY <2>1, <2>2
<1>7. CASE Create(w, c)
  BY <1>5, <1>6, <1>7 DEF Create
<1>8. CASE SlackNewThread(w, c)
  <2>1. /\ pc'[w] = "turn"
        /\ \A v \in Workers \ {w} : pc'[v] = pc[v] /\ cid'[v] = cid[v]
    BY <1>8 DEF SlackNewThread, StartTurn, Goto, LedgerInv, SafetyInv, TableInv, TypeOK
  <2>2. RouteInv(w)'
    BY <2>1 DEF RouteInv
  <2> QED
    BY <1>5, <1>6, <2>1, <2>2
<1> QED
  BY <1>7, <1>8

\* An update leaves its row to the commit; a route has tested the row it writes.
LEMMA AloneUpdate ==
  ASSUME LedgerInv, OneIsBusy, OneIsBusy', HandedOverIsClosed, NEW w \in Workers, RouteInv(w),
         LockStep(w)
  PROVE  HandedOverIsClosed' /\ \A v \in Workers : RouteInv(v)'
<1> USE DEF Points, CommitPoints, LockPoints, Statuses
<1>h. pc[w] # "idle" => cid[w] \in Convs /\ Committed(cid[w])
  BY DEF LedgerInv, SafetyInv, TableInv, HandlersHaveRows
<1>1. ASSUME NEW from \in LockPoints, NEW c \in Convs, Committed(c), NEW status \in Statuses,
             NEW to \in Points, Update(w, from, c, status, to), to \notin RoutePoints \/ RouteInv(w)'
      PROVE  HandedOverIsClosed' /\ \A v \in Workers : RouteInv(v)'
  <2>1. /\ pc[w] # "idle" /\ UNCHANGED conversations /\ pc'[w] = to
        /\ \A v \in Workers \ {w} : pc'[v] = pc[v]
    BY <1>1, UpdateWrites
  <2> QED
    BY <1>1, <2>1, AloneQuiet
<1>2. CASE ApproveUpdate(w) \/ DenyUpdate(w) \/ CompleteUpdate(w)
  BY <1>1, <1>2, <1>h DEF ApproveUpdate, DenyUpdate, CompleteUpdate, RoutePoints, Update
<1>3. CASE CancelUpdate(w) \/ ArchiveUpdate(w)
  <2>1. PICK from \in {"cancel", "archive"}, status \in {"cancelled", "archived"},
             to \in {"cancel_prev", "archive_commit"} : Update(w, from, cid[w], status, to)
    BY <1>3 DEF CancelUpdate, ArchiveUpdate
  <2>2. /\ cid[w] \in Convs /\ Committed(cid[w]) /\ IsActive(cid[w]) /\ Writes(w) = {}
    BY <2>1, <1>h DEF Update, RouteInv, LedgerInv, SafetyInv, HandlerInv, WritePoints
  <2>3. pc'[w] = to /\ Writes(w)' = {cid[w]} /\ UNCHANGED <<conversations, cid>>
    BY <2>1, <2>2, UpdateWrites
  <2>4. RouteInv(w)'
    BY <2>2, <2>3 DEF RouteInv, IsActive, Committed
  <2> QED
    BY <1>1, <2>1, <2>2, <2>4
<1>4. CASE UnarchiveUpdate(w)
  <2>1. Update(w, "unarchive", cid[w], "active", "unarchive_commit")
    BY <1>4 DEF UnarchiveUpdate
  <2>2. /\ cid[w] \in Convs /\ Committed(cid[w]) /\ IsArchived(cid[w])
    BY <2>1, <1>h DEF Update, RouteInv
  <2>3. pc'[w] = "unarchive_commit" /\ UNCHANGED <<conversations, cid>>
    BY <2>1, <2>2, UpdateWrites
  <2>4. RouteInv(w)'
    BY <2>2, <2>3 DEF RouteInv, IsArchived, Committed
  <2> QED
    BY <1>1, <2>1, <2>2, <2>4
<1>5. CASE CancelPreviousUpdate(w)
  <2> DEFINE p == PreviousOf(w)
  <2>1. Update(w, "cancel_prev_update", p, "cancelled", "cancel_commit")
    BY <1>5 DEF CancelPreviousUpdate
  <2>2. /\ p \in Convs /\ Committed(p) /\ IsActive(p)
        /\ \A c \in Writes(w) : IsActive(c)
    BY <2>1 DEF Update, RouteInv, LedgerInv, SafetyInv, TableInv, PreviousIsFound
  <2> HIDE DEF p
  <2>3. pc'[w] = "cancel_commit" /\ Writes(w)' = Writes(w) \cup {p} /\ UNCHANGED <<conversations, cid>>
    BY <2>1, <2>2, UpdateWrites
  <2>4. RouteInv(w)'
    BY <2>2, <2>3 DEF RouteInv, IsActive, Committed
  <2> QED
    BY <1>1, <2>1, <2>2, <2>4
<1> QED
  BY <1>2, <1>3, <1>4, <1>5 DEF LockStep

\* A commit closes the request it hands over, and a route publishes nothing over
\* a request that is closed.
LEMMA AloneCommit ==
  ASSUME LedgerInv, OneIsBusy, OneIsBusy', HandedOverIsClosed, NEW w \in Workers, RouteInv(w),
         Commit(w)
  PROVE  HandedOverIsClosed' /\ \A v \in Workers : RouteInv(v)'
<1>1. /\ pc[w] \in CommitPoints /\ pc[w] # "idle"
      /\ conversations' = [e \in Convs |-> Visible(w, e)]
      /\ Finish(w) \/ (Goto(w, "turn") /\ UNCHANGED <<cid, calls>>)
  BY DEF Commit, CommitWrites, CommitPoints
<1>2. pc'[w] \in {"idle", "turn"} /\ \A v \in Workers \ {w} : pc'[v] = pc[v]
  BY <1>1, FinishTypes DEF LedgerInv, SafetyInv, TableInv
<1>3. \A v \in Workers : RouteInv(v)'
  BY <1>1, <1>2 DEF RouteInv, OneIsBusy
<1>4. \A e \in Convs : Committed(e) =>
          /\ conversations'[e].type = conversations[e].type
          /\ conversations'[e].previous = conversations[e].previous
  BY <1>1, VisibleRow DEF LedgerInv, SafetyInv
<1>5. cid[w] \in Convs /\ Committed(cid[w]) /\ HandlerInv(w) /\ TransactionInv(w)
  BY <1>1 DEF LedgerInv, SafetyInv, TableInv, HandlersHaveRows
<1>6. ASSUME NEW d \in Convs, Committed(d)', conversations'[d].type = "dataowner", Committed(d)
      PROVE  conversations'[conversations'[d].previous].status \in {"completed", "approved"}
  <2> DEFINE p == conversations[d].previous
  <2>1. /\ conversations'[d].previous = p /\ p \in Convs /\ Committed(p)
        /\ conversations[p].type = "recommendation"
        /\ conversations[p].status \in {"completed", "approved"}
    BY <1>4, <1>6 DEF HandedOverIsClosed, LedgerInv, SafetyInv, RowsInv, OwnerConversationIsBriefed
  <2> HIDE DEF p
  <2>2. CASE p \notin Writes(w)
    BY <1>1, <2>1, <2>2 DEF Writes, Visible
  <2>3. CASE p \in Writes(w) /\ pc[w] = "tool_commit"
    <3>1. p = cid[w]
      BY <1>5, <2>1, <2>3 DEF TransactionInv, Inserted
    <3>2. conversations'[p] = pending[w][p]
      BY <1>1, <2>1, <2>3 DEF Writes, Visible
    <3>3. pending[w][p].status \in {"completed", "approved"}
      BY <1>5, <2>1, <2>3, <3>1 DEF TransactionInv
    <3> QED
      BY <2>1, <3>2, <3>3
  <2>4. ~(p \in Writes(w) /\ pc[w] # "tool_commit")
    BY <1>1, <1>5, <2>1 DEF RouteInv, TransactionInv, IsActive, IsArchived, CommitPoints
  <2> QED
    BY <2>1, <2>2, <2>3, <2>4
<1>7. ASSUME NEW d \in Convs, Committed(d)', conversations'[d].type = "dataowner", ~Committed(d)
      PROVE  conversations'[conversations'[d].previous].status \in {"completed", "approved"}
  <2>1. d \in Inserted(w)
    BY <1>1, <1>7 DEF Inserted, Committed, Visible
  <2>2. /\ pc[w] = "tool_commit" /\ conversations'[d].previous = cid[w]
    BY <1>1, <1>5, <2>1 DEF HandlerInv, Inserted, Visible, CommitPoints
  <2>3. pending[w][cid[w]].status = "completed" /\ cid[w] \in Writes(w)
    BY <1>5, <2>1, <2>2 DEF TransactionInv
  <2>4. conversations'[cid[w]] = pending[w][cid[w]]
    BY <1>1, <1>5, <2>3 DEF Writes, Visible
  <2> QED
    BY <2>2, <2>3, <2>4
<1>8. HandedOverIsClosed'
  BY <1>6, <1>7 DEF HandedOverIsClosed, Committed
<1> QED
  BY <1>3, <1>8

\* Every step that leaves at most one handler at work keeps what is said of one.
LEMMA AloneNext ==
  ASSUME LedgerInv, OneIsBusy, OneIsBusy', HandedOverIsClosed, \A v \in Workers : RouteInv(v),
         [Next]_vars
  PROVE  HandedOverIsClosed' /\ \A v \in Workers : RouteInv(v)'
<1> USE DEF Points, CommitPoints, LockPoints
<1>t. pc \in [Workers -> Points] /\ cid \in [Workers -> Convs \cup {NoConv}]
  BY DEF LedgerInv, SafetyInv, TableInv, TypeOK
<1>q. ASSUME NEW w \in Workers, NEW point \in Points, UNCHANGED conversations, Goto(w, point),
             pc[w] # "idle" \/ point # "idle", point \notin RoutePoints \/ RouteInv(w)'
      PROVE  HandedOverIsClosed' /\ \A v \in Workers : RouteInv(v)'
  BY <1>q, <1>t, AloneQuiet DEF Goto
<1>1. ASSUME NEW w \in Workers, NEW c \in Convs, Create(w, c) \/ SlackNewThread(w, c)
      PROVE  HandedOverIsClosed' /\ \A v \in Workers : RouteInv(v)'
  BY <1>1, AloneInsert
<1>2. ASSUME NEW w \in Workers, NEW c \in Convs, BeginTurn(w, c)
      PROVE  HandedOverIsClosed' /\ \A v \in Workers : RouteInv(v)'
  BY <1>2, <1>q DEF BeginTurn, StartTurn, tableVars, RoutePoints
<1>3. ASSUME NEW w \in Workers, NEW c \in Convs,
             CancelConv(w, c) \/ ArchiveConv(w, c) \/ UnarchiveConv(w, c)
      PROVE  HandedOverIsClosed' /\ \A v \in Workers : RouteInv(v)'
  <2>1. PICK point \in {"cancel", "archive", "unarchive"} :
            /\ StartRoute(w, c, point)
            /\ IF point = "unarchive" THEN IsArchived(c) ELSE IsActive(c)
    BY <1>3 DEF CancelConv, ArchiveConv, UnarchiveConv
  <2>2. pc'[w] = point /\ cid'[w] = c /\ UNCHANGED conversations
    BY <2>1, <1>t DEF StartRoute, Goto, tableVars
  <2>3. RouteInv(w)'
    BY <2>1, <2>2 DEF RouteInv, IsActive, IsArchived, Committed
  <2> QED
    BY <2>1, <2>2, <2>3, <1>q DEF StartRoute
<1>4. ASSUME NEW w \in Workers, LockStep(w)
      PROVE  HandedOverIsClosed' /\ \A v \in Workers : RouteInv(v)'
  BY <1>4, AloneUpdate
<1>5. ASSUME NEW w \in Workers, FreeStep(w)
      PROVE  HandedOverIsClosed' /\ \A v \in Workers : RouteInv(v)'
  <2>1. CASE Commit(w)
    BY <2>1, AloneCommit
  <2>2. CASE CancelReadsActivePrevious(w) \/ CancelLeavesPrevious(w)
    <3>1. PICK to \in {"cancel_prev_update", "cancel_commit"} :
              /\ Advance(w, "cancel_prev", to)
              /\ to = "cancel_prev_update" => PreviousIsActive(w)
      BY <2>2 DEF CancelReadsActivePrevious, CancelLeavesPrevious
    <3>2. /\ pc[w] = "cancel_prev" /\ pc'[w] = to
          /\ UNCHANGED <<conversations, pending, cid>>
      BY <3>1, <1>t DEF Advance, Goto, tableVars
    <3>3. RouteInv(w)'
      BY <3>1, <3>2 DEF RouteInv, PreviousIsActive, PreviousOf, IsActive, Committed, Writes
    <3> QED
      BY <3>1, <3>2, <3>3, <1>q DEF Advance
  <2>3. ASSUME ~Commit(w), ~CancelReadsActivePrevious(w), ~CancelLeavesPrevious(w)
        PROVE  /\ UNCHANGED conversations /\ pc[w] # "idle"
               /\ \E point \in Points \ RoutePoints : Goto(w, point)
    <3>1. CASE EndTurn(w)
      BY <3>1 DEF EndTurn, Finish, tableVars, RoutePoints
    <3>2. CASE RequestAccess(w) \/ RequestAccessMisses(w) \/ ApproveRoles(w) \/ DenyAccess(w)
      BY <3>2 DEF RequestAccess, RequestAccessMisses, ApproveRoles, DenyAccess, CallTool,
                  tableVars, RoutePoints
    <3>3. CASE RulesApprove(w) \/ RulesDeny(w) \/ OpenTicket(w)
      BY <3>3 DEF RulesApprove, RulesDeny, OpenTicket, Advance, tableVars, RoutePoints
    <3>4. CASE Provision(w) \/ ProvisionFails(w)
      BY <3>4 DEF Provision, ProvisionFails, tableVars, RoutePoints
    <3>5. CASE ToolFails(w)
      BY <3>5 DEF ToolFails, RollbackWrites, RoutePoints
    <3>6. CASE \E d \in Convs : InsertOwnerConversation(w, d)
      BY <3>6 DEF InsertOwnerConversation, InsertRow, RoutePoints
    <3>7. CASE InsertFails(w)
      BY <3>7 DEF InsertFails, Abort, RollbackWrites, Finish, RoutePoints
    <3>8. CASE SeedCheckpoint(w)
      BY <3>8 DEF SeedCheckpoint, tableVars, RoutePoints
    <3> QED
      BY <1>5, <2>3, <3>1, <3>2, <3>3, <3>4, <3>5, <3>6, <3>7, <3>8 DEF FreeStep
  <2> QED
    BY <2>1, <2>2, <2>3, <1>q
<1>6. ASSUME NEW w \in Workers, Abort(w)
      PROVE  HandedOverIsClosed' /\ \A v \in Workers : RouteInv(v)'
  BY <1>6, <1>q DEF Abort, RollbackWrites, Finish, RoutePoints
<1>7. CASE UNCHANGED vars
  BY <1>7 DEF vars, HandedOverIsClosed, RouteInv, IsActive, IsArchived, Committed, Writes, PreviousOf
<1> QED
  BY <1>1, <1>2, <1>3, <1>4, <1>5, <1>6, <1>7 DEF Next, Start, Quiet

\* The points of a turn, in a tool or not.
TurnPoints == {"turn"} \cup InTool

\* No turn is at work on a request that another one has handed over.
TurnInv == \A w \in Workers : pc[w] \in TurnPoints /\ HandedOver(cid[w]) => handed[w]

\* While a turn goes on, its conversation stays the same, and nobody but the turn
\* itself commits a data owner's conversation.
LEMMA TurnGoesOn ==
  ASSUME LedgerInv, OneIsBusy, OneIsBusy', [Next]_vars,
         NEW w \in Workers, pc[w] \in TurnPoints, pc'[w] \in TurnPoints
  PROVE  /\ cid'[w] = cid[w]
         /\ \A d \in Convs : Committed(d)' /\ conversations'[d].type = "dataowner" =>
                \/ d \in Inserted(w)
                \/ Committed(d) /\ conversations[d].type = "dataowner"
                                /\ conversations[d].previous = conversations'[d].previous
<1> USE DEF Points, CommitPoints, LockPoints, TurnPoints, InTool
<1> DEFINE Goal == /\ cid'[w] = cid[w]
                   /\ \A d \in Convs : Committed(d)' /\ conversations'[d].type = "dataowner" =>
                          \/ d \in Inserted(w)
                          \/ Committed(d) /\ conversations[d].type = "dataowner"
                                          /\ conversations[d].previous = conversations'[d].previous
<1>t. pc \in [Workers -> Points] /\ cid \in [Workers -> Convs \cup {NoConv}]
      /\ conversations \in [Convs -> Row \cup {NoRow}]
  BY DEF LedgerInv, SafetyInv, TableInv, TypeOK
<1>o. ASSUME NEW v \in Workers, pc[v] # "idle" \/ pc'[v] # "idle" PROVE v = w
  BY <1>o DEF OneIsBusy
<1>u. ASSUME UNCHANGED <<conversations, cid>> PROVE Goal
  BY <1>u DEF Committed
<1>1. ASSUME NEW v \in Workers, Start(v) PROVE Goal
  <2>1. ASSUME NEW c \in Convs, SlackNewThread(v, c) PROVE FALSE
    <3>1. pc[v] = "idle" /\ pc' = [pc EXCEPT ![v] = "turn"]
      BY <2>1 DEF SlackNewThread, StartTurn, Goto
    <3> QED
      BY <3>1, <1>o, <1>t
  <2>2. ASSUME NEW c \in Convs, BeginTurn(v, c) PROVE FALSE
    <3>1. pc[v] = "idle" /\ pc' = [pc EXCEPT ![v] = "turn"]
      BY <2>2 DEF BeginTurn, StartTurn, Goto
    <3> QED
      BY <3>1, <1>o, <1>t
  <2>3. ASSUME NEW c \in Convs, CancelConv(v, c) \/ ArchiveConv(v, c) \/ UnarchiveConv(v, c)
        PROVE FALSE
    <3>1. PICK point \in {"cancel", "archive", "unarchive"} :
              pc[v] = "idle" /\ pc' = [pc EXCEPT ![v] = point]
      BY <2>3 DEF CancelConv, ArchiveConv, UnarchiveConv, StartRoute, Goto
    <3> QED
      BY <3>1, <1>o, <1>t
  <2>4. ASSUME NEW c \in Convs, Create(v, c) PROVE Goal
    <3>1. UNCHANGED cid /\ conversations' = [conversations EXCEPT ![c] = NewRow("recommendation", NoConv)]
      BY <2>4 DEF Create, InsertCommitted
    <3>2. conversations'[c].type = "recommendation"
      BY <3>1, <1>t DEF NewRow
    <3> QED
      BY <3>1, <3>2, <1>t DEF Committed
  <2> QED
    BY <1>1, <2>1, <2>2, <2>3, <2>4 DEF Start
<1>2. ASSUME NEW v \in Workers, LockStep(v) PROVE Goal
  BY <1>2, <1>u DEF LockStep, ApproveUpdate, DenyUpdate, CompleteUpdate, CancelUpdate,
         CancelPreviousUpdate, ArchiveUpdate, UnarchiveUpdate, Update, UpdateStatus
<1>3. ASSUME NEW v \in Workers, FreeStep(v) PROVE Goal
  <2>1. v = w
    <3>1. pc[v] # "idle"
      BY <1>3 DEF FreeStep, EndTurn, RequestAccess, RequestAccessMisses, ApproveRoles, DenyAccess,
             CallTool, RulesApprove, RulesDeny, OpenTicket, Advance, Provision, ProvisionFails,
             ToolFails, InsertOwnerConversation, InsertFails, SeedCheckpoint,
             CancelReadsActivePrevious, CancelLeavesPrevious, Commit
    <3> QED
      BY <3>1, <1>o
  <2>2. ~EndTurn(w)
    BY <1>t DEF EndTurn, Finish, Goto
  <2>3. ~InsertFails(w)
    BY <1>t DEF InsertFails, Abort, Finish, Goto
  <2>4. ASSUME Commit(w) PROVE Goal
    <3>1. pc[w] = "tool_commit" /\ UNCHANGED cid /\ conversations' = [e \in Convs |-> Visible(w, e)]
      BY <2>4, <1>t DEF Commit, CommitWrites, Finish, Goto
    <3>2. ASSUME NEW d \in Convs, Committed(d)', conversations'[d].type = "dataowner", ~Committed(d)
          PROVE  d \in Inserted(w)
      BY <3>1, <3>2 DEF Inserted, Committed, Visible
    <3>3. \A e \in Convs : Committed(e) =>
              /\ conversations'[e].type = conversations[e].type
              /\ conversations'[e].previous = conversations[e].previous
      BY <3>1, VisibleRow DEF LedgerInv, SafetyInv
    <3> QED
      BY <3>1, <3>2, <3>3
  <2>5. ASSUME ~Commit(w), ~EndTurn(w), ~InsertFails(w) PROVE UNCHANGED <<conversations, cid>>
    BY <1>3, <2>1, <2>5 DEF FreeStep, RequestAccess, RequestAccessMisses, ApproveRoles, DenyAccess,
           CallTool, RulesApprove, RulesDeny, OpenTicket, Advance, Provision, ProvisionFails,
           ToolFails, RollbackWrites, InsertOwnerConversation, InsertRow, SeedCheckpoint,
           CancelReadsActivePrevious, CancelLeavesPrevious, tableVars
  <2> QED
    BY <2>2, <2>3, <2>4, <2>5, <1>u
<1>4. ASSUME NEW v \in Workers, Abort(v) PROVE Goal
  <2>1. v = w /\ pc' = [pc EXCEPT ![v] = "idle"]
    BY <1>4, <1>o DEF Abort, Finish, Goto
  <2> QED
    BY <2>1, <1>t
<1>5. CASE UNCHANGED vars
  BY <1>5, <1>u DEF vars
<1> QED
  BY <1>1, <1>2, <1>3, <1>4, <1>5 DEF Next, Quiet

\* A turn begins on a conversation that was never handed over.
LEMMA TurnBegins ==
  ASSUME LedgerInv, HandedOverIsClosed, [Next]_vars,
         NEW w \in Workers, pc[w] \notin TurnPoints, pc'[w] \in TurnPoints
  PROVE  ~HandedOver(cid[w])'
<1> USE DEF TurnPoints, InTool
<1>t. pc \in [Workers -> Points] /\ cid \in [Workers -> Convs \cup {NoConv}]
      /\ conversations \in [Convs -> Row \cup {NoRow}]
  BY DEF LedgerInv, SafetyInv, TableInv, TypeOK
<1>1. (\E c \in Convs : BeginTurn(w, c)) \/ (\E c \in Convs : SlackNewThread(w, c))
  <2>1. ASSUME NEW v \in Workers, NEW c \in Convs, BeginTurn(v, c) \/ SlackNewThread(v, c)
        PROVE v = w
    BY <2>1, <1>t DEF BeginTurn, SlackNewThread, StartTurn, Goto
  <2>2. ASSUME NEW v \in Workers, NEW c \in Convs,
               Create(v, c) \/ CancelConv(v, c) \/ ArchiveConv(v, c) \/ UnarchiveConv(v, c)
        PROVE FALSE
    BY <2>2, <1>t DEF Create, CancelConv, ArchiveConv, UnarchiveConv, StartRoute, Goto
  <2>3. ASSUME NEW v \in Workers, LockStep(v) PROVE FALSE
    BY <2>3, <1>t DEF LockStep, ApproveUpdate, DenyUpdate, CompleteUpdate, CancelUpdate,
           CancelPreviousUpdate, ArchiveUpdate, UnarchiveUpdate, Update, Goto
  <2>4. ASSUME NEW v \in Workers, FreeStep(v) PROVE FALSE
    <3>1. CASE EndTurn(v) \/ RequestAccess(v) \/ RequestAccessMisses(v) \/ ApproveRoles(v) \/ DenyAccess(v)
      BY <3>1, <1>t DEF EndTurn, Finish, RequestAccess, RequestAccessMisses, ApproveRoles, DenyAccess,
             CallTool, Goto
    <3>2. CASE RulesApprove(v) \/ RulesDeny(v) \/ OpenTicket(v) \/ Provision(v) \/ ProvisionFails(v)
      BY <3>2, <1>t DEF RulesApprove, RulesDeny, OpenTicket, Advance, Provision, ProvisionFails, Goto
    <3>3. CASE ToolFails(v) \/ InsertFails(v) \/ SeedCheckpoint(v)
               \/ \E d \in Convs : InsertOwnerConversation(v, d)
      BY <3>3, <1>t DEF ToolFails, InsertFails, Abort, Finish, SeedCheckpoint, InsertOwnerConversation, Goto
    <3>4. CASE CancelReadsActivePrevious(v) \/ CancelLeavesPrevious(v) \/ Commit(v)
      BY <3>4, <1>t DEF CancelReadsActivePrevious, CancelLeavesPrevious, Advance, Commit, Finish, Goto
    <3> QED
      BY <2>4, <3>1, <3>2, <3>3, <3>4 DEF FreeStep
  <2>5. ASSUME NEW v \in Workers, Abort(v) PROVE FALSE
    BY <2>5, <1>t DEF Abort, Finish, Goto
  <2>6. ~UNCHANGED vars
    BY DEF vars
  <2> QED
    BY <2>1, <2>2, <2>3, <2>4, <2>5, <2>6 DEF Next, Quiet, Start
<1>2. CASE \E c \in Convs : BeginTurn(w, c)
  <2>1. PICK c \in Convs : BeginTurn(w, c)
    BY <1>2
  <2>2. UNCHANGED conversations /\ cid'[w] = c /\ conversations[c].status = "active"
    BY <2>1, <1>t DEF BeginTurn, StartTurn, IsActive, tableVars
  <2> QED
    BY <2>2 DEF HandedOver, HandedOverIsClosed, Committed
<1>3. CASE \E c \in Convs : SlackNewThread(w, c)
  <2>1. PICK c \in Convs : SlackNewThread(w, c)
    BY <1>3
  <2>2. /\ conversations' = [conversations EXCEPT ![c] = NewRow("recommendation", NoConv)]
        /\ ~Committed(c) /\ cid'[w] = c
    BY <2>1, <1>t DEF SlackNewThread, StartTurn, InsertCommitted, LedgerInv, SafetyInv, TableInv, RowsAreUsed
  <2>3. conversations'[c].type = "recommendation"
    BY <2>2, <1>t DEF NewRow
  <2>4. ASSUME NEW d \in Convs, Committed(d)', conversations'[d].type = "dataowner", conversations'[d].previous = c
        PROVE  FALSE
    <3>1. Committed(d) /\ conversations[d].type = "dataowner" /\ conversations[d].previous = c
      BY <2>2, <2>3, <2>4, <1>t DEF Committed
    <3> QED
      BY <2>2, <3>1 DEF LedgerInv, SafetyInv, RowsInv, OwnerConversationIsBriefed
  <2> QED
    BY <2>2, <2>4 DEF HandedOver
<1> QED
  BY <1>1, <1>2, <1>3

HistoryInv ==
    /\ LedgerInv
    /\ AloneInv
    /\ handed \in [Workers -> BOOLEAN]
    /\ ~overlapped => TurnInv

\* What is said of handlers one at a time holds as long as they are.
THEOREM HistoryInductive == HistorySpec => []HistoryInv
<1>1. HistoryInit => HistoryInv
  <2> SUFFICES ASSUME HistoryInit PROVE HistoryInv
    OBVIOUS
  <2>1. LedgerInv
    BY LedgerInit DEF HistoryInit
  <2>2. AloneInv
    BY DEF HistoryInit, Init, AloneInv, OneIsBusy, HandedOverIsClosed, RouteInv, Committed
  <2>3. handed \in [Workers -> BOOLEAN] /\ TurnInv
    BY DEF HistoryInit, Init, TurnInv, TurnPoints, InTool
  <2> QED
    BY <2>1, <2>2, <2>3 DEF HistoryInv
<1>2. HistoryInv /\ [HistoryNext]_<<vars, overlapped, handed>> => HistoryInv'
  <2> SUFFICES ASSUME HistoryInv, [HistoryNext]_<<vars, overlapped, handed>> PROVE HistoryInv'
    OBVIOUS
  <2>1. LedgerInv' /\ [Next]_vars
    BY LedgerNext DEF HistoryInv, HistoryNext
  <2>2. ASSUME ~overlapped' PROVE ~overlapped /\ OneIsBusy'
    <3>1. CASE HistoryNext
      BY <2>2, <3>1 DEF HistoryNext, Overlap, OneIsBusy
    <3>2. CASE UNCHANGED <<vars, overlapped, handed>>
      BY <2>2, <3>2 DEF HistoryInv, AloneInv, vars, OneIsBusy
    <3> QED
      BY <3>1, <3>2
  <2>3. AloneInv'
    BY <2>1, <2>2, AloneNext DEF HistoryInv, AloneInv
  <2>4. handed' \in [Workers -> BOOLEAN]
    BY DEF HistoryInv, HistoryNext
  <2>5. ASSUME ~overlapped', NEW w \in Workers, pc'[w] \in TurnPoints, HandedOver(cid[w])'
        PROVE  handed'[w]
    <3>1. /\ ~overlapped /\ OneIsBusy /\ OneIsBusy' /\ HandedOverIsClosed /\ TurnInv
          /\ LedgerInv /\ [Next]_vars
      BY <2>1, <2>2, <2>5 DEF HistoryInv, AloneInv
    <3>2. pc[w] \in TurnPoints
      BY <2>5, <3>1, TurnBegins
    <3>3. PICK d \in Convs :
              Committed(d)' /\ conversations'[d].type = "dataowner" /\ conversations'[d].previous = cid'[w]
      BY <2>5 DEF HandedOver
    <3>4. /\ cid'[w] = cid[w]
          /\ \/ d \in Inserted(w)
             \/ Committed(d) /\ conversations[d].type = "dataowner"
                             /\ conversations[d].previous = cid[w]
      BY <2>5, <3>1, <3>2, <3>3, TurnGoesOn
    <3>5. handed[w] \/ d \in Inserted(w)
      BY <3>1, <3>2, <3>4 DEF TurnInv, HandedOver
    <3>6. CASE HistoryNext
      BY <2>5, <3>3, <3>5, <3>6 DEF HistoryNext, TurnPoints, InTool
    <3>7. CASE UNCHANGED <<vars, overlapped, handed>>
      BY <2>5, <3>1, <3>7 DEF TurnInv, HandedOver, Committed, vars
    <3> QED
      BY <3>6, <3>7
  <2> QED
    BY <2>1, <2>3, <2>4, <2>5 DEF HistoryInv, TurnInv
<1> QED
  BY <1>1, <1>2, PTL DEF HistorySpec

\* While handlers come one after the other, a request that a data owner can still
\* decide is closed for its requester, and the turn that handed a request over is the
\* last one at work on it.
THEOREM HandOverIsClosedAlone == HistorySpec => []AloneOpenHandOverIsClosed
<1>1. HistoryInv => AloneOpenHandOverIsClosed
  BY DEF HistoryInv, AloneInv, HandedOverIsClosed, AloneOpenHandOverIsClosed,
         OpenHandOverIsClosedForRequester, IsActive, TurnInv, TurnPoints
<1> QED
  BY <1>1, HistoryInductive, PTL

\* While they do, the routes write only rows that are as they were when the routes
\* tested them.
THEOREM RoutesAloneActOnWhatTheyRead == HistorySpec => AloneRoutesActOnWhatTheyRead
<1> DEFINE A == ~overlapped =>
                  \A w \in Workers, c \in Convs :
                    /\ Publishes(w, "cancel_commit", c) \/ Publishes(w, "archive_commit", c)
                           => IsActive(c)
                    /\ Publishes(w, "unarchive_commit", c) => IsArchived(c)
<1>1. HistoryInv => A
  BY DEF HistoryInv, AloneInv, RouteInv, Publishes, Writes, LedgerInv, TransactionInv
<1>2. HistoryInv => [A]_vars
  BY <1>1
<1> QED
  BY <1>2, HistoryInductive, PTL DEF AloneRoutesActOnWhatTheyRead

=============================================================================
