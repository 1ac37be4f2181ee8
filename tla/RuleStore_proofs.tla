---------------------------- MODULE RuleStore_proofs ----------------------------
(***************************************************************************)
(* Proofs about RuleStore, for all rules, scopes, texts and handlers.      *)
(*                                                                         *)
(* What the engine makes of the tables is right because the tables agree   *)
(* with what was accepted (StoreInv).  They do because of what each open   *)
(* handler may rely on: a rule that is being created is nobody else's and  *)
(* has pinned what it names (CreateInv); the row a patch has read is still *)
(* the row, as only one coroutine runs (PatchInv, OneCoroutine); and what  *)
(* is being deleted is named by no rule, stored or pending (DropInv).      *)
(***************************************************************************)
EXTENDS RuleStore, TLAPS

\* The tables are what was accepted, and a rule names at most one thing.
StoreInv ==
    \A r \in Rules :
        /\ Stored(r) <=> accepted[r] # NoRule
        /\ Stored(r) =>
            /\ rules[r].active = accepted[r].active
            /\ rules[r].when = accepted[r].when
            /\ NamedBy(r) = Links(accepted[r])
            /\ NamedBy(r) \subseteq present
            /\ \A s, t \in NamedBy(r) : s = t
            /\ \E c \in contexts : c[1] = r
        /\ ~Stored(r) => \A c \in contexts : c[1] # r

\* The rule a handler creates is its own, and pins what it names.
CreateInv(w) ==
    pc[w] \in {"link", "rule_commit"} =>
        /\ ~Stored(job[w].rule)
        /\ \A v \in Workers \ {w} : job[v].rule # job[w].rule
        /\ linked[w] \subseteq Links(job[w].body)
        /\ linked[w] \subseteq present
        /\ \A s, t \in linked[w] : s = t
        /\ pc[w] = "rule_commit" => linked[w] = Links(job[w].body)

\* The row a patch has read is still the row.
PatchInv(w) ==
    pc[w] = "patch" => Stored(job[w].rule) /\ rules[job[w].rule] = job[w].row

\* What is being deleted is named by no rule, stored or pending.
DropInv(w) ==
    pc[w] = "drop_commit" =>
        /\ \A c \in contexts : c[2] # job[w].scope
        /\ \A v \in Workers : job[w].scope \notin linked[v]

OneCoroutine ==
    \A v, w \in Workers : pc[v] \in LoopPoints /\ pc[w] \in LoopPoints => v = w

HandlersInv == \A w \in Workers : CreateInv(w) /\ PatchInv(w) /\ DropInv(w)

RuleInv == TypeOK /\ StoreInv /\ OneCoroutine /\ HandlersInv

-----------------------------------------------------------------------------

\* Nothing is stored at the start.
LEMMA RulesInit == Init => RuleInv
<1> SUFFICES ASSUME Init PROVE RuleInv
  OBVIOUS
<1>1. TypeOK
  BY DEF Init, TypeOK, Points, LoopPoints, Jobs
<1>2. StoreInv /\ OneCoroutine
  BY DEF Init, StoreInv, OneCoroutine, LoopPoints, Stored
<1>3. HandlersInv
  BY DEF Init, HandlersInv, CreateInv, PatchInv, DropInv
<1> QED
  BY <1>1, <1>2, <1>3 DEF RuleInv

\* A handler that answers and leaves the tables as they are.
LEMMA RulesAnswer ==
  ASSUME RuleInv, NEW w \in Workers,
         NEW code \in {"none", "200", "201", "204", "400", "404", "409", "500"},
         Answer(w, code), UNCHANGED <<tables, accepted>>
  PROVE  RuleInv'
<1> USE DEF RuleInv, tables
<1>1. TypeOK'
  BY DEF TypeOK, Answer, Points, LoopPoints, Jobs
<1>2. StoreInv'
  BY DEF StoreInv, Stored, NamedBy
<1>3. OneCoroutine'
  BY DEF OneCoroutine, LoopPoints, Answer, TypeOK
<1>4. \A v \in Workers : job'[v].rule = NoRule \/ job'[v] = job[v]
  BY DEF Answer, TypeOK, NoJob
<1>5. \A v \in Workers : pc'[v] # "idle" => pc'[v] = pc[v] /\ job'[v] = job[v] /\ linked'[v] = linked[v]
  BY DEF Answer, TypeOK
<1>6. \A v \in Workers : linked'[v] \subseteq linked[v]
  BY DEF Answer, TypeOK
<1>7. \A v \in Workers : CreateInv(v)'
  <2> SUFFICES ASSUME NEW v \in Workers, pc'[v] \in {"link", "rule_commit"}
               PROVE  CreateInv(v)'
    BY DEF CreateInv
  <2>1. pc'[v] = pc[v] /\ job'[v] = job[v] /\ linked'[v] = linked[v]
    BY <1>5
  <2>2. job[v].rule # NoRule
    BY <2>1, ConstantsAssumption DEF TypeOK
  <2> QED
    BY <1>4, <2>1, <2>2 DEF HandlersInv, CreateInv, Stored
<1>8. \A v \in Workers : PatchInv(v)'
  BY <1>5 DEF HandlersInv, PatchInv, Stored
<1>9. \A v \in Workers : DropInv(v)'
  BY <1>5, <1>6 DEF HandlersInv, DropInv
<1> QED
  BY <1>1, <1>2, <1>3, <1>7, <1>8, <1>9 DEF HandlersInv

\* A handler that begins, with work on which it may rely.
LEMMA RulesBegin ==
  ASSUME RuleInv, NEW w \in Workers, NEW point \in {"link", "patch", "drop"}, NEW j,
         Begin(w, point, j), j # NoJob,
         point = "link" => /\ j \in [rule : Rules, body : Body]
                           /\ ~Stored(j.rule)
                           /\ \A v \in Workers : job[v].rule # j.rule,
         point = "patch" => /\ j \in [rule : Rules, patch : Patch, row : Row]
                            /\ Stored(j.rule)
                            /\ rules[j.rule] = j.row,
         point = "drop" => j \in [rule : {NoRule}, scope : Scopes]
  PROVE  RuleInv'
<1> USE DEF RuleInv, tables
<1>1. /\ pc[w] = "idle"
      /\ \A v \in Workers : pc[v] \notin LoopPoints
      /\ pc' = [pc EXCEPT ![w] = point]
      /\ job' = [job EXCEPT ![w] = j]
      /\ answer' = [answer EXCEPT ![w] = "none"]
      /\ linked[w] = {}
      /\ UNCHANGED <<linked, rules, contexts, present, accepted>>
  BY DEF Begin, LoopIsFree, TypeOK
<1>2. TypeOK'
  BY <1>1 DEF TypeOK, Points, LoopPoints, Jobs
<1>3. StoreInv'
  BY <1>1 DEF StoreInv, Stored, NamedBy
<1>4. OneCoroutine'
  BY <1>1 DEF OneCoroutine, TypeOK
<1>5. \A v \in Workers \ {w} : pc'[v] = pc[v] /\ job'[v] = job[v] /\ linked'[v] = linked[v]
  BY <1>1 DEF TypeOK
<1>6. pc'[w] = point /\ job'[w] = j /\ linked'[w] = {}
  BY <1>1 DEF TypeOK
<1>7. CreateInv(w)'
  BY <1>1, <1>5, <1>6 DEF CreateInv, Stored
<1>8. \A v \in Workers \ {w} : CreateInv(v)'
  <2> SUFFICES ASSUME NEW v \in Workers \ {w}, pc[v] \in {"link", "rule_commit"}
               PROVE  CreateInv(v)'
    BY <1>5 DEF CreateInv
  <2>1. job[v].rule \in Rules /\ ~Stored(job[v].rule)
    BY DEF TypeOK, HandlersInv, CreateInv
  <2>2. job[v].rule # j.rule
    BY <2>1, ConstantsAssumption
  <2>3. \A u \in Workers \ {v} : job'[u].rule # job'[v].rule
    BY <1>5, <1>6, <2>2 DEF HandlersInv, CreateInv
  <2> QED
    BY <1>1, <1>5, <2>3 DEF HandlersInv, CreateInv, Stored
<1>9. \A v \in Workers : PatchInv(v)' /\ DropInv(v)'
  BY <1>1, <1>5, <1>6 DEF HandlersInv, PatchInv, DropInv, Stored
<1> QED
  BY <1>2, <1>3, <1>4, <1>7, <1>8, <1>9 DEF HandlersInv

\* The context of a rule is inserted, and pins the row it names.
LEMMA RulesLink ==
  ASSUME RuleInv, NEW w \in Workers, Link(w)
  PROVE  RuleInv'
<1> USE DEF RuleInv, tables
<1>1. PICK s \in NextLinks(w) :
          /\ pc[w] = "link" /\ linked[w] = {}
          /\ s \in present
          /\ ~BeingDropped(s)
          /\ linked' = [linked EXCEPT ![w] = {s}]
          /\ UNCHANGED <<rules, contexts, present, pc, job, answer, accepted>>
  BY DEF Link
<1>2. s \in Links(job[w].body) /\ s \in Scopes
  BY <1>1 DEF NextLinks, Links, TypeOK
<1>3. TypeOK'
  BY <1>1, <1>2 DEF TypeOK
<1>4. StoreInv' /\ OneCoroutine'
  BY <1>1 DEF StoreInv, OneCoroutine, Stored, NamedBy
<1>5. \A v \in Workers : CreateInv(v)' /\ PatchInv(v)'
  BY <1>1, <1>2 DEF HandlersInv, CreateInv, PatchInv, Stored, TypeOK
<1>6. \A v \in Workers : DropInv(v)'
  BY <1>1 DEF HandlersInv, DropInv, BeingDropped, TypeOK
<1> QED
  BY <1>3, <1>4, <1>5, <1>6 DEF HandlersInv

\* All contexts of a rule are inserted.
LEMMA RulesLinksDone ==
  ASSUME RuleInv, NEW w \in Workers, LinksDone(w)
  PROVE  RuleInv'
<1> USE DEF RuleInv, tables
<1>1. /\ pc[w] = "link" /\ NextLinks(w) = {}
      /\ pc' = [pc EXCEPT ![w] = "rule_commit"]
      /\ UNCHANGED <<rules, contexts, present, job, linked, answer, accepted>>
  BY DEF LinksDone
<1>2. Links(job[w].body) \subseteq linked[w]
  BY <1>1 DEF NextLinks, Links
<1>3. TypeOK'
  BY <1>1 DEF TypeOK, Points
<1>4. StoreInv' /\ OneCoroutine'
  BY <1>1 DEF StoreInv, OneCoroutine, Stored, NamedBy, LoopPoints, TypeOK
<1>5. linked[w] = Links(job[w].body)
  BY <1>1, <1>2 DEF HandlersInv, CreateInv
<1>6. \A v \in Workers : pc'[v] = IF v = w THEN "rule_commit" ELSE pc[v]
  BY <1>1 DEF TypeOK
<1>7. \A v \in Workers : CreateInv(v)'
  BY <1>1, <1>5, <1>6 DEF HandlersInv, CreateInv, Stored
<1>8. \A v \in Workers : PatchInv(v)' /\ DropInv(v)'
  BY <1>1 DEF HandlersInv, PatchInv, DropInv, Stored, TypeOK
<1> QED
  BY <1>3, <1>4, <1>7, <1>8 DEF HandlersInv

\* A DELETE that no rule stands against.
LEMMA RulesDropRow ==
  ASSUME RuleInv, NEW w \in Workers, DropRow(w)
  PROVE  RuleInv'
<1> USE DEF RuleInv, tables
<1>1. /\ pc[w] = "drop"
      /\ \A v \in Workers : job[w].scope \notin linked[v]
      /\ \A c \in contexts : c[2] # job[w].scope
      /\ pc' = [pc EXCEPT ![w] = "drop_commit"]
      /\ UNCHANGED <<rules, contexts, present, job, linked, answer, accepted>>
  BY DEF DropRow, Pinned
<1>2. TypeOK'
  BY <1>1 DEF TypeOK, Points, LoopPoints
<1>3. StoreInv' /\ OneCoroutine'
  BY <1>1 DEF StoreInv, OneCoroutine, Stored, NamedBy, LoopPoints, TypeOK
<1>4. \A v \in Workers : CreateInv(v)' /\ PatchInv(v)' /\ DropInv(v)'
  BY <1>1 DEF HandlersInv, CreateInv, PatchInv, DropInv, Stored, TypeOK
<1> QED
  BY <1>2, <1>3, <1>4 DEF HandlersInv

\* The application or directory is gone, and nothing has named it.
LEMMA RulesCommitDrop ==
  ASSUME RuleInv, NEW w \in Workers, CommitDrop(w)
  PROVE  RuleInv'
<1> USE DEF RuleInv
<1> DEFINE s == job[w].scope
<1>1. /\ pc[w] = "drop_commit"
      /\ present' = present \ {s}
      /\ pc' = [pc EXCEPT ![w] = "idle"]
      /\ job' = [job EXCEPT ![w] = NoJob]
      /\ linked' = [linked EXCEPT ![w] = {}]
      /\ answer' = [answer EXCEPT ![w] = "204"]
      /\ UNCHANGED <<rules, contexts, accepted>>
  BY DEF CommitDrop, Answer
<1>2. /\ \A c \in contexts : c[2] # s
      /\ \A v \in Workers : s \notin linked[v]
  BY <1>1 DEF HandlersInv, DropInv
<1> HIDE DEF s
<1>3. TypeOK'
  BY <1>1 DEF TypeOK, Points, Jobs
<1>4. \A r \in Rules : s \notin NamedBy(r)
  BY <1>2 DEF NamedBy
<1>5. StoreInv'
  BY <1>1, <1>4 DEF StoreInv, Stored, NamedBy
<1>6. OneCoroutine'
  BY <1>1 DEF OneCoroutine, LoopPoints, TypeOK
<1>7. \A v \in Workers : /\ job'[v] = IF v = w THEN NoJob ELSE job[v]
                         /\ pc'[v] = IF v = w THEN "idle" ELSE pc[v]
                         /\ linked'[v] = IF v = w THEN {} ELSE linked[v]
  BY <1>1 DEF TypeOK
<1>8. \A v \in Workers : CreateInv(v)'
  <2> SUFFICES ASSUME NEW v \in Workers \ {w}, pc[v] \in {"link", "rule_commit"}
               PROVE  CreateInv(v)'
    BY <1>7 DEF CreateInv
  <2>1. job[v].rule # NoRule
    BY ConstantsAssumption DEF TypeOK
  <2>2. \A u \in Workers \ {v} : job'[u].rule # job[v].rule
    BY <1>7, <2>1 DEF HandlersInv, CreateInv, NoJob
  <2> QED
    BY <1>1, <1>2, <1>7, <2>2 DEF HandlersInv, CreateInv, Stored
<1>9. \A v \in Workers : PatchInv(v)' /\ DropInv(v)'
  BY <1>1, <1>7 DEF HandlersInv, PatchInv, DropInv, Stored
<1> QED
  BY <1>3, <1>5, <1>6, <1>8, <1>9 DEF HandlersInv

\* A rule appears with its context, and what it names is there.
LEMMA RulesCommitRule ==
  ASSUME RuleInv, NEW w \in Workers, CommitRule(w)
  PROVE  RuleInv'
<1> USE DEF RuleInv
<1> DEFINE r == job[w].rule
           body == job[w].body
           named == IF linked[w] = {} THEN {NoRule} ELSE linked[w]
           row == [active |-> ActiveOf(body), when |-> body.when]
           promise == [body EXCEPT !.active = ActiveOf(body)]
<1>1. /\ pc[w] = "rule_commit"
      /\ rules' = [rules EXCEPT ![r] = row]
      /\ contexts' = contexts \cup {<<r, s>> : s \in named}
      /\ accepted' = [accepted EXCEPT ![r] = promise]
      /\ pc' = [pc EXCEPT ![w] = "idle"]
      /\ job' = [job EXCEPT ![w] = NoJob]
      /\ linked' = [linked EXCEPT ![w] = {}]
      /\ answer' = [answer EXCEPT ![w] = "201"]
      /\ UNCHANGED present
  BY DEF CommitRule, Answer
<1>2. r \in Rules /\ body \in Body /\ linked[w] \subseteq Scopes
  BY <1>1 DEF TypeOK
<1>3. /\ ~Stored(r)
      /\ \A v \in Workers \ {w} : job[v].rule # r
      /\ linked[w] = Links(body)
      /\ linked[w] \subseteq present
      /\ \A s, t \in linked[w] : s = t
  BY <1>1 DEF HandlersInv, CreateInv
<1>4. ActiveOf(body) \in BOOLEAN
  BY <1>2 DEF ActiveOf, Body
<1>5. /\ row \in Row /\ row # NoRule
      /\ promise \in Body /\ promise # NoRule
      /\ row.active = promise.active /\ row.when = promise.when
      /\ Links(promise) = Links(body)
  <2>1. row \in Row
    BY <1>2, <1>4 DEF Row, Body
  <2>2. promise \in Body
    BY <1>2, <1>4 DEF Body
  <2>3. row.active = promise.active /\ row.when = promise.when
    BY <1>2 DEF Body
  <2>4. Links(promise) = Links(body)
    BY <1>2 DEF Links, Body
  <2> QED
    BY <2>1, <2>2, <2>3, <2>4, ConstantsAssumption
<1> HIDE DEF row, promise, r, body
<1>6. named \subseteq Scopes \cup {NoRule} /\ named # {} /\ named \cap Scopes = linked[w]
  BY <1>2, ConstantsAssumption
<1> HIDE DEF named
<1>7. TypeOK'
  BY <1>1, <1>2, <1>5, <1>6 DEF TypeOK, Points, Jobs
<1>8. \A q \in Rules : NamedBy(q)' = IF q = r THEN linked[w] ELSE NamedBy(q)
  <2>1. \A c \in contexts : c[1] # r
    BY <1>2, <1>3 DEF StoreInv
  <2>2. \A s \in Scopes : <<r, s>> \notin contexts
    BY <2>1
  <2>3. \A q \in Rules, s \in Scopes :
            <<q, s>> \in contexts' <=> <<q, s>> \in contexts \/ (q = r /\ s \in named)
    BY <1>1
  <2> QED
    BY <1>6, <2>2, <2>3 DEF NamedBy
<1>9. StoreInv'
  <2> SUFFICES ASSUME NEW q \in Rules
               PROVE  StoreInv!(q)'
    BY DEF StoreInv
  <2>1. CASE q = r
    <3>1. Stored(q)' /\ accepted'[q] = promise /\ rules'[q] = row
      BY <1>1, <1>2, <1>5, <2>1 DEF Stored, TypeOK
    <3>2. \E c \in contexts' : c[1] = q
      <4>1. PICK s \in named : TRUE
        BY <1>6
      <4>2. <<r, s>> \in contexts'
        BY <1>1
      <4> QED
        BY <2>1, <4>2
    <3> QED
      BY <1>1, <1>3, <1>5, <1>8, <2>1, <3>1, <3>2
  <2>2. CASE q # r
    <3>1. rules'[q] = rules[q] /\ accepted'[q] = accepted[q] /\ NamedBy(q)' = NamedBy(q)
      BY <1>1, <1>8, <2>2 DEF TypeOK
    <3>2. (\E c \in contexts' : c[1] = q) <=> \E c \in contexts : c[1] = q
      BY <1>1, <2>2
    <3> QED
      BY <1>1, <3>1, <3>2 DEF StoreInv, Stored
  <2> QED
    BY <2>1, <2>2
<1>10. OneCoroutine'
  BY <1>1 DEF OneCoroutine, LoopPoints, TypeOK
<1>11. \A v \in Workers : /\ job'[v] = IF v = w THEN NoJob ELSE job[v]
                          /\ pc'[v] = IF v = w THEN "idle" ELSE pc[v]
                          /\ linked'[v] = IF v = w THEN {} ELSE linked[v]
  BY <1>1 DEF TypeOK
<1>12. \A q \in Rules \ {r} : rules'[q] = rules[q]
  BY <1>1 DEF TypeOK
<1>13. \A v \in Workers : CreateInv(v)'
  <2> SUFFICES ASSUME NEW v \in Workers \ {w}, pc[v] \in {"link", "rule_commit"}
               PROVE  CreateInv(v)'
    BY <1>11 DEF CreateInv
  <2>1. job[v].rule # NoRule /\ job[v].rule \in Rules \ {r}
    BY <1>3, ConstantsAssumption DEF TypeOK
  <2>2. \A u \in Workers \ {v} : job'[u].rule # job[v].rule
    BY <1>11, <2>1 DEF HandlersInv, CreateInv, NoJob
  <2> QED
    BY <1>1, <1>11, <1>12, <2>1, <2>2 DEF HandlersInv, CreateInv, Stored
<1>14. \A v \in Workers : PatchInv(v)'
  <2> SUFFICES ASSUME NEW v \in Workers \ {w}, pc[v] = "patch"
               PROVE  PatchInv(v)'
    BY <1>11 DEF PatchInv
  <2>1. job[v].rule \in Rules \ {r}
    BY <1>3 DEF TypeOK
  <2> QED
    BY <1>11, <1>12, <2>1 DEF HandlersInv, PatchInv, Stored
<1>15. \A v \in Workers : DropInv(v)'
  <2> SUFFICES ASSUME NEW v \in Workers \ {w}, pc[v] = "drop_commit"
               PROVE  DropInv(v)'
    BY <1>11 DEF DropInv
  <2>1. job[v].scope \in Scopes /\ job[v].scope \notin linked[w]
    BY DEF TypeOK, HandlersInv, DropInv
  <2>2. job[v].scope \notin named
    BY <1>6, <2>1
  <2>3. \A c \in contexts' : c[2] # job[v].scope
    BY <1>1, <2>2 DEF HandlersInv, DropInv
  <2> QED
    BY <1>11, <2>3 DEF HandlersInv, DropInv
<1> QED
  BY <1>7, <1>9, <1>10, <1>13, <1>14, <1>15 DEF HandlersInv

\* A patch writes the row it has read, and what was promised changes alike.
LEMMA RulesWritePatch ==
  ASSUME RuleInv, NEW w \in Workers, WritePatch(w)
  PROVE  RuleInv'
<1> USE DEF RuleInv
<1> DEFINE r == job[w].rule
           patch == job[w].patch
           row == Patched(job[w].row, patch)
           promise == [accepted[r] EXCEPT
                          !.active = IF patch.active = Omitted THEN @ ELSE patch.active,
                          !.when = IF patch.when = Omitted THEN @ ELSE patch.when]
<1>1. /\ pc[w] = "patch"
      /\ rules' = [rules EXCEPT ![r] = row]
      /\ pc' = [pc EXCEPT ![w] = "idle"]
      /\ job' = [job EXCEPT ![w] = NoJob]
      /\ linked' = [linked EXCEPT ![w] = {}]
      /\ answer' = [answer EXCEPT ![w] = "200"]
      /\ UNCHANGED <<contexts, present>>
  BY DEF WritePatch, Answer
<1>2. /\ r \in Rules /\ patch \in Patch /\ job[w].row \in Row
      /\ Stored(r) /\ rules[r] = job[w].row
      /\ accepted[r] \in Body
  BY <1>1 DEF TypeOK, HandlersInv, PatchInv, StoreInv
<1>3. accepted' = [accepted EXCEPT ![r] = promise]
  BY <1>2 DEF WritePatch, TypeOK, Body
<1>4. row \in Row /\ promise \in Body
  <2>1. row \in Row
    BY <1>2 DEF Patched, Patch, Row
  <2>2. promise \in Body
    BY <1>2 DEF Patch, Body
  <2> QED
    BY <2>1, <2>2
<1>5. /\ row # NoRule /\ promise # NoRule
      /\ row.active = promise.active /\ row.when = promise.when
      /\ Links(promise) = Links(accepted[r])
  <2>1. rules[r].active = accepted[r].active /\ rules[r].when = accepted[r].when
    BY <1>2 DEF StoreInv
  <2>2. row.active = promise.active
    BY <1>2, <2>1 DEF Patched, Body
  <2>3. row.when = promise.when
    BY <1>2, <2>1 DEF Patched, Body
  <2>4. Links(promise) = Links(accepted[r])
    BY <1>2 DEF Links, Body
  <2> QED
    BY <1>4, <2>2, <2>3, <2>4, ConstantsAssumption
<1> HIDE DEF row, promise, patch, r
<1>6. TypeOK'
  BY <1>1, <1>2, <1>3, <1>4 DEF TypeOK, Points, Jobs
<1>7. \A q \in Rules : /\ rules'[q] = IF q = r THEN row ELSE rules[q]
                       /\ accepted'[q] = IF q = r THEN promise ELSE accepted[q]
                       /\ NamedBy(q)' = NamedBy(q)
                       /\ Stored(q)' <=> Stored(q)
  BY <1>1, <1>2, <1>3, <1>5 DEF TypeOK, NamedBy, Stored
<1>8. StoreInv'
  BY <1>1, <1>2, <1>5, <1>7 DEF StoreInv
<1>9. OneCoroutine'
  BY <1>1 DEF OneCoroutine, LoopPoints, TypeOK
<1>10. \A v \in Workers : /\ job'[v] = IF v = w THEN NoJob ELSE job[v]
                          /\ pc'[v] = IF v = w THEN "idle" ELSE pc[v]
                          /\ linked'[v] = IF v = w THEN {} ELSE linked[v]
  BY <1>1 DEF TypeOK
<1>11. \A v \in Workers : CreateInv(v)'
  <2> SUFFICES ASSUME NEW v \in Workers \ {w}, pc[v] \in {"link", "rule_commit"}
               PROVE  CreateInv(v)'
    BY <1>10 DEF CreateInv
  <2>1. job[v].rule # NoRule /\ job[v].rule \in Rules
    BY ConstantsAssumption DEF TypeOK
  <2>2. \A u \in Workers \ {v} : job'[u].rule # job[v].rule
    BY <1>10, <2>1 DEF HandlersInv, CreateInv, NoJob
  <2> QED
    BY <1>1, <1>7, <1>10, <2>1, <2>2 DEF HandlersInv, CreateInv
<1>12. \A v \in Workers : PatchInv(v)' /\ DropInv(v)'
  <2>1. \A v \in Workers \ {w} : pc[v] # "patch"
    BY <1>1 DEF OneCoroutine, LoopPoints
  <2> QED
    BY <1>1, <1>10, <2>1 DEF HandlersInv, PatchInv, DropInv
<1> QED
  BY <1>6, <1>8, <1>9, <1>11, <1>12 DEF HandlersInv

\* A rule goes with its contexts.
LEMMA RulesDelete ==
  ASSUME RuleInv, NEW w \in Workers, NEW r \in Rules, DeleteRule(w, r)
  PROVE  RuleInv'
<1> USE DEF RuleInv
<1>1. /\ pc[w] = "idle" /\ Stored(r)
      /\ \A v \in Workers : pc[v] \notin LoopPoints
      /\ contexts' = {c \in contexts : c[1] # r}
      /\ rules' = [rules EXCEPT ![r] = NoRule]
      /\ accepted' = [accepted EXCEPT ![r] = NoRule]
      /\ pc' = [pc EXCEPT ![w] = "idle"]
      /\ job' = [job EXCEPT ![w] = NoJob]
      /\ linked' = [linked EXCEPT ![w] = {}]
      /\ answer' = [answer EXCEPT ![w] = "204"]
      /\ UNCHANGED present
  BY DEF DeleteRule, Answer, LoopIsFree
<1>2. TypeOK'
  BY <1>1 DEF TypeOK, Points, Jobs
<1>3. \A q \in Rules \ {r} : /\ rules'[q] = rules[q]
                             /\ accepted'[q] = accepted[q]
                             /\ NamedBy(q)' = NamedBy(q)
                             /\ (\E c \in contexts' : c[1] = q) <=> \E c \in contexts : c[1] = q
  BY <1>1 DEF TypeOK, NamedBy
<1>4. StoreInv'
  BY <1>1, <1>3 DEF StoreInv, Stored, TypeOK
<1>5. OneCoroutine'
  BY <1>1 DEF OneCoroutine, LoopPoints, TypeOK
<1>6. pc' = pc /\ job' = job /\ linked' = linked
  BY <1>1 DEF TypeOK
<1>7. \A v \in Workers : pc[v] \in {"link", "rule_commit"} => job[v].rule \in Rules \ {r}
  BY <1>1 DEF TypeOK, HandlersInv, CreateInv
<1>8. \A v \in Workers : CreateInv(v)'
  BY <1>1, <1>3, <1>6, <1>7 DEF HandlersInv, CreateInv, Stored
<1>9. \A v \in Workers : PatchInv(v)' /\ DropInv(v)'
  BY <1>1, <1>6 DEF HandlersInv, PatchInv, DropInv, LoopPoints
<1> QED
  BY <1>2, <1>4, <1>5, <1>8, <1>9 DEF HandlersInv

-----------------------------------------------------------------------------

\* Every step keeps the tables what was accepted.
LEMMA RulesNext == RuleInv /\ [Next]_vars => RuleInv'
<1> SUFFICES ASSUME RuleInv, [Next]_vars PROVE RuleInv'
  OBVIOUS
<1>1. CASE UNCHANGED vars
  BY <1>1 DEF vars, RuleInv, TypeOK, StoreInv, OneCoroutine, HandlersInv, CreateInv, PatchInv,
              DropInv, Stored, NamedBy
<1>2. ASSUME NEW w \in Workers, Start(w) PROVE RuleInv'
  <2>1. ASSUME NEW r \in Rules, NEW body \in Body, PostRule(w, r, body) PROVE RuleInv'
    <3> DEFINE j == [rule |-> r, body |-> body]
    <3>1. j \in [rule : Rules, body : Body] /\ j.rule = r /\ j # NoJob
      BY ConstantsAssumption DEF NoJob
    <3>2. Begin(w, "link", j) /\ ~Stored(j.rule) /\ \A v \in Workers : job[v].rule # j.rule
      BY <2>1 DEF PostRule
    <3> HIDE DEF j
    <3> QED
      BY <3>1, <3>2, RulesBegin
  <2>2. ASSUME NEW r \in Rules, NEW patch \in Patch, ReadForPatch(w, r, patch) PROVE RuleInv'
    <3> DEFINE j == [rule |-> r, patch |-> patch, row |-> rules[r]]
    <3>1. Stored(r) /\ rules[r] \in Row
      BY <2>2 DEF ReadForPatch, RuleInv, TypeOK, Stored
    <3>2. j \in [rule : Rules, patch : Patch, row : Row] /\ j.rule = r /\ j.row = rules[r] /\ j # NoJob
      BY <3>1, ConstantsAssumption DEF NoJob
    <3>3. Begin(w, "patch", j)
      BY <2>2 DEF ReadForPatch
    <3> HIDE DEF j
    <3> QED
      BY <3>1, <3>2, <3>3, RulesBegin
  <2>3. ASSUME NEW s \in Scopes, Drop(w, s) PROVE RuleInv'
    <3> DEFINE j == [rule |-> NoRule, scope |-> s]
    <3>1. j \in [rule : {NoRule}, scope : Scopes] /\ j # NoJob
      BY DEF NoJob
    <3>2. Begin(w, "drop", j)
      BY <2>3 DEF Drop
    <3> HIDE DEF j
    <3> QED
      BY <3>1, <3>2, RulesBegin
  <2>4. ASSUME NEW r \in Rules, DeleteRule(w, r) \/ RuleNotFound(w, r) PROVE RuleInv'
    BY <2>4, RulesDelete, RulesAnswer DEF RuleNotFound
  <2> QED
    BY <1>2, <2>1, <2>2, <2>3, <2>4 DEF Start
<1>3. ASSUME NEW w \in Workers, Step(w) PROVE RuleInv'
  BY <1>3, RulesLink, RulesLinksDone, RulesCommitRule, RulesWritePatch, RulesDropRow,
     RulesCommitDrop, RulesAnswer
  DEF Step, LinkIsUnknown, LinkCollides, DropIsRefused, DropFindsNothing
<1>4. ASSUME NEW w \in Workers, Lost(w) PROVE RuleInv'
  BY <1>4, RulesAnswer DEF Lost
<1> QED
  BY <1>1, <1>2, <1>3, <1>4 DEF Next

-----------------------------------------------------------------------------

\* RuleInv always holds: the tables are what was accepted, and each open handler
\* may rely on what it has read.
THEOREM RulesCorrect == Spec => []RuleInv
  BY RulesInit, RulesNext, PTL DEF Spec

\* Every variable holds what it should.
THEOREM RuleTypeCorrect == Spec => []TypeOK
<1>1. RuleInv => TypeOK
  BY DEF RuleInv
<1> QED
  BY <1>1, RulesCorrect, PTL

\* A rule is as its accepted creation and patches have left it (update_rule).
THEOREM PatchCorrect == Spec => []PatchesAreKept
<1>1. RuleInv => PatchesAreKept
  BY DEF RuleInv, StoreInv, PatchesAreKept
<1> QED
  BY <1>1, RulesCorrect, PTL

\* A rule names what it was accepted with, and all of it is there, whatever is
\* deleted meanwhile (RuleStoreSQL.insert, delete of ApplicationStoreSQL).
THEOREM ScopeCorrect == Spec => []RuleKeepsWhatItNames
<1>1. RuleInv => RuleKeepsWhatItNames
  BY DEF RuleInv, StoreInv, RuleKeepsWhatItNames
<1> QED
  BY <1>1, RulesCorrect, PTL

\* With at most one thing named, the three clauses of get_rules admit a request
\* just when the lists of the rule cover it.
LEMMA AdmitsCorrect ==
  ASSUME RuleInv, NEW r \in Rules, Stored(r), NEW dir \in Dirs, NEW app \in Apps
  PROVE  Admits(r, dir, app) <=> AsksFor(accepted[r], dir, app)
<1>1. /\ accepted[r] \in Body
      /\ NamedBy(r) = accepted[r].apps \cup accepted[r].dirs
      /\ \A s, t \in NamedBy(r) : s = t
  BY DEF RuleInv, TypeOK, StoreInv, Links
<1>2. accepted[r].apps \subseteq Apps /\ accepted[r].dirs \subseteq Dirs
  BY <1>1 DEF Body
<1>3. NamedBy(r) \cap Apps = accepted[r].apps /\ NamedBy(r) \cap Dirs = accepted[r].dirs
  BY <1>1, <1>2, ConstantsAssumption
<1>4. accepted[r].apps = {} \/ accepted[r].dirs = {}
  BY <1>1, <1>2, ConstantsAssumption
<1> QED
  BY <1>3, <1>4 DEF Admits, AsksFor

\* The engine goes by exactly the accepted active rules that cover the request
\* (RuleStoreSQL.list, get_rules).
THEOREM EngineCorrect == Spec => []EngineGoesByAcceptedRules
<1>1. RuleInv => EngineGoesByAcceptedRules
  <2> SUFFICES ASSUME RuleInv, NEW dir \in Dirs, NEW app \in Apps, NEW r \in Rules
               PROVE  r \in GetRules(dir, app) <=>
                        /\ accepted[r] # NoRule
                        /\ accepted[r].active = TRUE
                        /\ AsksFor(accepted[r], dir, app)
    BY DEF EngineGoesByAcceptedRules, GetRules, Listed
  <2>1. Stored(r) <=> accepted[r] # NoRule
    BY DEF RuleInv, StoreInv
  <2>2. ASSUME Stored(r) PROVE r \in Listed <=> accepted[r].active = TRUE
    <3>1. rules[r].active \in BOOLEAN /\ rules[r].active = accepted[r].active
      BY <2>2 DEF RuleInv, TypeOK, StoreInv, Stored, Row
    <3>2. \E c \in contexts : c[1] = r
      BY <2>2 DEF RuleInv, StoreInv
    <3> QED
      BY <2>2, <3>1, <3>2 DEF Listed
  <2>3. ASSUME ~Stored(r) PROVE r \notin Listed
    BY <2>3 DEF Listed
  <2> QED
    BY <2>1, <2>2, <2>3, AdmitsCorrect DEF GetRules
<1> QED
  BY <1>1, RulesCorrect, PTL

=============================================================================
