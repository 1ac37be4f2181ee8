---------------------------- MODULE TicketDesk_proofs ----------------------------
(***************************************************************************)
(* For any people, requests, ticket systems and number of attempts: a row  *)
(* has the ticket of its owner, who owned the application or is the        *)
(* default and can sign in, and what failed attempts leave is a ticket at  *)
(* most for each.                                                          *)
(***************************************************************************)
EXTENDS TicketDesk, FiniteSetTheorems, TLAPS

\* The turns in one of the stages.
At(stages) == {r \in Requests : pc[r] \in stages}

\* An attempt opens its ticket between these.
BeforeTicket == {"owner", "invite", "ticket"}
AfterTicket == {"insert", "malformed"}

Orphans == {t \in tickets : \A w \in rows : w.ticket # t}

Working == Cardinality(At(BeforeTicket \cup AfterTicket))
Asking == Cardinality(At(BeforeTicket))
Inserting == Cardinality(At(AfterTicket))

\* What an attempt counts for: it fails or is at work, and it opens one ticket at
\* most.
TurnsAreFinite == IsFiniteSet({r \in Requests : pc[r] # "idle"})
AttemptsAreCounted ==
    /\ IsFiniteSet(tickets)
    /\ failures + Working <= attempts
    /\ Cardinality(tickets) + Asking <= attempts

\* A ticket that is opened is a new one.
TicketsAreNumbered == \A t \in tickets : t.id <= Cardinality(tickets)

\* What a turn is about to insert is a ticket of its own, for whom it has asked.
TicketsAreInHand ==
    IF settings.system = "none"
    THEN tickets = {}
    ELSE \A r \in Requests : pc[r] = "insert" =>
            /\ ticket[r] \in tickets
            /\ ticket[r].owner = asked[r]
            /\ \A w \in rows : w.ticket # ticket[r]
            /\ \A q \in Requests \ {r} : pc[q] = "insert" => ticket[q] # ticket[r]

\* Whom a turn has asked owned the application or is the default, and has been
\* invited by the time the ticket is opened.
AskedAreOwners ==
    \A r \in Requests :
        /\ owner \in owned[r]
        /\ pc[r] \in {"invite", "ticket", "insert"} =>
               asked[r] \in owned[r] \cup {settings.default}
AskedAreInvited ==
    settings.mail = "smtp" =>
        \A r \in Requests : pc[r] \in {"ticket", "insert"} =>
            asked[r] \in registered \cup mailed \cup lost

\* There are ids left for rows.
RowsAreFinite == IsFiniteSet(rows)

IInv ==
    /\ TypeOK
    /\ TurnsAreFinite
    /\ AttemptsAreCounted
    /\ OrphansComeFromFailures
    /\ TicketsAreNumbered
    /\ TicketsAreInHand
    /\ RequestsHaveTheirTickets
    /\ AskedAreOwners
    /\ AskedAreInvited
    /\ RowsAreFinite
    /\ NobodyIsLeftOut

-----------------------------------------------------------------------------
\* One element more counts for one at most.
LEMMA OneMore ==
    ASSUME NEW S, IsFiniteSet(S), NEW x
    PROVE /\ IsFiniteSet(S \cup {x})
          /\ Cardinality(S) \in Nat /\ Cardinality(S \cup {x}) \in Nat
          /\ Cardinality(S \cup {x}) <= Cardinality(S) + 1
BY FS_AddElement, FS_CardinalityType

Stages == {"idle", "owner", "invite", "ticket", "malformed", "insert", "failed", "over"}

\* Moving a turn from one stage to another counts one down and one up.
LEMMA CountMoves ==
    ASSUME TypeOK, TurnsAreFinite, NEW r \in Requests, NEW stage \in Stages, Goto(r, stage),
           NEW S \in SUBSET (Stages \ {"idle"})
    PROVE /\ IsFiniteSet(At(S)) /\ Cardinality(At(S)) \in Nat
          /\ Cardinality({q \in Requests : pc'[q] \in S}) \in Nat
          /\ Cardinality({q \in Requests : pc'[q] \in S})
                = Cardinality(At(S)) + (IF stage \in S THEN 1 ELSE 0)
                                     - (IF pc[r] \in S THEN 1 ELSE 0)
<1> DEFINE before == At(S)
           after == {q \in Requests : pc'[q] \in S}
<1>1. IsFiniteSet(before) /\ Cardinality(before) \in Nat
    <2>1. before \subseteq {q \in Requests : pc[q] # "idle"}
        BY DEF At, Stages
    <2> QED
        BY <2>1, FS_Subset, FS_CardinalityType DEF TurnsAreFinite
<1>2. \A q \in Requests : pc'[q] = IF q = r THEN stage ELSE pc[q]
    BY DEF TypeOK, Goto
<1>3. r \in before <=> pc[r] \in S
    BY DEF At
<1>4. after = IF stage \in S THEN before \cup {r} ELSE before \ {r}
    BY <1>2 DEF At
<1> HIDE DEF before, after
<1>5. /\ Cardinality(after) \in Nat
      /\ Cardinality(after) = Cardinality(before) + (IF stage \in S THEN 1 ELSE 0)
                                                  - (IF pc[r] \in S THEN 1 ELSE 0)
    <2>1. /\ Cardinality(before \cup {r})
                = IF r \in before THEN Cardinality(before) ELSE Cardinality(before) + 1
          /\ Cardinality(before \ {r})
                = IF r \in before THEN Cardinality(before) - 1 ELSE Cardinality(before)
          /\ IsFiniteSet(before \cup {r}) /\ IsFiniteSet(before \ {r})
        BY <1>1, FS_AddElement, FS_RemoveElement
    <2>2. Cardinality(after) \in Nat
        BY <1>4, <2>1, FS_CardinalityType
    <2> QED
        BY <1>1, <1>3, <1>4, <2>1, <2>2
<1> QED
    BY <1>1, <1>5 DEF before, after

\* The same of the three counts of the invariant.
LEMMA CountsMove ==
    ASSUME TypeOK, TurnsAreFinite, NEW r \in Requests, NEW stage \in Stages \ {"idle"},
           Goto(r, stage)
    PROVE /\ TurnsAreFinite'
          /\ Working \in Nat /\ Asking \in Nat /\ Inserting \in Nat
          /\ Working' \in Nat /\ Asking' \in Nat /\ Inserting' \in Nat
          /\ Working' = Working + (IF stage \in BeforeTicket \cup AfterTicket THEN 1 ELSE 0)
                                - (IF pc[r] \in BeforeTicket \cup AfterTicket THEN 1 ELSE 0)
          /\ Asking' = Asking + (IF stage \in BeforeTicket THEN 1 ELSE 0)
                              - (IF pc[r] \in BeforeTicket THEN 1 ELSE 0)
          /\ Inserting' = Inserting + (IF stage \in AfterTicket THEN 1 ELSE 0)
                                    - (IF pc[r] \in AfterTicket THEN 1 ELSE 0)
<1>1. /\ BeforeTicket \cup AfterTicket \in SUBSET (Stages \ {"idle"})
      /\ BeforeTicket \in SUBSET (Stages \ {"idle"})
      /\ AfterTicket \in SUBSET (Stages \ {"idle"})
    BY DEF BeforeTicket, AfterTicket, Stages
<1>2. /\ Working' = Cardinality({q \in Requests : pc'[q] \in BeforeTicket \cup AfterTicket})
      /\ Asking' = Cardinality({q \in Requests : pc'[q] \in BeforeTicket})
      /\ Inserting' = Cardinality({q \in Requests : pc'[q] \in AfterTicket})
    BY DEF Working, Asking, Inserting, At, BeforeTicket, AfterTicket
<1>3. TurnsAreFinite'
    <2>1. {q \in Requests : pc'[q] # "idle"} = {q \in Requests : pc[q] # "idle"} \cup {r}
        BY DEF TypeOK, Goto
    <2> QED
        BY <2>1, FS_AddElement DEF TurnsAreFinite
<1>4. /\ Working \in Nat /\ Working' \in Nat
      /\ Working' = Working + (IF stage \in BeforeTicket \cup AfterTicket THEN 1 ELSE 0)
                            - (IF pc[r] \in BeforeTicket \cup AfterTicket THEN 1 ELSE 0)
    BY <1>1, <1>2, CountMoves DEF Working
<1>5. /\ Asking \in Nat /\ Asking' \in Nat
      /\ Asking' = Asking + (IF stage \in BeforeTicket THEN 1 ELSE 0)
                          - (IF pc[r] \in BeforeTicket THEN 1 ELSE 0)
    BY <1>1, <1>2, CountMoves DEF Asking
<1>6. /\ Inserting \in Nat /\ Inserting' \in Nat
      /\ Inserting' = Inserting + (IF stage \in AfterTicket THEN 1 ELSE 0)
                                - (IF pc[r] \in AfterTicket THEN 1 ELSE 0)
    BY <1>1, <1>2, CountMoves DEF Inserting
<1> QED
    BY <1>3, <1>4, <1>5, <1>6

\* What is said of orphans, in the words of the invariant.
LEMMA OrphansAre ==
    /\ OrphansComeFromFailures <=> Cardinality(Orphans) <= failures + Inserting
    /\ OrphansComeFromFailures' <=> Cardinality(Orphans') <= failures' + Inserting'
BY DEF OrphansComeFromFailures, Orphans, Inserting, At, AfterTicket

\* Orphans are tickets.
LEMMA OrphansAreFinite ==
    ASSUME IsFiniteSet(tickets)
    PROVE IsFiniteSet(Orphans) /\ Cardinality(Orphans) \in Nat /\ Cardinality(tickets) \in Nat
<1>1. Orphans \subseteq tickets
    BY DEF Orphans
<1> QED
    BY <1>1, FS_Subset, FS_CardinalityType

\* A turn that may open a ticket has an attempt to open it for.
LEMMA OpenedIsNew ==
    ASSUME IInv, NEW r \in Requests, pc[r] = "ticket"
    PROVE /\ Opened(r) \in Ticket /\ Opened(r).id > Cardinality(tickets)
          /\ Opened(r).owner = asked[r]
          /\ Opened(r) \notin tickets
<1> USE DEF IInv
<1>1. Asking \in Nat \ {0}
    <2>1. {r} \subseteq At(BeforeTicket) /\ IsFiniteSet(At(BeforeTicket))
        <3>1. At(BeforeTicket) \subseteq {q \in Requests : pc[q] # "idle"}
            BY DEF At, BeforeTicket
        <3> QED
            BY <3>1, FS_Subset DEF TurnsAreFinite, At, BeforeTicket
    <2> QED
        BY <2>1, FS_EmptySet, FS_CardinalityType DEF Asking
<1>2. Cardinality(tickets) \in Nat /\ Cardinality(tickets) + 1 \in 1 .. MaxAttempts
    BY <1>1, OrphansAreFinite, MaxAttemptsIsNat DEF TypeOK, AttemptsAreCounted
<1>3. Opened(r) \in Ticket
    BY <1>2 DEF TypeOK, Ticket, Opened, Settings
<1> QED
    BY <1>2, <1>3 DEF Opened, TicketsAreNumbered, Ticket

\* A ticket that is opened counts for one, and is an orphan yet.
LEMMA TicketsGrow ==
    ASSUME IInv, NEW r \in Requests, pc[r] = "ticket",
           tickets' = tickets \cup {Opened(r)}, UNCHANGED rows
    PROVE /\ IsFiniteSet(tickets') /\ tickets' \subseteq Ticket
          /\ Cardinality(tickets') = Cardinality(tickets) + 1
          /\ Cardinality(Orphans') <= Cardinality(Orphans) + 1
          /\ IsFiniteSet(Orphans') /\ Cardinality(Orphans') \in Nat
          /\ TicketsAreNumbered'
<1> USE DEF IInv
<1>1. IsFiniteSet(tickets) /\ Cardinality(tickets) \in Nat
    BY OrphansAreFinite DEF AttemptsAreCounted
<1>2. IsFiniteSet(tickets') /\ Cardinality(tickets') = Cardinality(tickets) + 1
    BY <1>1, OpenedIsNew, FS_AddElement
<1>3. Orphans' \subseteq Orphans \cup {Opened(r)}
    BY DEF Orphans
<1>4. /\ IsFiniteSet(Orphans') /\ Cardinality(Orphans') \in Nat
      /\ Cardinality(Orphans') <= Cardinality(Orphans) + 1
    <2>1. /\ IsFiniteSet(Orphans \cup {Opened(r)})
          /\ Cardinality(Orphans \cup {Opened(r)}) <= Cardinality(Orphans) + 1
        BY <1>1, OrphansAreFinite, OneMore
    <2>2. /\ IsFiniteSet(Orphans')
          /\ Cardinality(Orphans') <= Cardinality(Orphans \cup {Opened(r)})
        BY <1>3, <2>1, FS_Subset
    <2>3. Cardinality(Orphans') \in Nat /\ Cardinality(Orphans \cup {Opened(r)}) \in Nat
        BY <2>1, <2>2, FS_CardinalityType
    <2> QED
        BY <1>1, <2>1, <2>2, <2>3, OrphansAreFinite
<1>5. TicketsAreNumbered'
    BY <1>1, <1>2 DEF TypeOK, Ticket, Opened, TicketsAreNumbered
<1> QED
    BY <1>2, <1>4, <1>5, OpenedIsNew DEF TypeOK

\* Nothing is there at the start.
LEMMA InitOK == Init => IInv
<1> SUFFICES ASSUME Init PROVE IInv
    OBVIOUS
<1> USE DEF Init
<1>1. TypeOK
    BY MaxAttemptsIsNat DEF TypeOK
<1>2. /\ {r \in Requests : pc[r] # "idle"} = {} /\ At(BeforeTicket) = {}
      /\ At(BeforeTicket \cup AfterTicket) = {} /\ At(AfterTicket) = {} /\ Orphans = {}
    BY DEF At, BeforeTicket, AfterTicket, Orphans
<1>3. TurnsAreFinite /\ AttemptsAreCounted
    <2>1. IsFiniteSet({}) /\ Cardinality({}) = 0
        BY FS_EmptySet
    <2>2. Working = 0 /\ Asking = 0 /\ Cardinality(tickets) = 0
        BY <1>2, <2>1 DEF Working, Asking
    <2> QED
        BY <1>2, <2>1, <2>2 DEF TurnsAreFinite, AttemptsAreCounted
<1>4. OrphansComeFromFailures
    BY <1>2, FS_EmptySet, OrphansAre DEF Inserting
<1> QED
    BY <1>1, <1>3, <1>4, FS_EmptySet DEF IInv, TicketsAreNumbered, TicketsAreInHand, RequestsHaveTheirTickets,
        AskedAreOwners, AskedAreInvited, RowsAreFinite, NobodyIsLeftOut

-----------------------------------------------------------------------------
\* request_access is called: one more attempt, and nobody is asked yet.
LEMMA BeginOK ==
    ASSUME IInv, NEW r \in Requests, Begin(r)
    PROVE IInv'
<1> USE DEF IInv, Begin, desk
<1>1. Goto(r, "owner") /\ "owner" \in Stages \ {"idle"} /\ UNCHANGED <<tickets, rows>>
    BY DEF Stages
<1>2. TypeOK'
    BY MaxAttemptsIsNat, NobodyIsNoOne DEF TypeOK, Goto
<1>3. /\ TurnsAreFinite' /\ Working' = Working + 1 /\ Asking' = Asking + 1
      /\ Inserting' = Inserting /\ Working \in Nat /\ Asking \in Nat /\ Inserting \in Nat
    BY <1>1, CountsMove DEF BeforeTicket, AfterTicket
<1>4. AttemptsAreCounted'
    BY <1>3, OrphansAreFinite DEF TypeOK, AttemptsAreCounted
<1>5. OrphansComeFromFailures'
    <2>1. Orphans' = Orphans
        BY DEF Orphans
    <2> QED
        BY <1>3, <2>1, OrphansAre
<1>6. AskedAreOwners' /\ RowsAreFinite'
    BY DEF TypeOK, Goto, AskedAreOwners, RowsAreFinite
<1>7. TicketsAreInHand'
    BY DEF TypeOK, Goto, TicketsAreInHand
<1>8. AskedAreInvited'
    BY DEF TypeOK, Goto, AskedAreInvited
<1> QED
    BY <1>2, <1>3, <1>4, <1>5, <1>6, <1>7, <1>8
        DEF TicketsAreNumbered, RequestsHaveTheirTickets, NobodyIsLeftOut

\* A turn that goes from one stage before the ticket to the next.
LEMMA TurnGoesOn ==
    ASSUME IInv, NEW r \in Requests, pc[r] \in {"owner", "invite"},
           NEW stage \in {"invite", "ticket"}, Goto(r, stage),
           asked' \in [Requests -> People \cup {Nobody}],
           \A q \in Requests \ {r} : asked'[q] = asked[q],
           asked'[r] # Nobody, asked'[r] \in owned[r] \cup {settings.default},
           mailed \subseteq mailed', mailed' \subseteq People,
           lost \subseteq lost', lost' \subseteq People,
           stage = "ticket" /\ settings.mail = "smtp" =>
               asked'[r] \in registered \cup mailed' \cup lost',
           UNCHANGED <<world, tickets, rows, ticket, attempts, failures>>
    PROVE IInv'
<1> USE DEF IInv, world
<1>1. stage \in Stages \ {"idle"}
    BY DEF Stages
<1>2. TypeOK'
    BY DEF TypeOK, Goto
<1>3. /\ TurnsAreFinite' /\ Working' = Working /\ Asking' = Asking
      /\ Inserting' = Inserting /\ Working \in Nat /\ Asking \in Nat /\ Inserting \in Nat
    BY <1>1, CountsMove DEF BeforeTicket, AfterTicket
<1>4. AttemptsAreCounted'
    BY <1>3 DEF AttemptsAreCounted
<1>5. OrphansComeFromFailures'
    <2>1. Orphans' = Orphans
        BY DEF Orphans
    <2> QED
        BY <1>3, <2>1, OrphansAre
<1>6. AskedAreOwners' /\ AskedAreInvited' /\ RowsAreFinite'
    BY DEF TypeOK, Goto, AskedAreOwners, AskedAreInvited, RowsAreFinite
<1>7. TicketsAreInHand'
    BY DEF TypeOK, Goto, TicketsAreInHand
<1> QED
    BY <1>2, <1>3, <1>4, <1>5, <1>6, <1>7
        DEF TicketsAreNumbered, RequestsHaveTheirTickets, NobodyIsLeftOut

\* An attempt that fails: a ticket it has opened, or is opening, stays.
LEMMA AttemptFails ==
    ASSUME IInv, NEW r \in Requests, pc[r] \in BeforeTicket \cup AfterTicket, Fail(r),
           \/ UNCHANGED tickets
           \/ /\ pc[r] = "ticket" /\ settings.system # "none"
              /\ tickets' = tickets \cup {Opened(r)},
           UNCHANGED <<world, mailed, lost, rows, asked, ticket, attempts>>
    PROVE IInv'
<1> USE DEF IInv, Fail, world
<1>1. Goto(r, "failed") /\ "failed" \in Stages \ {"idle"} /\ failures' = failures + 1
    BY DEF Stages
<1>2. /\ TurnsAreFinite' /\ Working' = Working - 1
      /\ Asking' = Asking - (IF pc[r] \in BeforeTicket THEN 1 ELSE 0)
      /\ Inserting' = Inserting - (IF pc[r] \in AfterTicket THEN 1 ELSE 0)
      /\ Working \in Nat /\ Asking \in Nat /\ Inserting \in Nat
      /\ Working' \in Nat /\ Asking' \in Nat /\ Inserting' \in Nat
    BY <1>1, CountsMove DEF BeforeTicket, AfterTicket
<1>3. /\ IsFiniteSet(tickets') /\ tickets' \subseteq Ticket /\ TicketsAreNumbered'
      /\ Cardinality(tickets) \in Nat /\ Cardinality(tickets') \in Nat
      /\ Cardinality(Orphans) \in Nat /\ Cardinality(Orphans') \in Nat
      /\ Cardinality(tickets') + Asking' <= Cardinality(tickets) + Asking
      /\ Cardinality(Orphans') + Inserting <= Cardinality(Orphans) + Inserting' + 1
    <2>1. CASE UNCHANGED tickets
        <3>1. Orphans' = Orphans
            BY <2>1 DEF Orphans
        <3> QED
            BY <1>2, <2>1, <3>1, OrphansAreFinite
                DEF TypeOK, AttemptsAreCounted, TicketsAreNumbered
    <2>2. CASE pc[r] = "ticket" /\ tickets' = tickets \cup {Opened(r)}
        <3>1. Asking' = Asking - 1 /\ Inserting' = Inserting
            BY <1>2, <2>2 DEF BeforeTicket, AfterTicket
        <3>2. Cardinality(tickets') \in Nat
            BY <2>2, TicketsGrow, FS_CardinalityType
        <3>3. Cardinality(tickets) \in Nat /\ Cardinality(Orphans) \in Nat
            BY OrphansAreFinite DEF AttemptsAreCounted
        <3>4. /\ IsFiniteSet(tickets') /\ tickets' \subseteq Ticket /\ TicketsAreNumbered'
              /\ Cardinality(tickets') = Cardinality(tickets) + 1
              /\ Cardinality(Orphans') <= Cardinality(Orphans) + 1
              /\ Cardinality(Orphans') \in Nat
            BY <2>2, TicketsGrow
        <3> QED
            BY <1>2, <3>1, <3>2, <3>3, <3>4
    <2> QED
        BY <2>1, <2>2
<1>4. failures' \in 0 .. attempts'
    BY <1>1, <1>2 DEF TypeOK, AttemptsAreCounted
<1>5. TypeOK'
    BY <1>3, <1>4 DEF TypeOK, Goto
<1>6. AttemptsAreCounted'
    BY <1>1, <1>2, <1>3 DEF TypeOK, AttemptsAreCounted
<1>7. OrphansComeFromFailures'
    BY <1>1, <1>2, <1>3, OrphansAre DEF TypeOK
<1>8. AskedAreOwners' /\ AskedAreInvited' /\ RowsAreFinite'
    BY DEF TypeOK, Goto, AskedAreOwners, AskedAreInvited, RowsAreFinite, BeforeTicket,
        AfterTicket
<1>9. TicketsAreInHand'
    BY DEF TypeOK, Goto, TicketsAreInHand
<1> QED
    BY <1>2, <1>3, <1>5, <1>6, <1>7, <1>8, <1>9
        DEF RequestsHaveTheirTickets, NobodyIsLeftOut

\* A ticket is opened: it is new, so it is no row's and nobody else's.
LEMMA TicketOpened ==
    ASSUME IInv, NEW r \in Requests, NEW stage \in AfterTicket,
           pc[r] = "ticket", settings.system # "none", Goto(r, stage),
           tickets' = tickets \cup {Opened(r)}, ticket' = [ticket EXCEPT ![r] = Opened(r)],
           UNCHANGED <<world, mailed, lost, rows, asked, attempts, failures>>
    PROVE IInv'
<1> USE DEF IInv, world
<1>1. stage \in Stages \ {"idle"}
    BY DEF Stages, AfterTicket
<1>2. /\ TurnsAreFinite' /\ Working' = Working /\ Asking' = Asking - 1
      /\ Inserting' = Inserting + 1
      /\ Working \in Nat /\ Asking \in Nat /\ Inserting \in Nat
    BY <1>1, CountsMove DEF BeforeTicket, AfterTicket
<1>3. Cardinality(tickets) \in Nat /\ Cardinality(Orphans) \in Nat
    BY OrphansAreFinite DEF AttemptsAreCounted
<1>4. TypeOK'
    BY <1>1, OpenedIsNew, TicketsGrow DEF TypeOK, Goto, AfterTicket
<1>5. /\ IsFiniteSet(tickets') /\ TicketsAreNumbered'
      /\ Cardinality(tickets') = Cardinality(tickets) + 1
      /\ Cardinality(Orphans') <= Cardinality(Orphans) + 1 /\ Cardinality(Orphans') \in Nat
    BY TicketsGrow
<1>6. AttemptsAreCounted' /\ OrphansComeFromFailures'
    BY <1>2, <1>3, <1>5, OrphansAre DEF TypeOK, AttemptsAreCounted
<1>7. AskedAreOwners' /\ AskedAreInvited' /\ RowsAreFinite'
    BY DEF TypeOK, Goto, AskedAreOwners, AskedAreInvited, RowsAreFinite, AfterTicket
<1>8. RequestsHaveTheirTickets'
    BY DEF RequestsHaveTheirTickets
<1>9. TicketsAreInHand'
    <2>1. ASSUME NEW q \in Requests, pc'[q] = "insert"
          PROVE /\ ticket'[q] \in tickets' /\ ticket'[q].owner = asked[q]
                /\ \A w \in rows : w.ticket # ticket'[q]
        <3>1. CASE q = r
            BY <3>1, OpenedIsNew DEF TypeOK, RequestsHaveTheirTickets
        <3>2. CASE q # r
            BY <2>1, <3>2 DEF TypeOK, Goto, TicketsAreInHand
        <3> QED
            BY <3>1, <3>2
    <2>2. ASSUME NEW q \in Requests, NEW p \in Requests \ {q}, pc'[q] = "insert",
                 pc'[p] = "insert"
          PROVE ticket'[q] # ticket'[p]
        <3>1. \A x \in Requests \ {r} : pc'[x] = "insert" =>
                    ticket'[x] = ticket[x] /\ ticket[x] \in tickets /\ pc[x] = "insert"
            BY DEF TypeOK, Goto, TicketsAreInHand
        <3>2. ticket'[r] = Opened(r) /\ Opened(r) \notin tickets
            BY OpenedIsNew DEF TypeOK
        <3> QED
            BY <2>2, <3>1, <3>2 DEF TicketsAreInHand
    <2> QED
        BY <2>1, <2>2 DEF TicketsAreInHand
<1> QED
    BY <1>2, <1>4, <1>5, <1>6, <1>7, <1>8, <1>9 DEF NobodyIsLeftOut

\* Without a ticket system the request goes on without a ticket.
LEMMA NoTicketOK ==
    ASSUME IInv, NEW r \in Requests, NoTicket(r)
    PROVE IInv'
<1> USE DEF IInv, NoTicket, world, desk
<1>1. Goto(r, "insert") /\ "insert" \in Stages \ {"idle"} /\ UNCHANGED <<tickets, rows>>
    BY DEF Stages
<1>2. /\ TurnsAreFinite' /\ Working' = Working /\ Asking' = Asking - 1
      /\ Inserting' = Inserting + 1
      /\ Working \in Nat /\ Asking \in Nat /\ Inserting \in Nat
    BY <1>1, CountsMove DEF BeforeTicket, AfterTicket
<1>3. Cardinality(tickets) \in Nat /\ Cardinality(Orphans) \in Nat
    BY OrphansAreFinite DEF AttemptsAreCounted
<1>4. TypeOK'
    BY DEF TypeOK, Goto
<1>5. AttemptsAreCounted'
    BY <1>2, <1>3 DEF TypeOK, AttemptsAreCounted
<1>6. OrphansComeFromFailures'
    <2>1. Orphans' = Orphans
        BY DEF Orphans
    <2> QED
        BY <1>2, <1>3, <2>1, OrphansAre DEF TypeOK
<1>7. AskedAreOwners' /\ AskedAreInvited' /\ RowsAreFinite' /\ TicketsAreInHand'
    BY DEF TypeOK, Goto, AskedAreOwners, AskedAreInvited, RowsAreFinite, TicketsAreInHand
<1> QED
    BY <1>2, <1>4, <1>5, <1>6, <1>7
        DEF TicketsAreNumbered, RequestsHaveTheirTickets, NobodyIsLeftOut

\* The row is inserted: the ticket in hand is an orphan no longer.
LEMMA InsertOK ==
    ASSUME IInv, NEW r \in Requests, Insert(r)
    PROVE IInv'
<1> USE DEF IInv, Insert, world
<1> DEFINE row == [id |-> Cardinality(rows) + 1, request |-> r,
                   assignee |-> asked[r], ticket |-> ticket[r]]
<1>1. Goto(r, "over") /\ "over" \in Stages \ {"idle"} /\ rows' = rows \cup {row}
    BY DEF Stages
<1>2. /\ TurnsAreFinite' /\ Working' = Working - 1 /\ Asking' = Asking
      /\ Inserting' = Inserting - 1
      /\ Working \in Nat /\ Asking \in Nat /\ Inserting \in Nat /\ Inserting' \in Nat
    BY <1>1, CountsMove DEF BeforeTicket, AfterTicket
<1>3. Cardinality(tickets) \in Nat /\ Cardinality(Orphans) \in Nat
    BY OrphansAreFinite DEF AttemptsAreCounted
<1>4. TypeOK' /\ RowsAreFinite'
    <2>1. IsFiniteSet(rows') /\ Cardinality(rows) \in Nat
        <3> HIDE DEF row
        <3> QED
            BY <1>1, OneMore DEF RowsAreFinite
    <2> QED
        BY <1>1, <2>1 DEF TypeOK, Goto, RowsAreFinite
<1>5. AttemptsAreCounted'
    BY <1>2, <1>3 DEF TypeOK, AttemptsAreCounted
<1>6. Cardinality(Orphans') <= failures + Inserting'
    <2>1. CASE settings.system = "none"
        <3>1. Orphans' = {}
            BY <2>1 DEF Orphans, TicketsAreInHand
        <3> QED
            BY <1>2, <3>1, FS_EmptySet DEF TypeOK
    <2>2. CASE settings.system # "none"
        <3>1. ticket[r] \in Orphans
            BY <2>2 DEF Orphans, TicketsAreInHand
        <3>2. Orphans' = Orphans \ {ticket[r]}
            <4>1. row.ticket = ticket[r]
                OBVIOUS
            <4> HIDE DEF row
            <4>2. UNCHANGED tickets
                OBVIOUS
            <4> QED
                BY <1>1, <4>1, <4>2 DEF Orphans
        <3>3. Cardinality(Orphans') = Cardinality(Orphans) - 1
            BY <3>1, <3>2, OrphansAreFinite, FS_RemoveElement DEF AttemptsAreCounted
        <3> QED
            BY <1>2, <1>3, <3>3, OrphansAre DEF TypeOK
    <2> QED
        BY <2>1, <2>2
<1>7. OrphansComeFromFailures'
    BY <1>6, OrphansAre
<1>8. AskedAreOwners' /\ AskedAreInvited'
    BY <1>1 DEF TypeOK, Goto, AskedAreOwners, AskedAreInvited
<1>9. RequestsHaveTheirTickets'
    BY <1>1 DEF RequestsHaveTheirTickets, TicketsAreInHand
<1>10. TicketsAreInHand'
    BY <1>1 DEF TypeOK, Goto, TicketsAreInHand
<1>11. NobodyIsLeftOut'
    BY <1>1 DEF NobodyIsLeftOut, AskedAreOwners, AskedAreInvited
<1> QED
    BY <1>2, <1>4, <1>5, <1>7, <1>8, <1>9, <1>10, <1>11 DEF TicketsAreNumbered

\* The world changes: whoever has owned the application since a turn began is
\* remembered, and nobody is forgotten who is registered.
LEMMA WorldOK ==
    ASSUME IInv,
           \/ \E p \in People \cup {Nobody} : ChangeOwner(p)
           \/ \E p \in People : Register(p)
    PROVE IInv'
<1> USE DEF IInv
<1>1. UNCHANGED <<settings, desk, turns>>
    BY DEF ChangeOwner, Register
<1>2. \A r \in Requests : owner' \in owned'[r] /\ owned[r] \subseteq owned'[r]
    BY DEF ChangeOwner, Register, AskedAreOwners, TypeOK
<1>3. registered \subseteq registered'
    BY DEF ChangeOwner, Register
<1>4. TypeOK'
    BY <1>1 DEF TypeOK, ChangeOwner, Register, desk, turns
<1>5. /\ TurnsAreFinite' /\ AttemptsAreCounted' /\ OrphansComeFromFailures'
      /\ TicketsAreNumbered' /\ TicketsAreInHand' /\ RequestsHaveTheirTickets'
      /\ RowsAreFinite'
    BY <1>1 DEF desk, turns, TurnsAreFinite, AttemptsAreCounted, Working, Asking, At,
        OrphansComeFromFailures, TicketsAreNumbered, TicketsAreInHand,
        RequestsHaveTheirTickets, RowsAreFinite
<1>6. AskedAreOwners' /\ AskedAreInvited'
    BY <1>1, <1>2, <1>3 DEF desk, turns, AskedAreOwners, AskedAreInvited
<1>7. NobodyIsLeftOut'
    BY <1>1, <1>2, <1>3 DEF TypeOK, desk, NobodyIsLeftOut
<1> QED
    BY <1>4, <1>5, <1>6, <1>7

-----------------------------------------------------------------------------
\* Every step of a turn keeps the invariant.
LEMMA TurnOK ==
    ASSUME IInv, NEW r \in Requests,
           \/ OwnerFromDirectory(r) \/ OwnerFromDefault(r) \/ Invite(r) \/ InviteFails(r)
           \/ OpenTicket(r) \/ OpenIssue(r) \/ IssueIsRefused(r)
           \/ MailTicketFails(r) \/ TicketFails(r) \/ InsertFails(r)
    PROVE IInv'
<1>1. ASSUME NEW p \in People \cup {Nobody}, p \in owned[r] \cup {settings.default},
             pc[r] = "owner", Ask(r, p), UNCHANGED <<world, desk, ticket, attempts>>
      PROVE IInv'
    <2>1. CASE p = Nobody
        BY <1>1, <2>1, AttemptFails DEF Ask, desk, BeforeTicket
    <2>2. CASE p # Nobody
        <3>1. /\ asked' = [asked EXCEPT ![r] = p]
              /\ Goto(r, IF p \in registered THEN "ticket" ELSE "invite")
              /\ UNCHANGED failures
            BY <1>1, <2>2 DEF Ask
        <3>2. asked'[r] = p /\ \A q \in Requests \ {r} : asked'[q] = asked[q]
            BY <3>1 DEF IInv, TypeOK
        <3>3. /\ asked' \in [Requests -> People \cup {Nobody}]
              /\ mailed' \subseteq People /\ lost' \subseteq People
            BY <1>1, <3>1 DEF IInv, TypeOK, desk
        <3> QED
            BY <1>1, <2>2, <3>1, <3>2, <3>3, TurnGoesOn DEF desk
    <2> QED
        BY <2>1, <2>2
<1>2. CASE OwnerFromDirectory(r)
    BY <1>1, <1>2 DEF IInv, TypeOK, AskedAreOwners, OwnerFromDirectory
<1>3. CASE OwnerFromDefault(r)
    BY <1>1, <1>3 DEF IInv, TypeOK, Settings, OwnerFromDefault
<1>4. CASE Invite(r)
    <2>1. /\ asked[r] \in People /\ mailed' \subseteq People /\ mailed \subseteq mailed'
          /\ lost' \subseteq People /\ lost \subseteq lost'
        BY <1>4 DEF IInv, TypeOK, Invite
    <2>2. asked'[r] \in registered \cup mailed' \cup lost'
        BY <1>4 DEF Invite
    <2> QED
        BY <1>4, <2>1, <2>2, TurnGoesOn, NobodyIsNoOne
            DEF IInv, TypeOK, AskedAreOwners, Invite
<1>5. CASE OpenTicket(r) \/ OpenIssue(r)
    BY <1>5, TicketOpened DEF OpenTicket, OpenIssue, AfterTicket
<1>6. CASE \/ InviteFails(r) \/ IssueIsRefused(r) \/ MailTicketFails(r) \/ TicketFails(r)
           \/ InsertFails(r)
    BY <1>6, AttemptFails DEF InviteFails, IssueIsRefused, MailTicketFails, TicketFails,
        InsertFails, desk, BeforeTicket, AfterTicket
<1> QED
    BY <1>2, <1>3, <1>4, <1>5, <1>6

\* Every step keeps the invariant.
LEMMA StepOK == IInv /\ [Next]_vars => IInv'
<1> SUFFICES ASSUME IInv, [Next]_vars PROVE IInv'
    OBVIOUS
<1>1. CASE UNCHANGED vars
    BY <1>1 DEF vars, world, desk, turns, IInv, TypeOK, TurnsAreFinite, AttemptsAreCounted,
        Working, Asking, At, OrphansComeFromFailures, TicketsAreNumbered, TicketsAreInHand,
        RequestsHaveTheirTickets, AskedAreOwners, AskedAreInvited, RowsAreFinite,
        NobodyIsLeftOut
<1>2. CASE Next
    BY <1>2, BeginOK, TurnOK, NoTicketOK, InsertOK, WorldOK DEF Next
<1> QED
    BY <1>1, <1>2

\* The invariant holds in every reachable state.
THEOREM Inductive == Spec => []IInv
<1> QED
    BY InitOK, StepOK, PTL DEF Spec

\* In a workspace that has a ticket system, no request waits for a ticket that was
\* not opened, or was opened for somebody else (_request_roles).
THEOREM TicketsAreOpenedFirst == Spec => []RequestsHaveTheirTickets
<1>1. IInv => RequestsHaveTheirTickets
    BY DEF IInv
<1> QED
    BY <1>1, Inductive, PTL

\* Whoever is asked owned the application at some time since the call that asks
\* them, or is the default owner (get_data_owner).
THEOREM OwnersAreAsked == Spec => AssigneeWasTheOwner
<1>1. IInv /\ [Next]_vars =>
        [\A w \in rows' \ rows : w.assignee \in owned[w.request] \cup {settings.default}]_vars
    <2> SUFFICES ASSUME IInv, Next, NEW w \in rows' \ rows
                 PROVE w.assignee \in owned[w.request] \cup {settings.default}
        OBVIOUS
    <2>1. PICK r \in Requests : Insert(r)
        BY DEF Next, Begin, OwnerFromDirectory, OwnerFromDefault, Invite, InviteFails, NoTicket,
            OpenTicket, OpenIssue, IssueIsRefused, MailTicketFails, TicketFails, InsertFails,
            ChangeOwner, Register, desk
    <2>2. w.request = r /\ w.assignee = asked[r] /\ pc[r] = "insert"
        BY <2>1 DEF Insert
    <2> QED
        BY <2>2 DEF IInv, AskedAreOwners
<1> QED
    BY <1>1, Inductive, PTL DEF Spec, AssigneeWasTheOwner

\* However often an attempt fails and is repeated, it leaves a ticket at most, and
\* nobody is assigned a request who can neither sign in nor was to be invited.
THEOREM AttemptsAreTidy == Spec => []AttemptsLeaveNoMess
<1>1. IInv => AttemptsLeaveNoMess
    BY DEF IInv, AttemptsLeaveNoMess
<1> QED
    BY <1>1, Inductive, PTL

=============================================================================
