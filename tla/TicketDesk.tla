------------------------------ MODULE TicketDesk ------------------------------
(***************************************************************************)
(* What a hand-over does before its conversation is inserted: it finds the *)
(* data owner, invites an owner who is not registered, and opens a ticket. *)
(* All of it happens outside the database, so what a failed attempt has    *)
(* done stays done, and the agent may try again.                           *)
(*                                                                         *)
(* Services answer or fail as they like.  Who owns the application changes *)
(* in Okta, and people register, while attempts are under way.             *)
(***************************************************************************)
EXTENDS Naturals, FiniteSets

CONSTANTS
    People,         \* those who may own the application
    Requests,       \* conversations that are handed over
    Systems,        \* configured ticket systems that are looked at
    MaxAttempts,    \* calls of request_access by all turns
    Nobody          \* no person, no ticket

ASSUME NobodyIsNoOne == Nobody \notin People

ASSUME MaxAttemptsIsNat == MaxAttempts \in Nat

VARIABLES
    settings,   \* the configuration of the workspace and of the directory
    owner,      \* the owner that Okta names at the moment, or Nobody
    registered, \* people the user store knows
    mailed,     \* people an invitation was given to the mail server for
    lost,       \* people for whom the mail server did not take it
    tickets,    \* tickets that were opened
    rows,       \* data owners' conversations that were inserted
    pc,         \* where each turn is
    asked,      \* the owner the turn has found
    ticket,     \* the ticket it has opened
    attempts,   \* calls made so far
    failures,   \* attempts that failed
    owned       \* all that have owned the application since the turn's last call

world == <<settings, owner, registered, owned>>
desk == <<mailed, lost, tickets, rows>>
turns == <<pc, asked, ticket, attempts, failures>>
vars == <<world, desk, turns>>

\* "directory" is whether data_owner_config is set, "default" what DATAOWNER says.
\* A mail server that is configured wrongly is like none.
Settings == [system : Systems, mail : {"none", "smtp", "unknown"},
             directory : BOOLEAN, default : People \cup {Nobody}]

Ticket == [id : 1..MaxAttempts, owner : People, system : Systems]

Goto(r, point) == pc' = [pc EXCEPT ![r] = point]

\* Slip: a second attempt goes on with the owner that the first has found.
BeginAgain(r) ==
    /\ pc[r] \in {"idle", "failed", "over"}
    /\ attempts < MaxAttempts
    /\ attempts' = attempts + 1
    /\ owned' = [owned EXCEPT ![r] = {owner}]
    /\ Goto(r, IF asked[r] = Nobody THEN "owner" ELSE "ticket")
    /\ UNCHANGED <<settings, owner, registered, desk, asked, ticket, failures>>

\* The agent calls request_access, for the first time or again: after an attempt that
\* failed, or one that handed the request over.
Begin(r) ==
    /\ pc[r] \in {"idle", "failed", "over"}
    /\ attempts < MaxAttempts
    /\ attempts' = attempts + 1
    /\ asked' = [asked EXCEPT ![r] = Nobody]
    /\ ticket' = [ticket EXCEPT ![r] = Nobody]
    /\ owned' = [owned EXCEPT ![r] = {owner}]
    /\ Goto(r, "owner")
    /\ UNCHANGED <<settings, owner, registered, desk, failures>>

\* A ToolException: nothing of the database stays.
Fail(r) ==
    /\ Goto(r, "failed")
    /\ failures' = failures + 1

\* Slip: nobody is asked like somebody.
AskAnybody(r, p) ==
    /\ asked' = [asked EXCEPT ![r] = p]
    /\ Goto(r, IF p \in registered THEN "ticket" ELSE "invite")
    /\ UNCHANGED failures

\* get_do.  Without an email of an owner there is no request.
Ask(r, p) ==
    IF p = Nobody
    THEN Fail(r) /\ UNCHANGED asked
    ELSE /\ asked' = [asked EXCEPT ![r] = p]
         /\ Goto(r, IF p \in registered THEN "ticket" ELSE "invite")
         /\ UNCHANGED failures

\* Okta names somebody with an email.
OwnerFromDirectory(r) ==
    /\ pc[r] = "owner"
    /\ settings.directory
    /\ owner # Nobody
    /\ Ask(r, owner)
    /\ UNCHANGED <<world, desk, ticket, attempts>>

\* Nothing is configured, or whatever goes wrong with Okta: the default is asked.
OwnerFromDefault(r) ==
    /\ pc[r] = "owner"
    /\ Ask(r, settings.default)
    /\ UNCHANGED <<world, desk, ticket, attempts>>

\* Slip: nobody is invited.
InviteNobody(r) ==
    /\ pc[r] = "invite"
    /\ Goto(r, "ticket")
    /\ UNCHANGED <<world, desk, asked, ticket, attempts, failures>>

\* send_registration_email.  A mail that cannot be sent is logged and forgotten,
\* and so is a type of mail server that is not known.
Invite(r) ==
    /\ pc[r] = "invite"
    /\ settings.mail # "none"
    /\ \/ settings.mail = "smtp" /\ mailed' = mailed \cup {asked[r]} /\ UNCHANGED lost
       \/ UNCHANGED mailed /\ lost' = lost \cup {asked[r]}
    /\ Goto(r, "ticket")
    /\ UNCHANGED <<world, tickets, rows, asked, ticket, attempts, failures>>

\* A mail server that is not configured is an error outside of that try.
InviteFails(r) ==
    /\ pc[r] = "invite"
    /\ settings.mail = "none"
    /\ Fail(r)
    /\ UNCHANGED <<world, desk, asked, ticket, attempts>>

\* No ticket system, or one whose type is not known: the request goes on without.
NoTicket(r) ==
    /\ pc[r] = "ticket"
    /\ settings.system = "none"
    /\ Goto(r, "insert")
    /\ UNCHANGED <<world, desk, asked, ticket, attempts, failures>>

Opened(r) == [id |-> Cardinality(tickets) + 1, owner |-> asked[r], system |-> settings.system]

\* Slip: a ticket that does not answer is opened once more.
OpenTicketTwice(r) ==
    /\ pc[r] = "ticket"
    /\ settings.system = "slack"
    /\ tickets' = tickets \cup {Opened(r), [Opened(r) EXCEPT !.id = @ + 1]}
    /\ ticket' = [ticket EXCEPT ![r] = Opened(r)]
    /\ Goto(r, "insert")
    /\ UNCHANGED <<world, mailed, lost, rows, asked, attempts, failures>>

\* Slip: the ticket is opened by somebody later.
OpenTicketLater(r) ==
    /\ pc[r] = "ticket"
    /\ settings.system \in {"slack", "_mock_"}
    /\ ticket' = [ticket EXCEPT ![r] = Opened(r)]
    /\ Goto(r, "insert")
    /\ UNCHANGED <<world, desk, asked, attempts, failures>>

\* Slack and the mock give the ticket a name that the conversation can have.
OpenTicket(r) ==
    /\ pc[r] = "ticket"
    /\ settings.system \in {"slack", "_mock_"}
    /\ tickets' = tickets \cup {Opened(r)}
    /\ ticket' = [ticket EXCEPT ![r] = Opened(r)]
    /\ Goto(r, "insert")
    /\ UNCHANGED <<world, mailed, lost, rows, asked, attempts, failures>>

\* Jira's client answers with a dictionary, which the conversation does not take.
OpenIssue(r) ==
    /\ pc[r] = "ticket"
    /\ settings.system = "jira"
    /\ tickets' = tickets \cup {Opened(r)}
    /\ ticket' = [ticket EXCEPT ![r] = Opened(r)]
    /\ Goto(r, "malformed")
    /\ UNCHANGED <<world, mailed, lost, rows, asked, attempts, failures>>

\* Conversation(...) raises, outside of the try.
IssueIsRefused(r) ==
    /\ pc[r] = "malformed"
    /\ Fail(r)
    /\ UNCHANGED <<world, desk, asked, ticket, attempts>>

\* A ticket by mail: send is called with an argument that it does not have.  With
\* no or an unknown mail server there is nothing to call it on.
MailTicketFails(r) ==
    /\ pc[r] = "ticket"
    /\ settings.system = "email"
    /\ Fail(r)
    /\ UNCHANGED <<world, desk, asked, ticket, attempts>>

\* A ticket system that does not answer, or fails after it has posted.
TicketFails(r) ==
    /\ pc[r] = "ticket"
    /\ settings.system \in {"slack", "jira"}
    /\ \/ UNCHANGED tickets
       \/ tickets' = tickets \cup {Opened(r)}
    /\ Fail(r)
    /\ UNCHANGED <<world, mailed, lost, rows, asked, ticket, attempts>>

\* The owner's conversation is inserted, under an id of its own, and its transaction
\* commits.
Insert(r) ==
    /\ pc[r] = "insert"
    /\ rows' = rows \cup {[id |-> Cardinality(rows) + 1, request |-> r,
                           assignee |-> asked[r], ticket |-> ticket[r]]}
    /\ Goto(r, "over")
    /\ UNCHANGED <<world, mailed, lost, tickets, asked, ticket, attempts, failures>>

\* Or it does not.
InsertFails(r) ==
    /\ pc[r] = "insert"
    /\ Fail(r)
    /\ UNCHANGED <<world, desk, asked, ticket, attempts>>

\* Somebody else owns the application from now on, or nobody that Okta can tell.
ChangeOwner(p) ==
    /\ owner' = p
    /\ owned' = [r \in Requests |-> owned[r] \cup {p}]
    /\ UNCHANGED <<settings, registered, desk, turns>>

Register(p) ==
    /\ registered' = registered \cup {p}
    /\ UNCHANGED <<settings, owner, owned, desk, turns>>

-----------------------------------------------------------------------------
Init ==
    /\ settings \in Settings
    /\ owner \in People \cup {Nobody}
    /\ registered \in SUBSET People
    /\ mailed = {}
    /\ lost = {}
    /\ tickets = {}
    /\ rows = {}
    /\ pc = [r \in Requests |-> "idle"]
    /\ asked = [r \in Requests |-> Nobody]
    /\ ticket = [r \in Requests |-> Nobody]
    /\ attempts = 0
    /\ failures = 0
    /\ owned = [r \in Requests |-> {owner}]

Next ==
    \/ \E r \in Requests :
        \/ Begin(r) \/ OwnerFromDirectory(r) \/ OwnerFromDefault(r)
        \/ Invite(r) \/ InviteFails(r)
        \/ NoTicket(r) \/ OpenTicket(r) \/ OpenIssue(r) \/ IssueIsRefused(r)
        \/ MailTicketFails(r) \/ TicketFails(r)
        \/ Insert(r) \/ InsertFails(r)
    \/ \E p \in People \cup {Nobody} : ChangeOwner(p)
    \/ \E p \in People : Register(p)

Spec == Init /\ [][Next]_vars

-----------------------------------------------------------------------------
\* A turn that opens a ticket knows whom it is for.
TypeOK ==
    /\ settings \in Settings
    /\ owner \in People \cup {Nobody}
    /\ registered \subseteq People
    /\ mailed \subseteq People /\ lost \subseteq People
    /\ tickets \subseteq Ticket
    /\ rows \subseteq [id : Nat, request : Requests, assignee : People,
                      ticket : Ticket \cup {Nobody}]
    /\ pc \in [Requests -> {"idle", "owner", "invite", "ticket", "malformed", "insert",
                            "failed", "over"}]
    /\ asked \in [Requests -> People \cup {Nobody}]
    /\ ticket \in [Requests -> Ticket \cup {Nobody}]
    /\ attempts \in 0..MaxAttempts
    /\ failures \in 0..attempts
    /\ owned \in [Requests -> SUBSET (People \cup {Nobody})]
    /\ \A r \in Requests : pc[r] \in {"invite", "ticket", "insert"} => asked[r] # Nobody

\* No request waits for a ticket that was not opened: in a workspace that has a
\* ticket system, each conversation of a data owner has an opened ticket for the
\* same owner (_request_roles opens it first).
RequestsHaveTheirTickets ==
    \A w \in rows : settings.system # "none" =>
        w.ticket \in tickets /\ w.ticket.owner = w.assignee

\* A ticket without a request is what a failed or unfinished attempt has left, one
\* at most for each: attempts do not open two.
OrphansComeFromFailures ==
    Cardinality({t \in tickets : \A w \in rows : w.ticket # t})
        <= failures + Cardinality({r \in Requests : pc[r] \in {"insert", "malformed"}})

\* The request goes to somebody who owned the application at some time between the
\* call of request_access that hands it over and the insert, or to the default owner.
AssigneeWasTheOwner ==
    [][\A w \in rows' \ rows : w.assignee \in owned[w.request] \cup {settings.default}]_vars

\* Nobody who is not registered is assigned a request without an attempt to invite
\* them, where there is a mail server (get_data_owner).  That the invitation arrives is
\* more than the code can say: what the server does not take is lost.
NobodyIsLeftOut ==
    settings.mail = "smtp" => \A w \in rows : w.assignee \in registered \cup mailed \cup lost

\* What failed and repeated attempts leave behind: a ticket at most for each, an
\* invitation sent or lost for whoever needs one, and every variable with its type.
AttemptsLeaveNoMess == TypeOK /\ OrphansComeFromFailures /\ NobodyIsLeftOut

\* Every ticket has a name for a conversation to be found by: create_ticket of
\* TicketInterface returns a str.
TicketsHaveNames == \A r \in Requests : pc[r] # "malformed"

\* An owner is asked by mail where mail works: EmailSenderInterface's send takes
\* the msg that EmailTicketImpl calls it with.
MailTicketsAreSent ==
    [][\A r \in Requests : ~(settings.mail = "smtp" /\ MailTicketFails(r))]_vars

=============================================================================
