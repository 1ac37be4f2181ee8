------------------------------- MODULE AgentGraph -------------------------------
(***************************************************************************)
(* The turns of one conversation: how a message goes through the graph of  *)
(* agents.  The entry point asks a guardrail whether the message is on     *)
(* topic and meanwhile looks up the application it is about; the agent of  *)
(* the conversation's type answers, with the recommender's help if it asks *)
(* for it.  What the graph knows is kept in channels, which are saved as a *)
(* checkpoint after every step and are where the next turn starts from.    *)
(* The pair of message and answer goes to the message table in the end.    *)
(*                                                                         *)
(* What a language model answers is a free choice.  Any step may raise,    *)
(* and the client of a stream may go away: the turn is over then, and what *)
(* it has saved so far stays.                                              *)
(***************************************************************************)
EXTENDS Naturals, Sequences

CONSTANTS
    Workers,    \* turns of this conversation that may run at the same time
    MaxTurns,   \* messages the user sends: bounds the behaviours
    MaxSteps,   \* steps of one turn: the graph's recursion_limit
    Window      \* messages the guardrail is shown: 15 in the code

ASSUME ConstantsAssumption ==
    MaxTurns \in Nat /\ MaxSteps \in Nat \ {0} /\ Window \in Nat \ {0}

Types == {"recommendation", "dataowner"}
Turns == 0..MaxTurns
Agents == {"Information", "DataOwner", "Recommender"}
Authors == Agents \cup {"human", "guardrail", "seed", "tool"}

Message == [by : Authors, turn : Turns]

\* The channels of GraphState.  app stands for app_id, app_name and
\* extra_instructions, which are only ever set together.
Channels == [messages : Seq(Message),
             sender : {"unset", "entry_point"} \cup Agents,
             conv_type : {"unset", "FAILED_GUARD"} \cup Types,
             app : {"unset", "unknown", "known"}]

Nodes == {"idle", "guard", "find_app", "end", "undefined"} \cup Agents

VARIABLES
    type,       \* the type of the conversation
    memory,     \* the channels of the last checkpoint
    table,      \* the message table: the answered turns
    turns,      \* messages sent so far
    node,       \* where each turn is
    channels,   \* the channels of each turn
    turn,       \* the message each turn answers
    steps,      \* nodes each turn has run
    verdict,    \* what the guardrail said of the message
    read,       \* history: the turns whose message a guardrail was shown
    refused     \* history: the turns whose rejection was saved

vars == <<type, memory, table, turns, node, channels, turn, steps, verdict, read, refused>>

-----------------------------------------------------------------------------
(***************************************************************************)
(* The channels and the edges.                                             *)
(***************************************************************************)

\* Slip: the channel has no reducer, and a node's message replaces the others.
Replace(messages, message) == <<message>>

\* messages: Annotated[Sequence[BaseMessage], operator.add].
Add(messages, message) == Append(messages, message)

Fresh == [messages |-> <<>>, sender |-> "unset", conv_type |-> "unset", app |-> "unset"]

\* A hand-over seeds a data owner's conversation with two messages, the facts of
\* the request and the question, and with nothing else.
Seeded == [Fresh EXCEPT !.messages = <<[by |-> "seed", turn |-> 0], [by |-> "seed", turn |-> 0]>>]

\* And it opens the message table with the message the owner reads, which the
\* seeds stand for and do not repeat.
OpeningTable(t) ==
    IF t = "dataowner" THEN <<[turn |-> 0, answer |-> [by |-> "tool", turn |-> 0]]>> ELSE <<>>

\* The edges that leave the entry point.
AfterEntryPoint == [recommendation |-> "Information", dataowner |-> "DataOwner",
                    FAILED_GUARD |-> "end"]

\* The edges that leave the recommender.
AfterRecommender == [Information |-> "Information", DataOwner |-> "DataOwner"]

\* Where an edge leads.  "undefined" stands for the KeyError of a label there is
\* no edge for, which EdgesLeadHome excludes.
Follow(edges, key) == IF key \in DOMAIN edges THEN edges[key] ELSE "undefined"

AgentOf(t) == IF t = "recommendation" THEN "Information" ELSE "DataOwner"

\* The turn of w is over, without a word to the message table.
Stop(w) ==
    /\ node' = [node EXCEPT ![w] = "idle"]
    /\ UNCHANGED <<type, memory, table, turns, channels, turn, steps, verdict, read, refused>>

\* The node of w is done: its channels are saved and the graph goes on.
Complete(w, chs, next) ==
    /\ channels' = [channels EXCEPT ![w] = chs]
    /\ memory' = chs
    /\ node' = [node EXCEPT ![w] = next]
    /\ steps' = [steps EXCEPT ![w] = @ + 1]
    /\ UNCHANGED <<type, table, turns, turn>>

\* There are steps left for the node of w.
Runs(w, n) == node[w] = n /\ steps[w] < MaxSteps

-----------------------------------------------------------------------------
(***************************************************************************)
(* A turn begins and passes the entry point.                               *)
(***************************************************************************)

\* Slip: the type of the conversation is only set at its first turn.
InputTypeOnce(chs, t) ==
    [chs EXCEPT !.messages = Add(@, [by |-> "human", turn |-> t]),
                !.conv_type = IF @ = "unset" THEN type ELSE @]

\* What the turn is invoked with, on top of the channels chs.
Input(chs, t) ==
    [chs EXCEPT !.messages = Add(@, [by |-> "human", turn |-> t]), !.conv_type = type]

\* Slip: the checkpoint is not read back.
BeginTurnAfresh(w) ==
    /\ node[w] = "idle"
    /\ turns < MaxTurns
    /\ turns' = turns + 1
    /\ turn' = [turn EXCEPT ![w] = turns + 1]
    /\ memory' = Input(Fresh, turns + 1)
    /\ channels' = [channels EXCEPT ![w] = Input(Fresh, turns + 1)]
    /\ node' = [node EXCEPT ![w] = "guard"]
    /\ steps' = [steps EXCEPT ![w] = 0]
    /\ verdict' = [verdict EXCEPT ![w] = "none"]
    /\ UNCHANGED <<type, table, read, refused>>

\* The last checkpoint is read, the input is added and saved.
BeginTurn(w) ==
    /\ node[w] = "idle"
    /\ turns < MaxTurns
    /\ turns' = turns + 1
    /\ turn' = [turn EXCEPT ![w] = turns + 1]
    /\ memory' = Input(memory, turns + 1)
    /\ channels' = [channels EXCEPT ![w] = Input(memory, turns + 1)]
    /\ node' = [node EXCEPT ![w] = "guard"]
    /\ steps' = [steps EXCEPT ![w] = 0]
    /\ verdict' = [verdict EXCEPT ![w] = "none"]
    /\ UNCHANGED <<type, table, read, refused>>

\* Slip: the guardrail is shown the latest message alone.
ShownLatest(messages) == {messages[Len(messages)]}

\* state[MEMORY_KEY][-15:]: what the guardrail is shown of the conversation.
Shown(messages) ==
    {messages[i] : i \in {j \in DOMAIN messages : j + Window > Len(messages)}}

\* The guardrail of w is shown the end of the conversation.
GuardReads(w) ==
    read' = read \cup
        {m.turn : m \in {s \in Shown(channels[w].messages) : s.by = "human"}}

\* The guardrail, whose call blocks the loop, accepts; then the lookup goes on.
GuardPasses(w) ==
    /\ Runs(w, "guard")
    /\ GuardReads(w)
    /\ node' = [node EXCEPT ![w] = "find_app"]
    /\ verdict' = [verdict EXCEPT ![w] = "valid"]
    /\ UNCHANGED <<type, memory, table, turns, channels, turn, steps, refused>>

\* Slip: the rejection is answered, but the graph goes on.
GuardRejectsInPassing(w) ==
    /\ Runs(w, "guard")
    /\ GuardReads(w)
    /\ refused' = refused \cup {turn[w]}
    /\ verdict' = [verdict EXCEPT ![w] = "invalid"]
    /\ LET chs == [channels[w] EXCEPT
                      !.sender = "entry_point",
                      !.messages = Add(@, [by |-> "guardrail", turn |-> turn[w]])]
       IN  Complete(w, chs, Follow(AfterEntryPoint, chs.conv_type))

\* The message is off topic: the lookup is cancelled and an apology answered.
GuardRejects(w) ==
    /\ Runs(w, "guard")
    /\ GuardReads(w)
    /\ refused' = refused \cup {turn[w]}
    /\ verdict' = [verdict EXCEPT ![w] = "invalid"]
    /\ LET chs == [channels[w] EXCEPT
                      !.sender = "entry_point",
                      !.messages = Add(@, [by |-> "guardrail", turn |-> turn[w]]),
                      !.conv_type = "FAILED_GUARD"]
       IN  Complete(w, chs, Follow(AfterEntryPoint, chs.conv_type))

\* The lookup answers with an application, or with there being none.
FindApp(w) ==
    /\ Runs(w, "find_app")
    /\ \E app \in {"unknown", "known"} :
        LET chs == [channels[w] EXCEPT !.sender = "entry_point", !.app = app]
        IN  Complete(w, chs, Follow(AfterEntryPoint, chs.conv_type))
    /\ UNCHANGED <<verdict, read, refused>>

\* The lookup's answer is not JSON: the application is left as it is.
FindAppUnparsed(w) ==
    /\ Runs(w, "find_app")
    /\ LET chs == [channels[w] EXCEPT !.sender = "entry_point"]
       IN  Complete(w, chs, Follow(AfterEntryPoint, chs.conv_type))
    /\ UNCHANGED <<verdict, read, refused>>

-----------------------------------------------------------------------------
(***************************************************************************)
(* The agents.                                                             *)
(***************************************************************************)

\* The channels an agent's prompt cannot be made without.
HasItsKeys(w) == node[w] = "DataOwner" \/ channels[w].app # "unset"

\* Slip: the error is caught in the node, which then waits for the channel.
KeyMissingSwallowed(w) ==
    /\ node[w] \in Agents
    /\ steps[w] < MaxSteps
    /\ ~HasItsKeys(w)
    /\ UNCHANGED vars

\* An agent reads a channel nobody has set: KeyError.
KeyMissing(w) ==
    /\ node[w] \in Agents
    /\ steps[w] < MaxSteps
    /\ ~HasItsKeys(w)
    /\ Stop(w)

Said(w, agent) == Add(channels[w].messages, [by |-> agent, turn |-> turn[w]])

\* router: the answer asks for the recommender, or it is the answer to the user.
AgentAnswers(w, agent) ==
    /\ Runs(w, agent)
    /\ HasItsKeys(w)
    /\ \E next \in {"Recommender", "end"} :
        Complete(w, [channels[w] EXCEPT !.messages = Said(w, agent), !.sender = agent], next)
    /\ UNCHANGED <<verdict, read, refused>>

\* Slip: the recommender signs as the sender, like the other agents.
RecommenderSigns(w) ==
    /\ Runs(w, "Recommender")
    /\ HasItsKeys(w)
    /\ LET chs == [channels[w] EXCEPT !.messages = Said(w, "Recommender"), !.sender = "Recommender"]
       IN  Complete(w, chs, Follow(AfterRecommender, chs.sender))
    /\ UNCHANGED <<verdict, read, refused>>

\* The recommender's answer goes back to the agent that asked for it.
RecommenderAnswers(w) ==
    /\ Runs(w, "Recommender")
    /\ HasItsKeys(w)
    /\ LET chs == [channels[w] EXCEPT !.messages = Said(w, "Recommender")]
       IN  Complete(w, chs, Follow(AfterRecommender, chs.sender))
    /\ UNCHANGED <<verdict, read, refused>>

-----------------------------------------------------------------------------
(***************************************************************************)
(* A turn ends.                                                            *)
(***************************************************************************)

\* GraphRecursionError.
OutOfSteps(w) ==
    /\ node[w] \in Agents
    /\ steps[w] >= MaxSteps
    /\ Stop(w)

\* add_messages: the message and the last answer, in one transaction.
Record(w) ==
    /\ node[w] = "end"
    /\ LET messages == channels[w].messages
       IN  table' = Append(table, [turn |-> turn[w], answer |-> messages[Len(messages)]])
    /\ node' = [node EXCEPT ![w] = "idle"]
    /\ UNCHANGED <<type, memory, turns, channels, turn, steps, verdict, read, refused>>

\* A model, a tool or the database raises, or the client is gone.
Fail(w) == node[w] # "idle" /\ Stop(w)

-----------------------------------------------------------------------------
Init ==
    /\ type \in Types
    /\ memory = IF type = "dataowner" THEN Seeded ELSE Fresh
    /\ table = OpeningTable(type)
    /\ turns = 0
    /\ node = [w \in Workers |-> "idle"]
    /\ channels = [w \in Workers |-> Fresh]
    /\ turn = [w \in Workers |-> 0]
    /\ steps = [w \in Workers |-> 0]
    /\ verdict = [w \in Workers |-> "none"]
    /\ read = {}
    /\ refused = {}

Step(w) ==
    \/ GuardPasses(w)
    \/ GuardRejects(w)
    \/ FindApp(w)
    \/ FindAppUnparsed(w)
    \/ KeyMissing(w)
    \/ AgentAnswers(w, "Information")
    \/ AgentAnswers(w, "DataOwner")
    \/ RecommenderAnswers(w)
    \/ OutOfSteps(w)
    \/ Record(w)

\* The user has nothing more to say.
Quiet ==
    /\ turns = MaxTurns
    /\ \A w \in Workers : node[w] = "idle"
    /\ UNCHANGED vars

Next ==
    \/ \E w \in Workers : BeginTurn(w) \/ Step(w) \/ Fail(w)
    \/ Quiet

Spec == Init /\ [][Next]_vars

\* Models answer or time out, and the server runs what can run.
FairSpec == Spec /\ \A w \in Workers : WF_vars(Step(w))

-----------------------------------------------------------------------------
TypeOK ==
    /\ type \in Types
    /\ memory \in Channels
    /\ table \in Seq([turn : Turns, answer : Message])
    /\ turns \in Turns
    /\ node \in [Workers -> Nodes]
    /\ channels \in [Workers -> Channels]
    /\ turn \in [Workers -> Turns]
    /\ steps \in [Workers -> 0..MaxSteps]
    /\ verdict \in [Workers -> {"none", "valid", "invalid"}]
    /\ read \subseteq Turns
    /\ refused \subseteq Turns

\* No agent answers a message the guardrail has not accepted; and of the whole
\* conversation it is given with it, earlier messages of the user included that
\* failed turns have left there, a guardrail was shown every one but those that
\* were further back than its window already (agent_node, entry_point_node).
AgentsReadWhatWasJudged ==
    \A w \in Workers : node[w] \in Agents =>
        LET messages == channels[w].messages
        IN  /\ verdict[w] = "valid"
            /\ \E own \in DOMAIN messages :
                /\ messages[own] = [by |-> "human", turn |-> turn[w]]
                /\ \A i \in DOMAIN messages :
                    messages[i].by = "human" /\ messages[i].turn \notin read => i + Window <= own

\* A message whose rejection was saved comes to an agent of a later turn, but
\* never as if it had been let through: the apology comes right after it.
RejectionsAreMarked ==
    \A w \in Workers : node[w] \in Agents =>
        LET messages == channels[w].messages
        IN  \A i \in DOMAIN messages :
                messages[i].by = "human" /\ messages[i].turn \in refused =>
                    /\ i < Len(messages)
                    /\ messages[i + 1] = [by |-> "guardrail", turn |-> messages[i].turn]

\* Every message that gets an answer gets it from the right hand: the apology if
\* it was rejected, else the agent of the conversation's own type, also after a
\* rejected message, whose mark stays in the checkpoint, and after a failed turn.
AnsweredByTheRightHand ==
    \A w \in Workers : node[w] = "end" =>
        LET messages == channels[w].messages
            answer == messages[Len(messages)]
        IN  /\ answer.turn = turn[w]
            /\ answer.by = IF verdict[w] = "valid" THEN AgentOf(type) ELSE "guardrail"

\* Whatever a channel holds when an edge asks, there is an edge for it; and only
\* the agent of the conversation's type runs, with its own tools (base_edges).
EdgesLeadHome ==
    \A w \in Workers :
        /\ node[w] # "undefined"
        /\ node[w] \in {"Information", "DataOwner"} => node[w] = AgentOf(type)
        /\ node[w] = "Recommender" => channels[w].sender = AgentOf(type)

\* What the user can read back of a conversation is what its agents remember:
\* every answered turn is in the last checkpoint, message and answer, in order.
\* The message that opens a data owner's conversation is not there in its own
\* words: the two seeds stand for it, and they stay where they are.
HistoryIsRemembered ==
    LET messages == memory.messages
        Place(by, t) == {i \in DOMAIN messages : messages[i] = [by |-> by, turn |-> t]}
    IN  \A i \in DOMAIN table :
            /\ IF table[i].turn = 0
               THEN {1, 2} \subseteq Place("seed", 0)
               ELSE \E j \in Place("human", table[i].turn) :
                    \E k \in Place(table[i].answer.by, table[i].answer.turn) : j < k
            /\ \A h \in DOMAIN table : h < i => table[h].turn < table[i].turn

\* Agents may ask the recommender over and over, but every turn comes to an end.
EveryTurnEnds == \A w \in Workers : (node[w] # "idle") ~> (node[w] = "idle")

=============================================================================
