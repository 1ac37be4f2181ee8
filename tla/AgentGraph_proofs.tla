--------------------------- MODULE AgentGraph_proofs ---------------------------
(***************************************************************************)
(* Proofs about AgentGraph, for any number of overlapping turns, of        *)
(* messages and of steps.                                                  *)
(*                                                                         *)
(* A turn starts from channels that any other turn may have left, in any   *)
(* state: so nothing is assumed of the memory but its type.  What makes    *)
(* the turn go right is what BeginTurn sets over it, and what the turn     *)
(* knows of its channels at each node from then on: where it leads         *)
(* (TurnInv) and what in it was judged (ReadInv).                          *)
(***************************************************************************)
EXTENDS MCAgentGraph, TLAPS

LastOf(messages) == messages[Len(messages)]

\* What turn w knows when it is at a node.
TurnInv(w) ==
    /\ node[w] # "undefined"
    /\ node[w] = "guard" => channels[w].conv_type = type
    /\ node[w] = "find_app" => channels[w].conv_type = type /\ verdict[w] = "valid"
    /\ node[w] \in Agents => verdict[w] = "valid"
    /\ node[w] \in {"Information", "DataOwner"} => node[w] = AgentOf(type)
    /\ node[w] = "Recommender" => channels[w].sender = AgentOf(type)
    /\ node[w] = "end" =>
        /\ channels[w].messages # <<>>
        /\ LastOf(channels[w].messages).turn = turn[w]
        /\ LastOf(channels[w].messages).by =
            IF verdict[w] = "valid" THEN AgentOf(type) ELSE "guardrail"

Human(t) == [by |-> "human", turn |-> t]

\* A guardrail has read every message but those behind its window when the message
\* of turn t came.
Judged(messages, t, shown) ==
    \E own \in DOMAIN messages :
        /\ messages[own] = Human(t)
        /\ \A i \in DOMAIN messages :
            messages[i].by = "human" /\ messages[i].turn \notin shown => i + Window <= own

\* What turn w knows of the messages: its own is the last, and then judged.
ReadInv(w) ==
    LET messages == channels[w].messages
    IN  /\ node[w] = "guard" => messages # <<>> /\ LastOf(messages) = Human(turn[w])
        /\ node[w] \in {"find_app"} \cup Agents => Judged(messages, turn[w], read)

GraphInv == TypeOK /\ \A w \in Workers : TurnInv(w) /\ ReadInv(w)

-----------------------------------------------------------------------------

\* Appending keeps the type of the messages, and the message is the last one.
LEMMA AddMessage ==
  ASSUME NEW messages \in Seq(Message), NEW message \in Message
  PROVE  /\ Add(messages, message) \in Seq(Message)
         /\ Add(messages, message) # <<>>
         /\ LastOf(Add(messages, message)) = message
  BY DEF Add, LastOf

\* What the guardrail is shown are messages of the user's turns.
LEMMA ShownTurns ==
  ASSUME NEW messages \in Seq(Message)
  PROVE  {m.turn : m \in {s \in Shown(messages) : s.by = "human"}} \subseteq Turns
<1>1. \A i \in DOMAIN messages : messages[i] \in Message
  OBVIOUS
<1>2. \A m \in Message : m.turn \in Turns
  BY DEF Message
<1> QED
  BY <1>1, <1>2 DEF Shown

\* Once the guardrail was shown the end of the conversation, it is judged.
LEMMA ShownIsJudged ==
  ASSUME NEW messages \in Seq(Message), NEW t, NEW shown, messages # <<>>,
         LastOf(messages) = Human(t),
         {m.turn : m \in {s \in Shown(messages) : s.by = "human"}} \subseteq shown
  PROVE  Judged(messages, t, shown)
<1>1. Len(messages) \in DOMAIN messages /\ messages[Len(messages)] = Human(t)
  BY DEF LastOf
<1>2. ASSUME NEW i \in DOMAIN messages, messages[i].by = "human",
             messages[i].turn \notin shown
      PROVE  i + Window <= Len(messages)
  <2>1. ~(i + Window > Len(messages))
    BY <1>2 DEF Shown
  <2> QED
    BY <2>1, ConstantsAssumption
<1> QED
  BY <1>1, <1>2 DEF Judged

\* What is judged stays so when something else than a user's message is added.
LEMMA AddJudged ==
  ASSUME NEW messages \in Seq(Message), NEW message \in Message, message.by # "human",
         NEW t, NEW shown, Judged(messages, t, shown)
  PROVE  Judged(Add(messages, message), t, shown)
<1>1. /\ \A i \in DOMAIN messages : /\ i \in DOMAIN Add(messages, message)
                                    /\ Add(messages, message)[i] = messages[i]
      /\ \A i \in DOMAIN Add(messages, message) :
            i \in DOMAIN messages \/ Add(messages, message)[i] = message
  BY DEF Add
<1> QED
  BY <1>1 DEF Judged

\* At the start nothing is remembered, or the two messages of a hand-over.
LEMMA GraphInit == Init => GraphInv
<1> SUFFICES ASSUME Init PROVE GraphInv
  OBVIOUS
<1>1. Fresh \in Channels
  BY DEF Fresh, Channels
<1>2. Seeded \in Channels
  <2>1. [by |-> "seed", turn |-> 0] \in Message
    BY ConstantsAssumption DEF Message, Authors, Turns
  <2> DEFINE messages == <<[by |-> "seed", turn |-> 0], [by |-> "seed", turn |-> 0]>>
  <2>2. messages \in Seq(Message)
    BY <2>1
  <2> HIDE DEF messages
  <2>3. [Fresh EXCEPT !.messages = messages] \in Channels
    BY <1>1, <2>2 DEF Channels
  <2> QED
    BY <2>3 DEF Seeded, messages
<1>5. table \in Seq([turn : Turns, answer : Message])
  <2> DEFINE entry == [turn |-> 0, answer |-> [by |-> "tool", turn |-> 0]]
             Rows == [turn : Turns, answer : Message]
  <2>1. entry \in Rows
    BY ConstantsAssumption DEF Message, Authors, Turns
  <2>3. table = <<>> \/ table = <<entry>>
    BY DEF Init, OpeningTable
  <2> HIDE DEF entry, Rows
  <2>2. <<entry>> \in Seq(Rows) /\ <<>> \in Seq(Rows)
    BY <2>1
  <2> QED
    BY <2>2, <2>3 DEF Rows
<1>3. TypeOK
  BY <1>1, <1>2, <1>5, ConstantsAssumption DEF Init, TypeOK, Turns, Nodes
<1>4. \A w \in Workers : TurnInv(w) /\ ReadInv(w)
  BY DEF Init, TurnInv, ReadInv, Agents
<1> QED
  BY <1>3, <1>4 DEF GraphInv

\* What a turn knows is its own: no other turn's step can change it.
LEMMA OtherTurns ==
  ASSUME NEW v \in Workers, TurnInv(v), ReadInv(v), UNCHANGED type,
         node'[v] = node[v], channels'[v] = channels[v],
         turn'[v] = turn[v], verdict'[v] = verdict[v], read \subseteq read'
  PROVE  TurnInv(v)' /\ ReadInv(v)'
<1>1. TurnInv(v)'
  BY DEF TurnInv
<1>2. ReadInv(v)'
  BY DEF ReadInv, Judged
<1> QED
  BY <1>1, <1>2

\* A turn that stops.
LEMMA GraphStop ==
  ASSUME GraphInv, NEW w \in Workers, Stop(w)
  PROVE  GraphInv'
<1>1. TypeOK'
  BY DEF GraphInv, TypeOK, Stop, Nodes
<1>2. TurnInv(w)' /\ ReadInv(w)'
  BY DEF GraphInv, TypeOK, Stop, TurnInv, ReadInv, Agents
<1>3. \A v \in Workers \ {w} : TurnInv(v)' /\ ReadInv(v)'
  BY OtherTurns DEF GraphInv, TypeOK, Stop
<1> QED
  BY <1>1, <1>2, <1>3 DEF GraphInv

\* A node that is done, with channels of the right type, and leads to a node of
\* which the turn knows what it should.
LEMMA GraphComplete ==
  ASSUME GraphInv, NEW w \in Workers, NEW chs \in Channels, NEW next \in Nodes,
         steps[w] < MaxSteps, Complete(w, chs, next),
         NEW v \in {"none", "valid", "invalid"}, verdict' = [verdict EXCEPT ![w] = v],
         read \subseteq read', read' \subseteq Turns, refused' \subseteq Turns,
         next \in Agents => Judged(chs.messages, turn[w], read'),
         next \notin {"undefined", "guard", "find_app"},
         next \in Agents => v = "valid",
         next \in {"Information", "DataOwner"} => next = AgentOf(type),
         next = "Recommender" => chs.sender = AgentOf(type),
         next = "end" =>
            /\ chs.messages # <<>>
            /\ LastOf(chs.messages).turn = turn[w]
            /\ LastOf(chs.messages).by = IF v = "valid" THEN AgentOf(type) ELSE "guardrail"
  PROVE  GraphInv'
<1>1. TypeOK'
  BY ConstantsAssumption DEF GraphInv, TypeOK, Complete
<1>2. TurnInv(w)' /\ ReadInv(w)'
  BY DEF GraphInv, TypeOK, Complete, TurnInv, ReadInv
<1>3. \A u \in Workers \ {w} : TurnInv(u)' /\ ReadInv(u)'
  BY OtherTurns DEF GraphInv, TypeOK, Complete
<1> QED
  BY <1>1, <1>2, <1>3 DEF GraphInv

-----------------------------------------------------------------------------

\* Every step keeps what every turn knows.
LEMMA GraphNext == GraphInv /\ [Next]_vars => GraphInv'
<1> SUFFICES ASSUME GraphInv, [Next]_vars PROVE GraphInv'
  OBVIOUS
<1>1. CASE UNCHANGED vars
  <2>1. TypeOK'
    BY <1>1 DEF GraphInv, vars, TypeOK
  <2>2. \A w \in Workers : TurnInv(w)' /\ ReadInv(w)'
    BY <1>1, OtherTurns DEF GraphInv, vars
  <2> QED
    BY <2>1, <2>2 DEF GraphInv
<1>2. ASSUME NEW w \in Workers, BeginTurn(w) PROVE GraphInv'
  <2> DEFINE chs == Input(memory, turns + 1)
  <2>0. turns + 1 \in Turns
    BY <1>2, ConstantsAssumption DEF GraphInv, BeginTurn, TypeOK, Turns
  <2>1. /\ chs \in Channels /\ chs.conv_type = type
        /\ chs.messages # <<>> /\ LastOf(chs.messages) = Human(turns + 1)
    <3>1. [by |-> "human", turn |-> turns + 1] \in Message
      BY <2>0 DEF Message, Authors
    <3>2. memory \in Channels /\ type \in Types
      BY DEF GraphInv, TypeOK
    <3> DEFINE messages == Add(memory.messages, [by |-> "human", turn |-> turns + 1])
    <3>3. /\ messages \in Seq(Message) /\ messages # <<>>
          /\ LastOf(messages) = Human(turns + 1)
      BY <3>1, <3>2, AddMessage DEF Channels, Human
    <3>4. chs = [memory EXCEPT !.messages = messages, !.conv_type = type]
      BY DEF Input
    <3> HIDE DEF messages, chs
    <3> QED
      BY <3>2, <3>3, <3>4 DEF Channels
  <2>2. /\ turns' = turns + 1
        /\ turn' = [turn EXCEPT ![w] = turns + 1]
        /\ memory' = chs
        /\ channels' = [channels EXCEPT ![w] = chs]
        /\ node' = [node EXCEPT ![w] = "guard"]
        /\ steps' = [steps EXCEPT ![w] = 0]
        /\ verdict' = [verdict EXCEPT ![w] = "none"]
        /\ UNCHANGED <<type, table, read, refused>>
    BY <1>2 DEF BeginTurn
  <2> HIDE DEF chs
  <2>3. TypeOK'
    BY <2>0, <2>1, <2>2, ConstantsAssumption DEF GraphInv, TypeOK, Nodes
  <2>4. TurnInv(w)' /\ ReadInv(w)'
    BY <2>1, <2>2 DEF GraphInv, TypeOK, TurnInv, ReadInv, Agents
  <2>5. \A v \in Workers \ {w} : TurnInv(v)' /\ ReadInv(v)'
    BY <2>2, OtherTurns DEF GraphInv, TypeOK
  <2> QED
    BY <2>3, <2>4, <2>5 DEF GraphInv
<1>3. ASSUME NEW w \in Workers, GuardPasses(w) PROVE GraphInv'
  <2> DEFINE messages == channels[w].messages
             shown == {m.turn : m \in {s \in Shown(messages) : s.by = "human"}}
  <2>0. /\ messages \in Seq(Message)
        /\ messages # <<>> /\ LastOf(messages) = Human(turn[w])
    BY <1>3 DEF GraphInv, TypeOK, Channels, GuardPasses, Runs, ReadInv
  <2>4. read' = read \cup shown /\ shown \subseteq Turns
    BY <1>3, <2>0, ShownTurns DEF GuardPasses, GuardReads
  <2>5. Judged(messages, turn[w], read')
    BY <2>0, <2>4, ShownIsJudged
  <2> HIDE DEF shown
  <2>1. TypeOK'
    BY <1>3, <2>4 DEF GraphInv, TypeOK, GuardPasses, Nodes
  <2>2. TurnInv(w)' /\ ReadInv(w)'
    <3>1. TurnInv(w)'
      BY <1>3 DEF GraphInv, TypeOK, GuardPasses, Runs, TurnInv, Agents
    <3>2. ReadInv(w)'
      BY <1>3, <2>5 DEF GraphInv, TypeOK, GuardPasses, ReadInv
    <3> QED
      BY <3>1, <3>2
  <2>3. \A v \in Workers \ {w} : TurnInv(v)' /\ ReadInv(v)'
    BY <1>3, <2>4, OtherTurns DEF GraphInv, TypeOK, GuardPasses
  <2> QED
    BY <2>1, <2>2, <2>3 DEF GraphInv
<1>4. ASSUME NEW w \in Workers, GuardRejects(w) PROVE GraphInv'
  <2> DEFINE message == [by |-> "guardrail", turn |-> turn[w]]
             messages == Add(channels[w].messages, message)
             chs == [channels[w] EXCEPT !.sender = "entry_point", !.messages = messages,
                                        !.conv_type = "FAILED_GUARD"]
  <2>1. message \in Message /\ channels[w] \in Channels
    BY DEF GraphInv, TypeOK, Message, Authors
  <2>2. /\ messages \in Seq(Message) /\ messages # <<>>
        /\ LastOf(messages).turn = turn[w]
        /\ LastOf(messages).by = "guardrail"
    <3>1. messages \in Seq(Message) /\ messages # <<>> /\ LastOf(messages) = message
      BY <2>1, AddMessage DEF Channels
    <3> HIDE DEF messages
    <3> QED
      BY <3>1
  <2> HIDE DEF messages
  <2>3. chs \in Channels /\ chs.messages = messages /\ chs.conv_type = "FAILED_GUARD"
    BY <2>1, <2>2 DEF Channels
  <2>4. Complete(w, chs, Follow(AfterEntryPoint, chs.conv_type))
    BY <1>4 DEF GuardRejects, messages
  <2>5. Follow(AfterEntryPoint, chs.conv_type) = "end"
    BY <2>3 DEF Follow, AfterEntryPoint
  <2>6. steps[w] < MaxSteps /\ verdict' = [verdict EXCEPT ![w] = "invalid"]
    BY <1>4 DEF GuardRejects, Runs
  <2>9. read \subseteq read' /\ read' \subseteq Turns /\ refused' \subseteq Turns
    BY <1>4, <2>1, ShownTurns DEF GuardRejects, GuardReads, GraphInv, TypeOK, Channels
  <2> HIDE DEF chs
  <2>7. Complete(w, chs, "end")
    BY <2>4, <2>5
  <2>8. "end" \in Nodes /\ "end" \notin Agents
    BY DEF Nodes, Agents
  <2> HIDE DEF message
  <2> QED
    BY <2>2, <2>3, <2>6, <2>7, <2>8, <2>9, GraphComplete
<1>5. ASSUME NEW w \in Workers, NEW chs \in Channels,
             Runs(w, "find_app"), chs.conv_type = channels[w].conv_type,
             chs.messages = channels[w].messages,
             Complete(w, chs, Follow(AfterEntryPoint, chs.conv_type)),
             UNCHANGED <<verdict, read, refused>>
      PROVE  GraphInv'
  <2>1. type \in Types /\ chs.conv_type = type /\ verdict[w] = "valid"
    BY <1>5 DEF GraphInv, Runs, TurnInv, TypeOK
  <2>2. Follow(AfterEntryPoint, chs.conv_type) = AgentOf(type)
    BY <2>1 DEF Follow, AfterEntryPoint, AgentOf, Types
  <2>3. AgentOf(type) \in {"Information", "DataOwner"}
    BY DEF AgentOf
  <2>4. verdict' = [verdict EXCEPT ![w] = "valid"]
    BY <1>5, <2>1 DEF GraphInv, TypeOK
  <2>5. Complete(w, chs, AgentOf(type)) /\ steps[w] < MaxSteps
    BY <1>5, <2>2 DEF Runs
  <2>6. Judged(chs.messages, turn[w], read')
    BY <1>5 DEF GraphInv, Runs, ReadInv
  <2>7. read \subseteq read' /\ read' \subseteq Turns /\ refused' \subseteq Turns
    BY <1>5 DEF GraphInv, TypeOK
  <2> QED
    BY <2>3, <2>4, <2>5, <2>6, <2>7, GraphComplete DEF Nodes, Agents
<1>6. ASSUME NEW w \in Workers, FindApp(w) PROVE GraphInv'
  <2>1. PICK app \in {"unknown", "known"} :
            LET chs == [channels[w] EXCEPT !.sender = "entry_point", !.app = app]
            IN  Complete(w, chs, Follow(AfterEntryPoint, chs.conv_type))
    BY <1>6 DEF FindApp
  <2> DEFINE chs == [channels[w] EXCEPT !.sender = "entry_point", !.app = app]
  <2>2. chs \in Channels /\ chs.conv_type = channels[w].conv_type /\ chs.messages = channels[w].messages
    BY DEF GraphInv, TypeOK, Channels
  <2>3. Complete(w, chs, Follow(AfterEntryPoint, chs.conv_type))
    BY <2>1
  <2> HIDE DEF chs
  <2> QED
    BY <1>5, <1>6, <2>2, <2>3 DEF FindApp
<1>7. ASSUME NEW w \in Workers, FindAppUnparsed(w) PROVE GraphInv'
  <2> DEFINE chs == [channels[w] EXCEPT !.sender = "entry_point"]
  <2>1. chs \in Channels /\ chs.conv_type = channels[w].conv_type /\ chs.messages = channels[w].messages
    BY DEF GraphInv, TypeOK, Channels
  <2>2. Complete(w, chs, Follow(AfterEntryPoint, chs.conv_type))
    BY <1>7 DEF FindAppUnparsed
  <2> HIDE DEF chs
  <2> QED
    BY <1>5, <1>7, <2>1, <2>2 DEF FindAppUnparsed
<1>8. ASSUME NEW w \in Workers, NEW agent \in {"Information", "DataOwner"}, AgentAnswers(w, agent)
      PROVE  GraphInv'
  <2> DEFINE message == [by |-> agent, turn |-> turn[w]]
             messages == Said(w, agent)
             chs == [channels[w] EXCEPT !.messages = messages, !.sender = agent]
  <2>1. message \in Message /\ channels[w] \in Channels
    BY DEF GraphInv, TypeOK, Message, Authors, Agents
  <2>2. /\ messages \in Seq(Message) /\ messages # <<>>
        /\ LastOf(messages).turn = turn[w]
        /\ LastOf(messages).by = agent
    <3>1. messages \in Seq(Message) /\ messages # <<>> /\ LastOf(messages) = message
      BY <2>1, AddMessage DEF Channels, Said
    <3> HIDE DEF messages
    <3> QED
      BY <3>1
  <2>3. PICK next \in {"Recommender", "end"} : Complete(w, chs, next)
    BY <1>8 DEF AgentAnswers
  <2> HIDE DEF messages
  <2>4. chs \in Channels /\ chs.messages = messages /\ chs.sender = agent
    BY <2>1, <2>2 DEF Channels, Agents
  <2>5. agent = AgentOf(type) /\ verdict[w] = "valid" /\ steps[w] < MaxSteps
    BY <1>8 DEF GraphInv, AgentAnswers, Runs, TurnInv, Agents
  <2>6. verdict' = [verdict EXCEPT ![w] = "valid"]
    BY <1>8, <2>5 DEF GraphInv, AgentAnswers, TypeOK
  <2>7. read' = read /\ read \subseteq Turns /\ refused' \subseteq Turns
    BY <1>8 DEF GraphInv, AgentAnswers, TypeOK
  <2>8. Judged(chs.messages, turn[w], read')
    <3>1. Judged(channels[w].messages, turn[w], read)
      BY <1>8 DEF GraphInv, AgentAnswers, Runs, ReadInv, Agents
    <3>2. messages = Add(channels[w].messages, message) /\ message.by # "human"
      BY DEF messages, Said
    <3> HIDE DEF message
    <3> QED
      BY <2>1, <2>4, <2>7, <3>1, <3>2, AddJudged DEF Channels
  <2> HIDE DEF chs
  <2> QED
    BY <2>2, <2>3, <2>4, <2>5, <2>6, <2>7, <2>8, GraphComplete DEF Nodes, Agents
<1>9. ASSUME NEW w \in Workers, RecommenderAnswers(w) PROVE GraphInv'
  <2> DEFINE message == [by |-> "Recommender", turn |-> turn[w]]
             messages == Said(w, "Recommender")
             chs == [channels[w] EXCEPT !.messages = messages]
  <2>1. message \in Message /\ channels[w] \in Channels
    BY DEF GraphInv, TypeOK, Message, Authors, Agents
  <2>2. messages \in Seq(Message)
    BY <2>1, AddMessage DEF Channels, Said
  <2>3. Complete(w, chs, Follow(AfterRecommender, chs.sender))
    BY <1>9 DEF RecommenderAnswers
  <2> HIDE DEF messages
  <2>4. chs \in Channels /\ chs.sender = channels[w].sender /\ chs.messages = messages
    BY <2>1, <2>2 DEF Channels
  <2>5. channels[w].sender = AgentOf(type) /\ verdict[w] = "valid" /\ steps[w] < MaxSteps
    BY <1>9 DEF GraphInv, RecommenderAnswers, Runs, TurnInv, Agents
  <2>6. verdict' = [verdict EXCEPT ![w] = "valid"]
    BY <1>9, <2>5 DEF GraphInv, RecommenderAnswers, TypeOK
  <2>7. Follow(AfterRecommender, chs.sender) = AgentOf(type)
    BY <2>4, <2>5 DEF Follow, AfterRecommender, AgentOf
  <2>8. AgentOf(type) \in {"Information", "DataOwner"}
    BY DEF AgentOf
  <2>10. read' = read /\ read \subseteq Turns /\ refused' \subseteq Turns
    BY <1>9 DEF GraphInv, RecommenderAnswers, TypeOK
  <2>11. Judged(chs.messages, turn[w], read')
    <3>1. Judged(channels[w].messages, turn[w], read)
      BY <1>9 DEF GraphInv, RecommenderAnswers, Runs, ReadInv, Agents
    <3>2. messages = Add(channels[w].messages, message) /\ message.by # "human"
      BY DEF messages, Said
    <3> HIDE DEF message
    <3> QED
      BY <2>1, <2>4, <2>10, <3>1, <3>2, AddJudged DEF Channels
  <2> HIDE DEF chs
  <2>9. Complete(w, chs, AgentOf(type))
    BY <2>3, <2>7
  <2> QED
    BY <2>4, <2>5, <2>6, <2>8, <2>9, <2>10, <2>11, GraphComplete DEF Nodes, Agents
<1>10. ASSUME NEW w \in Workers, Record(w) PROVE GraphInv'
  <2> DEFINE messages == channels[w].messages
             entry == [turn |-> turn[w], answer |-> LastOf(messages)]
  <2>1. entry \in [turn : Turns, answer : Message]
    <3>1. messages \in Seq(Message) /\ messages # <<>>
      BY <1>10 DEF GraphInv, Record, TypeOK, TurnInv, Channels
    <3>2. LastOf(messages) \in Message
      BY <3>1 DEF LastOf
    <3> QED
      BY <3>2 DEF GraphInv, TypeOK
  <2>2. table' = Append(table, entry)
    BY <1>10 DEF Record, LastOf
  <2> HIDE DEF entry
  <2>3. TypeOK'
    BY <1>10, <2>1, <2>2 DEF GraphInv, TypeOK, Record, Nodes
  <2>4. TurnInv(w)' /\ ReadInv(w)'
    BY <1>10 DEF GraphInv, TypeOK, Record, TurnInv, ReadInv, Agents
  <2>5. \A v \in Workers \ {w} : TurnInv(v)' /\ ReadInv(v)'
    BY <1>10, OtherTurns DEF GraphInv, TypeOK, Record
  <2> QED
    BY <2>3, <2>4, <2>5 DEF GraphInv
<1>11. ASSUME NEW w \in Workers, KeyMissing(w) \/ OutOfSteps(w) \/ Fail(w) PROVE GraphInv'
  BY <1>11, GraphStop DEF KeyMissing, OutOfSteps, Fail
<1> QED
  BY <1>1, <1>2, <1>3, <1>4, <1>6, <1>7, <1>8, <1>9, <1>10, <1>11 DEF Next, Step, Quiet

-----------------------------------------------------------------------------

\* GraphInv always holds: each turn knows at each node what the node relies on.
THEOREM GraphCorrect == Spec => []GraphInv
  BY GraphInit, GraphNext, PTL DEF Spec

\* Every variable holds what it should, and no turn exceeds its steps
\* (recursion_limit).
THEOREM GraphTypeCorrect == Spec => []TypeOK
<1>1. GraphInv => TypeOK
  BY DEF GraphInv
<1> QED
  BY <1>1, GraphCorrect, PTL

\* A message is answered by the guardrail or by the agent of the conversation's
\* type, whatever earlier and overlapping turns have left in the checkpoint.
THEOREM AnswerCorrect == Spec => []AnsweredByTheRightHand
<1>1. GraphInv => AnsweredByTheRightHand
  BY DEF GraphInv, TurnInv, AnsweredByTheRightHand, LastOf
<1> QED
  BY <1>1, GraphCorrect, PTL

\* There is an edge for whatever a channel holds when it is asked, and it leads
\* to an agent of this conversation (base_edges).
THEOREM EdgesCorrect == Spec => []EdgesLeadHome
<1>1. GraphInv => EdgesLeadHome
  BY DEF GraphInv, TurnInv, EdgesLeadHome
<1> QED
  BY <1>1, GraphCorrect, PTL

-----------------------------------------------------------------------------
(***************************************************************************)
(* What is remembered of turns that come one after the other.  The turn    *)
(* under way and the checkpoint then agree, which overlapping turns break: *)
(* each saves the channels it began with over what the other has added.    *)
(***************************************************************************)

OneIsBusy == \A v, w \in Workers : node[v] # "idle" /\ node[w] # "idle" => v = w

\* The two seeds of a hand-over are where they were put.
Opened(messages) ==
    /\ {1, 2} \subseteq DOMAIN messages
    /\ \A i \in {1, 2} : messages[i] = [by |-> "seed", turn |-> 0]

\* The message of an answered turn is among the messages, and its answer after it.
Remembers(messages, entry) ==
    \E j, k \in DOMAIN messages :
        j < k /\ messages[j] = Human(entry.turn) /\ messages[k] = entry.answer

\* What a row of the table says is there, or stood for.
Kept(messages, entry) ==
    IF entry.turn = 0 THEN Opened(messages) ELSE Remembers(messages, entry)

\* The table is in the order of the turns, and the checkpoint remembers all of it.
TableInv ==
    /\ \A i \in DOMAIN table : Kept(memory.messages, table[i]) /\ table[i].turn <= turns
    /\ \A h, i \in DOMAIN table : h < i => table[h].turn < table[i].turn

\* The turn under way is the latest one, not answered yet, and the checkpoint is
\* what the turn knows, its message included.
TurnIsSaved(w) ==
    node[w] # "idle" =>
        /\ memory = channels[w]
        /\ turn[w] = turns /\ turns > 0
        /\ \A i \in DOMAIN table : table[i].turn < turns
        /\ \E j \in DOMAIN memory.messages :
            memory.messages[j] = Human(turns) /\ (node[w] = "end" => j < Len(memory.messages))

\* A refused message is followed by the apology.
Marked(messages, ts) ==
    \A i \in DOMAIN messages :
        messages[i].by = "human" /\ messages[i].turn \in ts =>
            i < Len(messages) /\ messages[i + 1] = [by |-> "guardrail", turn |-> messages[i].turn]

\* Refused messages are marked in the checkpoint, where no turn is from the future
\* and the one the guardrail is about to judge comes only at the end.
MarksInv ==
    LET messages == memory.messages
    IN  /\ Marked(messages, refused)
        /\ \A t \in refused : t <= turns
        /\ \A i \in DOMAIN messages : messages[i].turn <= turns
        /\ \A w \in Workers : node[w] = "guard" =>
            \A i \in DOMAIN messages : i < Len(messages) => messages[i].turn < turns

AloneInv ==
    ~overlapped => OneIsBusy /\ TableInv /\ MarksInv /\ \A w \in Workers : TurnIsSaved(w)

\* The elements of a sequence.
LEMMA Elements ==
  ASSUME NEW S, NEW s \in Seq(S) PROVE \A i \in DOMAIN s : s[i] \in S
  OBVIOUS

\* What is remembered stays so when a message is added.
LEMMA AddRemembers ==
  ASSUME NEW messages \in Seq(Message), NEW message \in Message
  PROVE  /\ \A entry : Kept(messages, entry) => Kept(Add(messages, message), entry)
         /\ \A j \in DOMAIN messages : /\ j \in DOMAIN Add(messages, message)
                                       /\ Add(messages, message)[j] = messages[j]
                                       /\ j < Len(Add(messages, message))
         /\ Len(Add(messages, message)) \in DOMAIN Add(messages, message)
         /\ Add(messages, message)[Len(Add(messages, message))] = message
<1>1. /\ \A j \in DOMAIN messages : /\ j \in DOMAIN Add(messages, message)
                                    /\ Add(messages, message)[j] = messages[j]
                                    /\ j < Len(Add(messages, message))
      /\ Len(Add(messages, message)) \in DOMAIN Add(messages, message)
      /\ Add(messages, message)[Len(Add(messages, message))] = message
  BY DEF Add
<1>2. ASSUME NEW entry, Kept(messages, entry) PROVE Kept(Add(messages, message), entry)
  <2>1. Remembers(messages, entry) => Remembers(Add(messages, message), entry)
    BY <1>1 DEF Remembers
  <2>2. Opened(messages) => Opened(Add(messages, message))
    BY <1>1 DEF Opened
  <2> QED
    BY <1>2, <2>1, <2>2 DEF Kept
<1> QED
  BY <1>1, <1>2

\* A step of turn w that saves nothing, while every other one is over.
LEMMA AloneQuiet ==
  ASSUME GraphInv, OneIsBusy, OneIsBusy', TableInv, NEW w \in Workers, node[w] # "idle",
         TurnIsSaved(w), UNCHANGED <<memory, table, turns, channels, turn>>,
         \A v \in Workers \ {w} : node'[v] = node[v], node'[w] # "end"
  PROVE  TableInv' /\ \A v \in Workers : TurnIsSaved(v)'
<1>1. TableInv'
  BY DEF TableInv
<1>2. \A v \in Workers \ {w} : node'[v] = "idle"
  BY DEF OneIsBusy
<1>3. TurnIsSaved(w)'
  BY DEF TurnIsSaved
<1> QED
  BY <1>1, <1>2, <1>3 DEF TurnIsSaved

\* A node that is done and has added a message, or that does not end the turn.
LEMMA AloneComplete ==
  ASSUME GraphInv, OneIsBusy, TableInv, NEW w \in Workers, node[w] # "idle", TurnIsSaved(w),
         NEW chs, NEW next, Complete(w, chs, next),
         \/ chs.messages = channels[w].messages /\ next # "end"
         \/ \E message \in Message : chs.messages = Add(channels[w].messages, message)
  PROVE  TableInv' /\ \A v \in Workers : TurnIsSaved(v)'
<1>1. /\ memory' = chs /\ channels'[w] = chs /\ node'[w] = next
      /\ UNCHANGED <<table, turns, turn>>
      /\ \A v \in Workers \ {w} : node'[v] = "idle"
  BY DEF Complete, GraphInv, TypeOK, OneIsBusy
<1>2. memory = channels[w] /\ memory.messages \in Seq(Message)
  BY DEF TurnIsSaved, GraphInv, TypeOK, Channels
<1>3. CASE chs.messages = channels[w].messages /\ next # "end"
  BY <1>1, <1>2, <1>3 DEF TableInv, TurnIsSaved
<1>4. ASSUME NEW message \in Message, chs.messages = Add(channels[w].messages, message)
      PROVE  TableInv' /\ \A v \in Workers : TurnIsSaved(v)'
  <2>1. memory'.messages = Add(memory.messages, message)
    BY <1>1, <1>2, <1>4
  <2>2. TableInv'
    BY <1>1, <1>2, <2>1, AddRemembers DEF TableInv
  <2>3. PICK j \in DOMAIN memory.messages : memory.messages[j] = Human(turns)
    BY DEF TurnIsSaved
  <2>4. /\ j \in DOMAIN memory'.messages /\ memory'.messages[j] = Human(turns)
        /\ j < Len(memory'.messages)
    BY <1>2, <2>1, <2>3, AddRemembers
  <2>5. TurnIsSaved(w)'
    BY <1>1, <2>4 DEF TurnIsSaved
  <2> QED
    BY <1>1, <2>2, <2>5 DEF TurnIsSaved
<1> QED
  BY <1>3, <1>4

\* A turn starts from the checkpoint that the turns before it have left.
LEMMA AloneBegin ==
  ASSUME GraphInv, OneIsBusy', TableInv, NEW w \in Workers, BeginTurn(w)
  PROVE  TableInv' /\ \A v \in Workers : TurnIsSaved(v)'
<1> DEFINE message == Human(turns + 1)
<1>1. /\ memory' = Input(memory, turns + 1) /\ channels'[w] = memory' /\ node'[w] = "guard"
      /\ turns' = turns + 1 /\ turn'[w] = turns'
      /\ UNCHANGED table
      /\ turns < MaxTurns
  BY DEF BeginTurn, GraphInv, TypeOK
<1>2. \A v \in Workers \ {w} : node'[v] = "idle"
  BY <1>1 DEF OneIsBusy
<1>3. memory.messages \in Seq(Message) /\ turns \in Nat
  BY ConstantsAssumption DEF GraphInv, TypeOK, Channels, Turns
<1>4. message \in Message
  BY <1>1, <1>3, ConstantsAssumption DEF Human, Message, Authors, Turns
<1>5. memory'.messages = Add(memory.messages, message)
  BY <1>1 DEF Input, Human, GraphInv, TypeOK, Channels
<1>6. \A i \in DOMAIN table : table[i].turn \in Nat
  <2>1. \A i \in DOMAIN table : table[i] \in [turn : Turns, answer : Message]
    BY Elements DEF GraphInv, TypeOK
  <2>2. \A e \in [turn : Turns, answer : Message] : e.turn \in Nat
    BY ConstantsAssumption DEF Turns
  <2> QED
    BY <2>1, <2>2
<1> HIDE DEF message
<1>7. TableInv'
  BY <1>1, <1>3, <1>4, <1>5, <1>6, AddRemembers DEF TableInv
<1>8. \E j \in DOMAIN memory'.messages : memory'.messages[j] = Human(turns')
  BY <1>1, <1>3, <1>4, <1>5, AddRemembers DEF message
<1>9. \A i \in DOMAIN table' : table'[i].turn < turns'
  BY <1>1, <1>3, <1>6 DEF TableInv
<1>10. TurnIsSaved(w)'
  BY <1>1, <1>3, <1>8, <1>9 DEF TurnIsSaved
<1> QED
  BY <1>2, <1>7, <1>10 DEF TurnIsSaved

\* The answer that is recorded is the last message of the checkpoint, and the one
\* it answers is before it.
LEMMA AloneRecord ==
  ASSUME GraphInv, OneIsBusy, TableInv, NEW w \in Workers, TurnIsSaved(w), Record(w)
  PROVE  TableInv' /\ \A v \in Workers : TurnIsSaved(v)'
<1> DEFINE messages == channels[w].messages
           entry == [turn |-> turn[w], answer |-> messages[Len(messages)]]
<1>1. /\ node[w] = "end" /\ node'[w] = "idle" /\ table' = Append(table, entry)
      /\ UNCHANGED <<memory, turns, channels, turn>>
      /\ \A v \in Workers \ {w} : node'[v] = node[v]
  BY DEF Record, GraphInv, TypeOK
<1>2. \A v \in Workers : node'[v] = "idle"
  BY <1>1 DEF OneIsBusy
<1>3. /\ memory = channels[w] /\ turn[w] = turns /\ turns \in Nat /\ turns > 0
      /\ messages \in Seq(Message)
      /\ \A i \in DOMAIN table : table[i].turn < turns
  BY <1>1, ConstantsAssumption DEF TurnIsSaved, GraphInv, TypeOK, Channels, Turns
<1>4. PICK j \in DOMAIN messages : messages[j] = Human(turns) /\ j < Len(messages)
  BY <1>1, <1>3 DEF TurnIsSaved
<1>5. Kept(messages, entry) /\ entry.turn = turns
  BY <1>3, <1>4 DEF Kept, Remembers
<1>6. /\ table \in Seq([turn : Turns, answer : Message])
      /\ entry \in [turn : Turns, answer : Message]
  BY <1>3, <1>4 DEF GraphInv, TypeOK
<1> HIDE DEF entry, messages
<1>7. /\ DOMAIN table' = 1..(Len(table) + 1) /\ Len(table) \in Nat
      /\ DOMAIN table = 1..Len(table)
      /\ \A i \in DOMAIN table : table'[i] = table[i]
      /\ table'[Len(table) + 1] = entry
  BY <1>1, <1>6
<1>8. ASSUME NEW i \in DOMAIN table'
      PROVE  Kept(memory'.messages, table'[i]) /\ table'[i].turn <= turns'
  <2>1. CASE i \in DOMAIN table
    BY <1>1, <1>7, <2>1 DEF TableInv
  <2>2. CASE i = Len(table) + 1
    BY <1>1, <1>3, <1>5, <1>7, <2>2 DEF messages
  <2> QED
    BY <1>7, <2>1, <2>2
<1>9. ASSUME NEW h \in DOMAIN table', NEW i \in DOMAIN table', h < i
      PROVE  table'[h].turn < table'[i].turn
  <2>1. h \in DOMAIN table /\ (i \in DOMAIN table \/ i = Len(table) + 1)
    BY <1>7, <1>9
  <2> QED
    BY <1>3, <1>5, <1>7, <1>9, <2>1 DEF TableInv
<1>10. TableInv'
  BY <1>8, <1>9 DEF TableInv
<1> QED
  BY <1>2, <1>10 DEF TurnIsSaved

\* Every step that leaves at most one turn under way keeps what is remembered.
LEMMA AloneNext ==
  ASSUME GraphInv, OneIsBusy, OneIsBusy', TableInv, \A v \in Workers : TurnIsSaved(v),
         [Next]_vars
  PROVE  TableInv' /\ \A v \in Workers : TurnIsSaved(v)'
<1>t. \A w \in Workers, agent \in Agents \cup {"guardrail"} :
        [by |-> agent, turn |-> turn[w]] \in Message
  BY DEF GraphInv, TypeOK, Message, Authors
<1>r. \A w \in Workers : channels[w] \in Channels
  BY DEF GraphInv, TypeOK
<1>s. ASSUME NEW w \in Workers, node[w] # "idle", Stop(w)
      PROVE  TableInv' /\ \A v \in Workers : TurnIsSaved(v)'
  <2>1. /\ UNCHANGED <<memory, table, turns, channels, turn>>
        /\ node'[w] = "idle"
        /\ \A v \in Workers \ {w} : node'[v] = node[v]
    BY <1>s DEF Stop, GraphInv, TypeOK
  <2> QED
    BY <1>s, <2>1, AloneQuiet
<1>1. ASSUME NEW w \in Workers, BeginTurn(w)
      PROVE  TableInv' /\ \A v \in Workers : TurnIsSaved(v)'
  BY <1>1, AloneBegin
<1>2. ASSUME NEW w \in Workers, GuardPasses(w)
      PROVE  TableInv' /\ \A v \in Workers : TurnIsSaved(v)'
  <2>1. /\ UNCHANGED <<memory, table, turns, channels, turn>>
        /\ node[w] = "guard" /\ node'[w] = "find_app"
        /\ \A v \in Workers \ {w} : node'[v] = node[v]
    BY <1>2 DEF GuardPasses, Runs, GraphInv, TypeOK
  <2> QED
    BY <2>1, AloneQuiet
<1>3. ASSUME NEW w \in Workers, GuardRejects(w)
      PROVE  TableInv' /\ \A v \in Workers : TurnIsSaved(v)'
  <2> DEFINE message == [by |-> "guardrail", turn |-> turn[w]]
             chs == [channels[w] EXCEPT !.sender = "entry_point",
                                        !.messages = Add(@, message),
                                        !.conv_type = "FAILED_GUARD"]
  <2>1. /\ Complete(w, chs, Follow(AfterEntryPoint, chs.conv_type))
        /\ node[w] # "idle"
    BY <1>3 DEF GuardRejects, Runs
  <2>2. chs.messages = Add(channels[w].messages, message) /\ message \in Message
    BY <1>t, <1>r DEF Channels
  <2> HIDE DEF chs, message
  <2> QED
    BY <2>1, <2>2, AloneComplete
<1>4. ASSUME NEW w \in Workers, FindApp(w) \/ FindAppUnparsed(w)
      PROVE  TableInv' /\ \A v \in Workers : TurnIsSaved(v)'
  <2>1. PICK chs : /\ Complete(w, chs, Follow(AfterEntryPoint, chs.conv_type))
                   /\ chs.messages = channels[w].messages
                   /\ chs.conv_type = channels[w].conv_type
    <3>1. CASE FindApp(w)
      <4>1. PICK app \in {"unknown", "known"} :
                LET chs == [channels[w] EXCEPT !.sender = "entry_point", !.app = app]
                IN  Complete(w, chs, Follow(AfterEntryPoint, chs.conv_type))
        BY <3>1 DEF FindApp
      <4> DEFINE chs == [channels[w] EXCEPT !.sender = "entry_point", !.app = app]
      <4>2. chs.messages = channels[w].messages /\ chs.conv_type = channels[w].conv_type
        BY <1>r DEF Channels
      <4>3. Complete(w, chs, Follow(AfterEntryPoint, chs.conv_type))
        BY <4>1
      <4> HIDE DEF chs
      <4> QED
        BY <4>2, <4>3
    <3>2. CASE FindAppUnparsed(w)
      <4> DEFINE chs == [channels[w] EXCEPT !.sender = "entry_point"]
      <4>1. chs.messages = channels[w].messages /\ chs.conv_type = channels[w].conv_type
        BY <1>r DEF Channels
      <4>2. Complete(w, chs, Follow(AfterEntryPoint, chs.conv_type))
        BY <3>2 DEF FindAppUnparsed
      <4> HIDE DEF chs
      <4> QED
        BY <4>1, <4>2
    <3> QED
      BY <1>4, <3>1, <3>2
  <2>2. node[w] = "find_app" /\ chs.conv_type = type /\ type \in Types
    BY <1>4, <2>1 DEF FindApp, FindAppUnparsed, Runs, GraphInv, TurnInv, TypeOK
  <2>3. Follow(AfterEntryPoint, chs.conv_type) # "end"
    BY <2>2 DEF Follow, AfterEntryPoint, Types
  <2> QED
    BY <2>1, <2>2, <2>3, AloneComplete
<1>5. ASSUME NEW w \in Workers, NEW agent \in Agents, NEW chs, NEW next, node[w] = agent,
             Complete(w, chs, next), chs.messages = Said(w, agent)
      PROVE  TableInv' /\ \A v \in Workers : TurnIsSaved(v)'
  <2>1. node[w] # "idle"
    BY <1>5 DEF Agents
  <2>2. \E message \in Message : chs.messages = Add(channels[w].messages, message)
    BY <1>5, <1>t DEF Said
  <2> QED
    BY <1>5, <2>1, <2>2, AloneComplete
<1>6. ASSUME NEW w \in Workers, NEW agent \in {"Information", "DataOwner"}, AgentAnswers(w, agent)
      PROVE  TableInv' /\ \A v \in Workers : TurnIsSaved(v)'
  <2> DEFINE chs == [channels[w] EXCEPT !.messages = Said(w, agent), !.sender = agent]
  <2>1. PICK next \in {"Recommender", "end"} : Complete(w, chs, next)
    BY <1>6 DEF AgentAnswers
  <2>2. chs.messages = Said(w, agent) /\ node[w] = agent
    BY <1>6, <1>r DEF Channels, AgentAnswers, Runs
  <2> HIDE DEF chs
  <2> QED
    BY <2>1, <2>2, <1>5 DEF Agents
<1>7. ASSUME NEW w \in Workers, RecommenderAnswers(w)
      PROVE  TableInv' /\ \A v \in Workers : TurnIsSaved(v)'
  <2> DEFINE chs == [channels[w] EXCEPT !.messages = Said(w, "Recommender")]
  <2>1. Complete(w, chs, Follow(AfterRecommender, chs.sender))
    BY <1>7 DEF RecommenderAnswers
  <2>2. chs.messages = Said(w, "Recommender") /\ node[w] = "Recommender"
    BY <1>7, <1>r DEF Channels, RecommenderAnswers, Runs
  <2> HIDE DEF chs
  <2> QED
    BY <2>1, <2>2, <1>5 DEF Agents
<1>8. ASSUME NEW w \in Workers, Record(w)
      PROVE  TableInv' /\ \A v \in Workers : TurnIsSaved(v)'
  BY <1>8, AloneRecord
<1>9. ASSUME NEW w \in Workers, KeyMissing(w) \/ OutOfSteps(w) \/ Fail(w)
      PROVE  TableInv' /\ \A v \in Workers : TurnIsSaved(v)'
  BY <1>9, <1>s DEF KeyMissing, OutOfSteps, Fail, Agents
<1>10. CASE UNCHANGED vars
  BY <1>10 DEF vars, TableInv, TurnIsSaved
<1> QED
  BY <1>1, <1>2, <1>3, <1>4, <1>6, <1>7, <1>8, <1>9, <1>10 DEF Next, Step, Quiet

-----------------------------------------------------------------------------

\* A message that was not refused leaves the marks as they are.
LEMMA AddMarks ==
  ASSUME NEW messages \in Seq(Message), NEW message \in Message, NEW ts, Marked(messages, ts),
         message.by # "human" \/ message.turn \notin ts
  PROVE  Marked(Add(messages, message), ts)
<1> DEFINE more == Add(messages, message)
<1>1. /\ Len(messages) \in Nat /\ Len(more) = Len(messages) + 1
      /\ DOMAIN messages = 1..Len(messages) /\ DOMAIN more = 1..(Len(messages) + 1)
      /\ \A i \in DOMAIN messages : more[i] = messages[i]
      /\ more[Len(messages) + 1] = message
  BY DEF Add
<1> HIDE DEF more
<1>2. Marked(more, ts)
  BY <1>1 DEF Marked
<1> QED
  BY <1>2 DEF more

\* The apology marks the message it comes after.
LEMMA ApologyMarks ==
  ASSUME NEW messages \in Seq(Message), NEW ts, NEW t, Marked(messages, ts),
         [by |-> "guardrail", turn |-> t] \in Message,
         messages # <<>>, LastOf(messages) = Human(t),
         \A i \in DOMAIN messages : i < Len(messages) => messages[i].turn # t
  PROVE  Marked(Add(messages, [by |-> "guardrail", turn |-> t]), ts \cup {t})
<1> DEFINE message == [by |-> "guardrail", turn |-> t]
           more == Add(messages, message)
<1>1. /\ Len(messages) \in Nat /\ Len(more) = Len(messages) + 1
      /\ DOMAIN messages = 1..Len(messages) /\ DOMAIN more = 1..(Len(messages) + 1)
      /\ \A i \in DOMAIN messages : more[i] = messages[i]
      /\ more[Len(messages) + 1] = message
  BY DEF Add
<1> HIDE DEF more
<1> SUFFICES ASSUME NEW i \in DOMAIN more, more[i].by = "human", more[i].turn \in ts \cup {t}
             PROVE  i < Len(more) /\ more[i + 1] = [by |-> "guardrail", turn |-> more[i].turn]
  BY DEF Marked, more
<1>2. i \in DOMAIN messages /\ more[i] = messages[i]
  BY <1>1
<1>3. CASE i = Len(messages)
  BY <1>1, <1>2, <1>3 DEF LastOf, Human
<1>4. CASE i < Len(messages)
  BY <1>1, <1>2, <1>4 DEF Marked
<1> QED
  BY <1>1, <1>2, <1>3, <1>4

\* Every step that leaves at most one turn under way keeps the marks.
LEMMA MarksNext ==
  ASSUME GraphInv, OneIsBusy, MarksInv, \A v \in Workers : TurnIsSaved(v),
         OneIsBusy', [Next]_vars
  PROVE  MarksInv'
<1>t. \A w \in Workers, agent \in Agents \cup {"guardrail"} :
        [by |-> agent, turn |-> turn[w]] \in Message
  BY DEF GraphInv, TypeOK, Message, Authors
<1>r. /\ \A w \in Workers : channels[w] \in Channels
      /\ memory \in Channels /\ memory.messages \in Seq(Message)
      /\ turns \in Nat
      /\ \A t \in Turns : t \in Nat
  BY ConstantsAssumption DEF GraphInv, TypeOK, Channels, Turns
<1>e. \A i \in DOMAIN memory.messages : memory.messages[i].turn \in Nat
  <2>1. \A m \in Message : m.turn \in Nat
    BY <1>r DEF Message
  <2> QED
    BY <1>r, <2>1, Elements
<1>1. ASSUME UNCHANGED <<memory, turns, refused>>,
             \A v \in Workers : node'[v] = "guard" => node[v] = "guard"
      PROVE  MarksInv'
  BY <1>1 DEF MarksInv
<1>2. ASSUME NEW w \in Workers, NEW chs, NEW next, node[w] # "idle", node[w] # "guard",
             Complete(w, chs, next), next # "guard", UNCHANGED refused,
             \/ chs.messages = channels[w].messages
             \/ \E agent \in Agents :
                    chs.messages = Add(channels[w].messages, [by |-> agent, turn |-> turn[w]])
      PROVE  MarksInv'
  <2>1. /\ memory' = chs /\ memory = channels[w] /\ turn[w] = turns /\ turns' = turns
        /\ \A v \in Workers : node'[v] = "guard" => node[v] = "guard"
    BY <1>2 DEF TurnIsSaved, Complete, GraphInv, TypeOK
  <2>2. \A v \in Workers : node'[v] # "guard"
    BY <1>2, <2>1 DEF OneIsBusy
  <2>3. CASE chs.messages = channels[w].messages
    BY <1>2, <2>1, <2>3 DEF MarksInv
  <2>4. ASSUME NEW agent \in Agents,
               chs.messages = Add(channels[w].messages, [by |-> agent, turn |-> turn[w]])
        PROVE  MarksInv'
    <3> DEFINE message == [by |-> agent, turn |-> turns]
    <3>1. message \in Message /\ message.by # "human" /\ message.turn = turns
      BY <1>t, <2>1 DEF Agents
    <3>2. memory'.messages = Add(memory.messages, message)
      BY <2>1, <2>4
    <3> HIDE DEF message
    <3>3. Marked(memory'.messages, refused)
      BY <1>r, <3>1, <3>2, AddMarks DEF MarksInv
    <3>4. \A i \in DOMAIN memory'.messages : memory'.messages[i].turn <= turns
      BY <1>r, <3>1, <3>2 DEF MarksInv, Add
    <3> QED
      BY <1>2, <2>1, <2>2, <3>3, <3>4 DEF MarksInv
  <2> QED
    BY <1>2, <2>3, <2>4
<1>3. ASSUME NEW w \in Workers, BeginTurn(w) PROVE MarksInv'
  <2> DEFINE message == Human(turns + 1)
  <2>1. /\ memory' = Input(memory, turns + 1) /\ turns' = turns + 1
        /\ turns + 1 \in Turns /\ UNCHANGED refused
    BY <1>3, <1>r, ConstantsAssumption DEF BeginTurn, Turns
  <2>2. message \in Message /\ message.turn = turns + 1
    BY <2>1 DEF Human, Message, Authors
  <2>3. memory'.messages = Add(memory.messages, message)
    BY <1>r, <2>1 DEF Input, Human, Channels
  <2> HIDE DEF message
  <2>4. turns + 1 \notin refused
    BY <1>r DEF MarksInv
  <2>5. Marked(memory'.messages, refused)
    BY <1>r, <2>2, <2>3, <2>4, AddMarks DEF MarksInv
  <2>6. /\ \A i \in DOMAIN memory'.messages : memory'.messages[i].turn <= turns + 1
        /\ \A i \in DOMAIN memory'.messages :
            i < Len(memory'.messages) => memory'.messages[i].turn < turns + 1
    BY <1>r, <1>e, <2>2, <2>3 DEF MarksInv, Add
  <2>7. \A t \in refused : t <= turns + 1
    BY <1>r DEF MarksInv, GraphInv, TypeOK
  <2> QED
    BY <2>1, <2>5, <2>6, <2>7 DEF MarksInv
<1>4. ASSUME NEW w \in Workers, GuardRejects(w) PROVE MarksInv'
  <2> DEFINE message == [by |-> "guardrail", turn |-> turns]
             chs == [channels[w] EXCEPT !.sender = "entry_point",
                                        !.messages = Add(@, message),
                                        !.conv_type = "FAILED_GUARD"]
  <2>1. /\ node[w] = "guard" /\ memory = channels[w] /\ turn[w] = turns
    BY <1>4 DEF GuardRejects, Runs, TurnIsSaved
  <2>2. Complete(w, chs, Follow(AfterEntryPoint, chs.conv_type)) /\ refused' = refused \cup {turns}
    BY <1>4, <2>1 DEF GuardRejects
  <2>3. chs.messages = Add(memory.messages, message) /\ chs.conv_type = "FAILED_GUARD"
    BY <1>r, <2>1 DEF Channels
  <2> HIDE DEF chs
  <2>4. /\ memory'.messages = Add(memory.messages, message) /\ turns' = turns
        /\ node' = [node EXCEPT ![w] = "end"]
    BY <2>2, <2>3 DEF Complete, Follow, AfterEntryPoint
  <2>5. message \in Message /\ message.turn = turns
    BY <1>t, <2>1
  <2>6. /\ memory.messages # <<>> /\ LastOf(memory.messages) = Human(turns)
        /\ \A i \in DOMAIN memory.messages :
            i < Len(memory.messages) => memory.messages[i].turn # turns
    <3>1. memory.messages # <<>> /\ LastOf(memory.messages) = Human(turns)
      BY <2>1 DEF GraphInv, ReadInv
    <3>2. \A i \in DOMAIN memory.messages :
            i < Len(memory.messages) => memory.messages[i].turn < turns
      BY <2>1 DEF MarksInv
    <3> QED
      BY <1>r, <1>e, <3>1, <3>2
  <2>7. Marked(memory'.messages, refused')
    BY <1>r, <2>2, <2>4, <2>5, <2>6, ApologyMarks DEF MarksInv
  <2> HIDE DEF message
  <2>8. \A i \in DOMAIN memory'.messages : memory'.messages[i].turn <= turns
    BY <1>r, <2>4, <2>5 DEF MarksInv, Add
  <2>9. \A t \in refused' : t <= turns
    BY <1>r, <2>2 DEF MarksInv
  <2>10. \A v \in Workers : node'[v] # "guard"
    BY <2>1, <2>4 DEF OneIsBusy, GraphInv, TypeOK
  <2> QED
    BY <2>4, <2>7, <2>8, <2>9, <2>10 DEF MarksInv
<1>5. ASSUME NEW w \in Workers, FindApp(w) PROVE MarksInv'
  <2>1. PICK app \in {"unknown", "known"} :
            LET chs == [channels[w] EXCEPT !.sender = "entry_point", !.app = app]
            IN  Complete(w, chs, Follow(AfterEntryPoint, chs.conv_type))
    BY <1>5 DEF FindApp
  <2> DEFINE chs == [channels[w] EXCEPT !.sender = "entry_point", !.app = app]
  <2>2. chs.messages = channels[w].messages
    BY <1>r DEF Channels
  <2>3. Complete(w, chs, Follow(AfterEntryPoint, chs.conv_type))
    BY <2>1
  <2> HIDE DEF chs
  <2>4. Follow(AfterEntryPoint, chs.conv_type) # "guard"
    BY DEF Follow, AfterEntryPoint
  <2> QED
    BY <1>2, <1>5, <2>2, <2>3, <2>4 DEF FindApp, Runs
<1>6. ASSUME NEW w \in Workers, FindAppUnparsed(w) PROVE MarksInv'
  <2> DEFINE chs == [channels[w] EXCEPT !.sender = "entry_point"]
  <2>2. chs.messages = channels[w].messages
    BY <1>r DEF Channels
  <2>3. Complete(w, chs, Follow(AfterEntryPoint, chs.conv_type))
    BY <1>6 DEF FindAppUnparsed
  <2> HIDE DEF chs
  <2>4. Follow(AfterEntryPoint, chs.conv_type) # "guard"
    BY DEF Follow, AfterEntryPoint
  <2> QED
    BY <1>2, <1>6, <2>2, <2>3, <2>4 DEF FindAppUnparsed, Runs
<1>7. ASSUME NEW w \in Workers, NEW agent \in {"Information", "DataOwner"}, AgentAnswers(w, agent)
      PROVE  MarksInv'
  <2> DEFINE chs == [channels[w] EXCEPT !.messages = Said(w, agent), !.sender = agent]
  <2>1. PICK next \in {"Recommender", "end"} : Complete(w, chs, next)
    BY <1>7 DEF AgentAnswers
  <2>2. chs.messages = Add(channels[w].messages, [by |-> agent, turn |-> turn[w]])
    BY <1>r DEF Channels, Said
  <2> HIDE DEF chs
  <2> QED
    BY <1>2, <1>7, <2>1, <2>2 DEF AgentAnswers, Runs, Agents
<1>8. ASSUME NEW w \in Workers, RecommenderAnswers(w) PROVE MarksInv'
  <2> DEFINE chs == [channels[w] EXCEPT !.messages = Said(w, "Recommender")]
  <2>1. Complete(w, chs, Follow(AfterRecommender, chs.sender))
    BY <1>8 DEF RecommenderAnswers
  <2>2. chs.messages = Add(channels[w].messages, [by |-> "Recommender", turn |-> turn[w]])
    BY <1>r DEF Channels, Said
  <2> HIDE DEF chs
  <2>3. Follow(AfterRecommender, chs.sender) # "guard"
    BY DEF Follow, AfterRecommender
  <2> QED
    BY <1>2, <1>8, <2>1, <2>2, <2>3 DEF RecommenderAnswers, Runs, Agents
<1>9. ASSUME NEW w \in Workers,
             GuardPasses(w) \/ Record(w) \/ KeyMissing(w) \/ OutOfSteps(w) \/ Fail(w)
      PROVE  MarksInv'
  BY <1>1, <1>9
  DEF GuardPasses, Record, KeyMissing, OutOfSteps, Fail, Stop, GraphInv, TypeOK
<1>10. CASE UNCHANGED vars
  BY <1>1, <1>10 DEF vars
<1> QED
  BY <1>3, <1>4, <1>5, <1>6, <1>7, <1>8, <1>9, <1>10 DEF Next, Step, Quiet

HistoryInv == GraphInv /\ AloneInv

\* What is said of one turn after the other holds as long as they are.
THEOREM HistoryCorrect == HistorySpec => []HistoryInv
<1>1. HistoryInit => HistoryInv
  <2> SUFFICES ASSUME HistoryInit PROVE HistoryInv
    OBVIOUS
  <2>1. OneIsBusy /\ \A w \in Workers : TurnIsSaved(w)
    BY DEF HistoryInit, Init, OneIsBusy, TurnIsSaved
  <2>2. TableInv
    <3>1. ASSUME type = "dataowner" PROVE Opened(memory.messages)
      BY <3>1 DEF HistoryInit, Init, Seeded, Fresh, Opened
    <3>2. /\ turns = 0
          /\ \A i \in DOMAIN table : i = 1 /\ table[i].turn = 0 /\ type = "dataowner"
      BY DEF HistoryInit, Init, OpeningTable
    <3> QED
      BY <3>1, <3>2 DEF TableInv, Kept
  <2>3. MarksInv
    <3>1. \A i \in DOMAIN memory.messages : memory.messages[i].turn <= turns
      BY DEF HistoryInit, Init, Seeded, Fresh
    <3> QED
      BY <3>1 DEF HistoryInit, Init, MarksInv, Marked
  <2> QED
    BY <2>1, <2>2, <2>3, GraphInit DEF HistoryInit, HistoryInv, AloneInv
<1>2. HistoryInv /\ [HistoryNext]_<<vars, overlapped>> => HistoryInv'
  <2> SUFFICES ASSUME HistoryInv, [HistoryNext]_<<vars, overlapped>> PROVE HistoryInv'
    OBVIOUS
  <2>1. GraphInv' /\ [Next]_vars
    BY GraphNext DEF HistoryInv, HistoryNext
  <2>2. ASSUME ~overlapped' PROVE ~overlapped /\ OneIsBusy'
    <3>1. CASE HistoryNext
      BY <2>2, <3>1 DEF HistoryNext, Overlap, OneIsBusy
    <3>2. CASE UNCHANGED <<vars, overlapped>>
      BY <2>2, <3>2 DEF HistoryInv, AloneInv, vars, OneIsBusy
    <3> QED
      BY <3>1, <3>2
  <2>3. AloneInv'
    BY <2>1, <2>2, AloneNext, MarksNext DEF HistoryInv, AloneInv
  <2> QED
    BY <2>1, <2>3 DEF HistoryInv
<1> QED
  BY <1>1, <1>2, PTL DEF HistorySpec

\* However many turns overlap, no agent answers a message that was not accepted,
\* and of the others it reads a guardrail was shown all but those behind its
\* window; as long as no two overlapped, the rejected ones are marked as rejected
\* (agent_node, entry_point_node).
THEOREM GuardrailCorrect == HistorySpec => []GuardrailIsHeeded
<1>1. HistoryInv => GuardrailIsHeeded
  <2> SUFFICES ASSUME HistoryInv PROVE GuardrailIsHeeded
    OBVIOUS
  <2>1. AgentsReadWhatWasJudged
    BY DEF HistoryInv, GraphInv, TurnInv, ReadInv, Judged, Human, AgentsReadWhatWasJudged
  <2>2. ASSUME ~overlapped PROVE RejectionsAreMarked
    <3> SUFFICES ASSUME NEW w \in Workers, node[w] \in Agents
                 PROVE  Marked(channels[w].messages, refused)
      BY DEF RejectionsAreMarked, Marked
    <3>1. memory = channels[w]
      BY <2>2 DEF HistoryInv, AloneInv, TurnIsSaved, Agents
    <3> QED
      BY <2>2, <3>1 DEF HistoryInv, AloneInv, MarksInv
  <2> QED
    BY <2>1, <2>2 DEF GuardrailIsHeeded
<1> QED
  BY <1>1, HistoryCorrect, PTL

\* While turns come one after the other, whatever fails in between, every answered
\* turn of the message table is in the last checkpoint, in order.
THEOREM HistoryIsKeptAlone == HistorySpec => []AloneHistoryIsRemembered
<1>1. HistoryInv => AloneHistoryIsRemembered
  <2> SUFFICES ASSUME HistoryInv, ~overlapped PROVE HistoryIsRemembered
    BY DEF AloneHistoryIsRemembered
  <2>1. TableInv
    BY DEF HistoryInv, AloneInv
  <2> DEFINE messages == memory.messages
             Place(by, t) == {i \in DOMAIN messages : messages[i] = [by |-> by, turn |-> t]}
  <2> SUFFICES ASSUME NEW i \in DOMAIN table
               PROVE  IF table[i].turn = 0
                      THEN {1, 2} \subseteq Place("seed", 0)
                      ELSE \E j \in Place("human", table[i].turn) :
                           \E k \in Place(table[i].answer.by, table[i].answer.turn) : j < k
    BY <2>1 DEF HistoryIsRemembered, TableInv
  <2>2. table[i] \in [turn : Turns, answer : Message]
    BY Elements DEF HistoryInv, GraphInv, TypeOK
  <2>3. table[i].answer = [by |-> table[i].answer.by, turn |-> table[i].answer.turn]
    BY <2>2 DEF Message
  <2>4. CASE table[i].turn = 0
    BY <2>1, <2>4 DEF TableInv, Kept, Opened
  <2>5. CASE table[i].turn # 0
    BY <2>1, <2>3, <2>5 DEF TableInv, Kept, Remembers, Human
  <2> QED
    BY <2>4, <2>5
<1> QED
  BY <1>1, HistoryCorrect, PTL

=============================================================================
