---------------------------- MODULE ConnectionPool ----------------------------
(***************************************************************************)
(* The pool of database connections.  A transaction has a connection from  *)
(* its start to its end, and the transactions of a turn are nested: that   *)
(* of the turn itself, in Slack, around that of a tool, around those which *)
(* the tool's own helpers open.  So whoever has connections waits for more *)
(* of them, until one is returned or the pool's timeout is over.           *)
(*                                                                         *)
(* A listener of Slack has a thread.  A request of the portal is a         *)
(* coroutine of the server's one event loop, which itself does only short  *)
(* work with the database: the dependencies' checks, the checkpoints, the  *)
(* messages.  It waits for their connection as a thread would, and with it *)
(* every other request.  What is not a coroutine runs in a thread of an    *)
(* executor: a route that is a plain function, and the nodes of the graph, *)
(* which have event loops of their own (nodes.py: agent_node,              *)
(* entry_point_node).  There the tools are called, and there they wait.    *)
(***************************************************************************)
EXTENDS Integers, FiniteSets

CONSTANTS
    Listeners,  \* threads that handle events of Slack
    Streams,    \* turns of the portal
    Routes,     \* other requests of the portal, and imports
    PoolSize    \* connections at most: pool_size and max_overflow

Coroutines == Streams \cup Routes
Users == Listeners \cup Coroutines

\* What is assumed of them (MCConnectionPool).  Five listeners by three connections
\* are what a pool of five and ten has.  A server has finitely many threads and
\* coroutines, and none of them is two.
ListenersHaveRoom ==
    /\ PoolSize \in Nat \ {0}
    /\ IsFiniteSet(Users)
    /\ Listeners \cap Coroutines = {}
    /\ Streams \cap Routes = {}
    /\ 3 * Cardinality(Listeners) <= PoolSize

VARIABLES
    pc,         \* what each user of the pool does
    at,         \* whether a coroutine is on the event loop or waits for its thread
    held        \* connections each of them has

vars == <<pc, at, held>>

\* The connections that are handed out: the first, second, ... of each user.
HandedOut == UNION {{u} \X (1..held[u]) : u \in Users}

Free == PoolSize - Cardinality(HandedOut)

OnLoop(u) == u \in Coroutines /\ at[u] = "loop"
InThread(u) == u \in Coroutines /\ at[u] = "thread"
InTool(u) == u \in Streams /\ at[u] = "thread"

\* Nothing on the event loop waits for a connection or is within a transaction, in
\* which nothing is awaited.
LoopIsFree == \A s \in Coroutines : OnLoop(s) => pc[s] # "want" /\ held[s] = 0

\* Who has come to the end of a step and can do the next one.
Runs(u) == pc[u] = "run" /\ (OnLoop(u) => held[u] > 0 \/ LoopIsFree)

\* Slip: the rules are judged before the transaction that has read them is over.
DepthOfJudging(u) ==
    CASE u \in Listeners -> 4 [] InTool(u) -> 3 [] OTHER -> 1

\* Connections that a user has at most.  answer keeps one for the whole turn, a
\* coroutine has returned its own when a thread begins.  request_access keeps one
\* while it awaits the rules' engine, the provisioning or the ticket, each of
\* which takes another one and returns it before it awaits anything.
Depth(u) ==
    CASE u \in Listeners -> 3 [] InTool(u) -> 2 [] OTHER -> 1

Goes(u, where, n) ==
    /\ pc' = [pc EXCEPT ![u] = where]
    /\ held' = [held EXCEPT ![u] = n]

\* A message or another request arrives, and needs a first connection.
Begin(u) ==
    /\ pc[u] = "idle"
    /\ u \in Coroutines => LoopIsFree
    /\ Goes(u, "want", 0)
    /\ UNCHANGED at

\* manage begins a further transaction inside those that are open.
Open(u) ==
    /\ Runs(u)
    /\ held[u] < Depth(u)
    /\ Goes(u, "want", held[u])
    /\ UNCHANGED at

\* engine.connect hands out a connection.
Connect(u) ==
    /\ pc[u] = "want"
    /\ Free > 0
    /\ Goes(u, "run", held[u] + 1)
    /\ UNCHANGED at

\* The innermost transaction ends and its connection is returned.
Close(u) ==
    /\ Runs(u)
    /\ held[u] > 0
    /\ Goes(u, "run", held[u] - 1)
    /\ UNCHANGED at

\* A turn comes to a node of the graph, or a request to a route that is a plain
\* function: the event loop hands it to a thread.
CallThread(s) ==
    /\ OnLoop(s)
    /\ Runs(s)
    /\ held[s] = 0
    /\ at' = [at EXCEPT ![s] = "thread"]
    /\ UNCHANGED <<pc, held>>

\* The function ends, or something is raised in it: with it its transactions.
EndThread(s) == InThread(s) /\ Runs(s) /\ Goes(s, "ready", 0) /\ UNCHANGED at

\* The event loop takes what has come of it.
Return(s) ==
    /\ pc[s] = "ready"
    /\ LoopIsFree
    /\ at' = [at EXCEPT ![s] = "loop"]
    /\ Goes(s, "run", 0)

\* The turn ends, or something is raised in it: with it every transaction.
Finish(u) ==
    /\ Runs(u)
    /\ ~InThread(u)
    /\ Goes(u, "idle", 0)
    /\ UNCHANGED at

\* Slip: whoever gets no connection in time asks once more.
TimeOutAndRetry(u) ==
    /\ pc[u] = "want"
    /\ Free = 0
    /\ Goes(u, "want", held[u])
    /\ UNCHANGED at

\* No connection in time.  What is raised ends every transaction up to whoever
\* catches it: request_access, whose own transaction ends with it and whose agent
\* learns that there is no ticket, or nobody, and the function or the turn is over.
TimeOut(u) ==
    /\ pc[u] = "want"
    /\ Free = 0
    /\ \/ Goes(u, IF InThread(u) THEN "ready" ELSE "idle", 0)
       \/ /\ held[u] > 0 /\ held[u] = Depth(u) - 1
          /\ Goes(u, "run", held[u] - 1)
    /\ UNCHANGED at

-----------------------------------------------------------------------------
Init ==
    /\ pc = [u \in Users |-> "idle"]
    /\ at = [s \in Coroutines |-> "loop"]
    /\ held = [u \in Users |-> 0]

Next ==
    \/ \E u \in Users :
          Begin(u) \/ Open(u) \/ Connect(u) \/ Close(u) \/ Finish(u) \/ TimeOut(u)
    \/ \E s \in Coroutines : CallThread(s) \/ EndThread(s) \/ Return(s)

Spec == Init /\ [][Next]_vars

\* The threads run, the event loop runs whatever is ready in turn, the pool's
\* timeout passes, and a turn or function that keeps running comes to its end: the
\* graph, its agents and their executors have limits.
FairSpec ==
    /\ Spec
    /\ \A u \in Users : WF_vars(Connect(u) \/ TimeOut(u)) /\ SF_vars(Finish(u))
    /\ \A s \in Coroutines : SF_vars(EndThread(s)) /\ SF_vars(Return(s))

-----------------------------------------------------------------------------
TypeOK ==
    /\ pc \in [Users -> {"idle", "want", "run", "ready"}]
    /\ at \in [Coroutines -> {"loop", "thread"}]
    /\ held \in [Users -> Nat]
    /\ \A u \in Users : held[u] <= Depth(u) /\ (pc[u] \in {"idle", "ready"} => held[u] = 0)
    /\ \A u \in Users : pc[u] = "ready" => InThread(u)
    /\ Free >= 0

\* Slack alone never exhausts the pool, however its turns nest: with nobody else in
\* the database, a listener that asks for a connection finds one.
SlackAloneNeverWaits ==
    (\A u \in Users \ Listeners : held[u] = 0) =>
        \A l \in Listeners : pc[l] = "want" => Free > 0

\* Nothing but the timeout helps: everybody who has a connection waits for another.
Knot == Free = 0 /\ \A u \in Users : held[u] > 0 => pc[u] = "want"

\* Listeners alone never tie it, nor does the event loop, however many turns wait
\* for it: a knot takes as many tools of the portal, each with a connection, as the
\* pool has connections beyond two for each listener.
KnotTakesTools ==
    Knot => Cardinality({s \in Streams : InTool(s) /\ held[s] > 0})
                >= PoolSize - 2 * Cardinality(Listeners)

\* The pool is large enough for Slack, and it takes that many tools of the portal to
\* keep its connections from being returned.
PoolHoldsOut == TypeOK /\ SlackAloneNeverWaits /\ KnotTakesTools

\* Every turn and every request ends, though it may wait for connections that
\* others have while they wait themselves: the timeout unties such a knot.
EverybodyIsServed == \A u \in Users : pc[u] # "idle" ~> pc[u] = "idle"

=============================================================================
