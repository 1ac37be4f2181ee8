--------------------------- MODULE MCConnectionPool ---------------------------
(***************************************************************************)
(* The instance of ConnectionPool that TLC explores, with names of its own *)
(* so that Resources_proofs can extend it along with the other resources.  *)
(***************************************************************************)
CONSTANTS
    Listeners, Streams, Routes, PoolSize

VARIABLES
    want,       \* pc of ConnectionPool
    at,
    held

Pool == INSTANCE ConnectionPool WITH pc <- want

ASSUME ListenersFit == Pool!ListenersHaveRoom

PoolSpec == Pool!Spec
PoolFairSpec == Pool!FairSpec

\* The pool is large enough for Slack, whose listeners alone never wait, and it takes
\* a tool of the portal for each connection beyond two a listener to keep all of them
\* from being returned: neither listeners nor the event loop tie such a knot alone
\* (SQLAlchemyTransactionContext, answer, agent_node, streaming).
PoolHoldsOut == Pool!PoolHoldsOut

\* Every turn and every request ends, though it waits for connections that others
\* have while they wait themselves: the pool's timeout unties the knot.
EverybodyIsServed == Pool!EverybodyIsServed

=============================================================================
