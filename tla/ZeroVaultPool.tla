---------------------------- MODULE ZeroVaultPool ----------------------------
(***************************************************************************)
(* The backend on its connection pool (database.py, create_async_engine).  *)
(*                                                                         *)
(* A session takes a connection at its first statement and keeps it, over  *)
(* bcrypt and over the response, until get_db has committed or rolled      *)
(* back.  The pool hands out an idle connection first, opens new ones up   *)
(* to pool_size + max_overflow, and then lets requests wait, 30 seconds at *)
(* most.  A connection can be lost at any time: PostgreSQL rolls its       *)
(* transaction back at once, the session learns of it at its next          *)
(* statement.  One that was lost while it was idle is found by the         *)
(* pre-ping and opened again when it is handed out.  Opening one fails     *)
(* while PostgreSQL takes no connections (it is down, it restarts, its     *)
(* max_connections are in use), and nothing handles that error.            *)
(*                                                                         *)
(* Every step is one of ZeroVaultApi or leaves its variables alone: the    *)
(* pool says when a request may go on and which statements fail.           *)
(*                                                                         *)
(* Definitions named ..Bug are faulty variants of the one they precede;    *)
(* nothing uses them.                                                      *)
(***************************************************************************)
EXTENDS ZeroVaultApi, FiniteSets

CONSTANTS
    PoolSize,     \* pool_size: so many idle connections are kept
    MaxOverflow   \* max_overflow: so many more are opened under load

VARIABLES
    conn,        \* each request's connection: "none", "live" or "dead"
    idle,        \* the number of idle connections, live and dead
    struck,      \* the requests whose connection was lost under them
    reachable    \* PostgreSQL takes new connections

poolVars == <<vars, conn, idle, struck, reachable>>

\* A pool_size of 0 would mean a pool without a limit.
ASSUME PoolAssumption ==
    /\ PoolSize \in Nat \ {0} /\ MaxOverflow \in Nat
    /\ {"statement", "commit"} \subseteq Faults

-----------------------------------------------------------------------------
(* The pool.                                                               *)

NoneIdle == [live |-> 0, dead |-> 0]

\* The process starts with one: main.py's lifespan opens a connection to
\* create the tables and gives it back.
OneIdle == [live |-> 1, dead |-> 0]

InUse == {r \in Requests : conn[r] # "none"}
Exhausted == Cardinality(InUse) >= PoolSize + MaxOverflow

\* A connection that is given back stays, unless pool_size are idle.
GivenBack(kind) ==
    IF idle.live + idle.dead < PoolSize THEN [idle EXCEPT ![kind] = @ + 1]
                                        ELSE idle

\* The next step of r is the first statement of its session.
NeedsConnection(r) ==
    /\ conn[r] = "none"
    /\ \/ pc[r] = "received" /\ req[r].op \notin VaultOps
       \/ pc[r] = "authorized"

LeakBug(r) ==
    LET over == pc'[r] \in {"committed", "lost"}
    IN /\ conn' = [conn EXCEPT ![r] = IF over THEN "none" ELSE "live"]
       /\ idle' = IF over THEN GivenBack("live") ELSE idle

\* After a step on a live connection: the session has closed and gives it
\* back, or keeps it.
KeepOrGiveBack(r) ==
    LET over == pc'[r] \in Finished
    IN /\ conn' = [conn EXCEPT ![r] = IF over THEN "none" ELSE "live"]
       /\ idle' = IF over THEN GivenBack("live") ELSE idle

-----------------------------------------------------------------------------
(* The steps of a request.                                                 *)

NoPrePingBug(r) ==
    /\ NeedsConnection(r)
    /\ ~Exhausted
    /\ \/ /\ idle.live > 0
          /\ idle' = [idle EXCEPT !.live = @ - 1]
          /\ conn' = [conn EXCEPT ![r] = "live"]
       \/ /\ idle.dead > 0
          /\ idle' = [idle EXCEPT !.dead = @ - 1]
          /\ conn' = [conn EXCEPT ![r] = "dead"]
       \/ /\ idle = NoneIdle /\ reachable
          /\ conn' = [conn EXCEPT ![r] = "live"]
          /\ UNCHANGED idle
    /\ UNCHANGED <<vars, struck, reachable>>

\* The session gets an idle connection, one that was found dead and opened
\* again, or a new one.
Checkout(r) ==
    /\ NeedsConnection(r)
    /\ ~Exhausted
    /\ \/ idle.live > 0 /\ idle' = [idle EXCEPT !.live = @ - 1]
       \/ idle.dead > 0 /\ reachable /\ idle' = [idle EXCEPT !.dead = @ - 1]
       \/ idle = NoneIdle /\ reachable /\ UNCHANGED idle
    /\ conn' = [conn EXCEPT ![r] = "live"]
    /\ UNCHANGED <<vars, struck, reachable>>

\* Connecting raises, for a new connection or for one that was found dead.
ConnectFails(r) ==
    /\ NeedsConnection(r)
    /\ ~Exhausted
    /\ ~reachable
    /\ idle.dead > 0 \/ idle = NoneIdle
    /\ StatementFails(r)
    /\ UNCHANGED <<conn, idle, struck, reachable>>

\* QueuePool raises TimeoutError, which nothing handles.
CheckoutTimeout(r) ==
    /\ NeedsConnection(r)
    /\ Exhausted
    /\ StatementFails(r)
    /\ UNCHANGED <<conn, idle, struck, reachable>>

\* The JWT check needs no connection.
WithoutConnection(r) ==
    /\ conn[r] = "none"
    /\ pc[r] = "received" /\ req[r].op \in VaultOps
    /\ ServerStep(r)
    /\ UNCHANGED <<conn, idle, struck, reachable>>

\* The handler goes on, or get_db commits.
Statement(r) ==
    /\ conn[r] = "live"
    /\ ServerStep(r)
    /\ KeepOrGiveBack(r)
    /\ UNCHANGED <<struck, reachable>>

\* What login does after bcrypt runs no statement: its answer can still go
\* out.
LoginOnDead(r) ==
    /\ conn[r] = "dead"
    /\ pc[r] = "verifying"
    /\ ServerStep(r)
    /\ UNCHANGED <<conn, idle, struck, reachable>>

\* The next statement, commit or rollback on a lost connection raises; the
\* pool takes it back, to be opened again.
Discard(r) ==
    /\ conn[r] = "dead"
    /\ \/ StatementFails(r)
       \/ CommitFails(r)
       \/ pc[r] \in Finished /\ UNCHANGED vars
    /\ conn' = [conn EXCEPT ![r] = "none"]
    /\ idle' = GivenBack("dead")
    /\ UNCHANGED <<struck, reachable>>

RequestStep(r) ==
    \/ Checkout(r) \/ ConnectFails(r) \/ CheckoutTimeout(r)
    \/ WithoutConnection(r) \/ Statement(r) \/ LoginOnDead(r) \/ Discard(r)

-----------------------------------------------------------------------------
(* What may happen to connections, and to statements on good ones.         *)

\* A statement, the commit or the executor's job raises and the connection
\* is not to blame: a value is out of the column's range, say.
StatementRaises(r) ==
    /\ conn[r] = "live"
    /\ StatementFails(r) \/ CommitFails(r)
    /\ KeepOrGiveBack(r)
    /\ UNCHANGED <<struck, reachable>>

ReconnectBug(r) ==
    /\ conn[r] = "live"
    /\ conn' = [conn EXCEPT ![r] = "dead"]
    /\ struck' = struck \cup {r}
    /\ IF pc[r] = "closing" THEN Close(r, "committed") /\ UNCHANGED db
                            ELSE UNCHANGED vars
    /\ UNCHANGED <<idle, reachable>>

\* A connection is lost while a request holds it.  What the request wrote is
\* rolled back, whether or not it has noticed.
LoseConnection(r) ==
    /\ conn[r] = "live"
    /\ conn' = [conn EXCEPT ![r] = "dead"]
    /\ struck' = struck \cup {r}
    /\ IF pc[r] = "closing" THEN CommitFails(r) ELSE UNCHANGED vars
    /\ UNCHANGED <<idle, reachable>>

\* An idle connection is lost, or the pool has written it off with another
\* one that it found dead.
LoseIdle ==
    /\ idle.live > 0
    /\ idle' = [live |-> idle.live - 1, dead |-> idle.dead + 1]
    /\ UNCHANGED <<vars, conn, struck, reachable>>

\* PostgreSQL stops taking connections, or takes them again.
Outage ==
    /\ reachable' = ~reachable
    /\ UNCHANGED <<vars, conn, idle, struck>>

\* The pool dies with the process, which starts again once it has connected.
PoolCrash ==
    /\ Crash
    /\ conn' = [r \in Requests |-> "none"]
    /\ idle' = OneIdle
    /\ reachable' = TRUE
    /\ UNCHANGED struck

-----------------------------------------------------------------------------

PoolInit ==
    /\ Init
    /\ conn = [r \in Requests |-> "none"]
    /\ idle = OneIdle
    /\ struck = {}
    /\ reachable = TRUE

PoolNext ==
    \/ \E r \in Requests :
           RequestStep(r) \/ StatementRaises(r) \/ LoseConnection(r)
    \/ LoseIdle
    \/ Outage
    \/ PoolCrash
    \/ /\ (\E r \in Requests : ClientStep(r)) \/ Tick
       /\ UNCHANGED <<conn, idle, struck, reachable>>

PoolSpec == PoolInit /\ [][PoolNext]_poolVars

\* The event loop, the executor, the database and asyncpg's connect timeout
\* go on with every request, and QueuePool ends a wait that lasts; nobody
\* owes a request, a failure or the end of an outage.
PoolFairSpec == PoolSpec /\ \A r \in Requests : WF_poolVars(RequestStep(r))

-----------------------------------------------------------------------------

\* The pool adds waiting and failing to the backend and nothing else: a
\* connection that is lost between the response and the commit, or taken
\* over from another request, shows nothing ZeroVaultApi does not allow.
ImplementsApi == Spec

\* A request is turned away for want of a working connection only if its own
\* was lost while it held it, PostgreSQL takes no new ones, or all there may
\* be were in the hands of others that are under way or were struck as well:
\* none is handed out dead ("Test connections before use; handles
\* disconnects", database.py:27) and every way out of get_db gives it back
\* ("ensures sessions are always closed, even on exceptions", 8-9).  Of a 500
\* that a statement on a good connection ends in it says nothing.
RefusalsForWantOfAConnection ==
    [][\A r \in Requests :
           (/\ conn[r] # "live"
            /\ pc'[r] # pc[r] /\ resp'[r] = [status |-> 500]) =>
               \/ r \in struck
               \/ ~reachable
               \/ LET busy == {q \in InUse : pc[q] \notin Finished
                                             \/ q \in struck}
                  IN Cardinality(busy) >= PoolSize + MaxOverflow]_poolVars

=============================================================================
