--------------------------- MODULE ConnectionPool ---------------------------
(***************************************************************************)
(* The connection pool of an attached ADBC database                        *)
(* (src/adbc_connection_pool.cpp) and the life of its connections.         *)
(*                                                                         *)
(* A client is one AdbcPooledConnection and the code that owns it: a       *)
(* catalog lookup, a scan, an INSERT, a transaction start.  The pool is    *)
(* shared: it lives while the catalog is attached, while a planned INSERT  *)
(* keeps a shared_ptr to it, and while a client holds one of its           *)
(* connections.  What runs under connection_mutex is one action.           *)
(***************************************************************************)
EXTENDS Integers, Sequences, FiniteSets

CONSTANTS
    Client,            \* owners of an AdbcPooledConnection
    Connection,        \* identities of AdbcConnection objects
    max_connections,   \* adbc_connection_pool_size when the database was attached
    None               \* no connection

\* adbc_connection_pool_size is validated to be positive when it is set.
ASSUME PoolAssumption ==
    /\ IsFiniteSet(Client)
    /\ None \notin Connection
    /\ max_connections \in Nat \ {0}

VARIABLES
    connections,         \* the idle connections, the last one is reused first
    active_connections,  \* count of the pool's connections that are lent
    lease,               \* the connection each client owns
    state,               \* of each client's AdbcPooledConnection
    open,                \* the connections that are open
    attached,            \* the catalog holds the pool
    planned              \* clients whose INSERT operator holds the pool

vars == <<connections, active_connections, lease, state, open, attached, planned>>

\* An AdbcPooledConnection is pooled or ephemeral; in "returning" it has given
\* its connection back but still has its shared_ptr to the pool.
States == {"none", "pooled", "ephemeral", "returning"}

Idle == {connections[i] : i \in 1..Len(connections)}
Pooled == {c \in Client : state[c] = "pooled"}

Init ==
    /\ connections = <<>>
    /\ active_connections = 0
    /\ lease = [c \in Client |-> None]
    /\ state = [c \in Client |-> "none"]
    /\ open = {}
    /\ attached = TRUE
    /\ planned = {}

-----------------------------------------------------------------------------
\* The client can call GetConnection: through the catalog, or through the
\* operator that was planned while the catalog was attached.
CanCall(c) == state[c] = "none" /\ (attached \/ c \in planned)

\* make_uniq<AdbcConnection>(uri) and what the client does with it.
OpenConnection(c, conn, pooled_or_ephemeral) ==
    /\ conn \in Connection \ open
    /\ open' = open \cup {conn}
    /\ lease' = [lease EXCEPT ![c] = conn]
    /\ state' = [state EXCEPT ![c] = pooled_or_ephemeral]

\* connections.pop_back()
FrontKept == connections
FrontTaken == SubSeq(connections, 1, Len(connections) - 1)

\* An idle connection is reused.
GetIdleConnection(c) ==
    /\ CanCall(c)
    /\ connections # <<>>
    /\ connections' = FrontTaken
    /\ active_connections' = active_connections + 1
    /\ lease' = [lease EXCEPT ![c] = connections[Len(connections)]]
    /\ state' = [state EXCEPT ![c] = "pooled"]
    /\ UNCHANGED <<open, attached, planned>>

\* The pool cannot grow further.
ExhaustedLate == active_connections > max_connections
Exhausted == active_connections = max_connections

\* No idle connection: the pool grows by one that is lent at once, or, when it
\* is exhausted, the client gets an ephemeral connection.
GetNewConnection(c, conn) ==
    /\ CanCall(c)
    /\ connections = <<>>
    /\ ~Exhausted
    /\ active_connections' = active_connections + 1
    /\ OpenConnection(c, conn, "pooled")
    /\ UNCHANGED <<connections, attached, planned>>

GetEphemeralFromPool(c, conn) ==
    /\ CanCall(c)
    /\ connections = <<>>
    /\ Exhausted
    /\ OpenConnection(c, conn, "ephemeral")
    /\ UNCHANGED <<connections, active_connections, attached, planned>>

\* read_adbc(uri, ...) and adbc_execute(uri, ...) use no pool at all.
GetEphemeralConnection(c, conn) ==
    /\ state[c] = "none"
    /\ OpenConnection(c, conn, "ephemeral")
    /\ UNCHANGED <<connections, active_connections, attached, planned>>

\* The AdbcConnection constructor throws: its handles release what was opened
\* and neither list nor count has changed yet.
ConnectFails(c) ==
    /\ CanCall(c)
    /\ connections = <<>>
    /\ UNCHANGED vars

-----------------------------------------------------------------------------
\* ~AdbcPooledConnection of a pooled connection: first ReturnConnection, under
\* the mutex ...
ReturnWithoutCount(c) ==
    /\ state[c] = "pooled"
    /\ connections' = Append(connections, lease[c])
    /\ lease' = [lease EXCEPT ![c] = None]
    /\ state' = [state EXCEPT ![c] = "returning"]
    /\ UNCHANGED <<active_connections, open, attached, planned>>
ReturnConnection(c) ==
    /\ state[c] = "pooled"
    /\ active_connections' = active_connections - 1
    /\ connections' = Append(connections, lease[c])
    /\ lease' = [lease EXCEPT ![c] = None]
    /\ state' = [state EXCEPT ![c] = "returning"]
    /\ UNCHANGED <<open, attached, planned>>

\* The pool has an owner besides the one that lets go.
OwnsItself(catalog_holds, operators, clients) == TRUE
StillReferenced(catalog_holds, operators, clients) ==
    \/ catalog_holds
    \/ operators # {}
    \/ \E c \in clients : state[c] \in {"pooled", "returning"}

\* A shared_ptr to the pool goes away; with the last one the pool is destroyed
\* and closes its idle connections.
ClosedWithTheCatalog(referenced) ==
    UNCHANGED connections /\ open' = open \ Idle
DropReference(referenced) ==
    \/ referenced /\ UNCHANGED <<connections, open>>
    \/ ~referenced /\ connections' = <<>> /\ open' = open \ Idle

\* ... then the shared_ptr of the AdbcPooledConnection is destroyed.
ReleasePool(c) ==
    /\ state[c] = "returning"
    /\ state' = [state EXCEPT ![c] = "none"]
    /\ DropReference(StillReferenced(attached, planned, Client \ {c}))
    /\ UNCHANGED <<active_connections, lease, attached, planned>>

\* ~AdbcPooledConnection of an ephemeral connection closes it.
CloseEphemeral(c) ==
    /\ state[c] = "ephemeral"
    /\ open' = open \ {lease[c]}
    /\ lease' = [lease EXCEPT ![c] = None]
    /\ state' = [state EXCEPT ![c] = "none"]
    /\ UNCHANGED <<connections, active_connections, attached, planned>>

-----------------------------------------------------------------------------
\* PlanInsert and PlanCreateTableAs copy the shared_ptr into the operator.
PlanInsert(c) ==
    /\ attached
    /\ c \notin planned
    /\ planned' = planned \cup {c}
    /\ UNCHANGED <<connections, active_connections, lease, state, open, attached>>

\* The operator is destroyed, after its AdbcInsertGlobalState.
DestroyPlan(c) ==
    /\ c \in planned
    /\ state[c] = "none"
    /\ planned' = planned \ {c}
    /\ DropReference(StillReferenced(attached, planned \ {c}, Client))
    /\ UNCHANGED <<active_connections, lease, state, attached>>

\* DETACH destroys the catalog.
Detach ==
    /\ attached
    /\ attached' = FALSE
    /\ DropReference(StillReferenced(FALSE, planned, Client))
    /\ UNCHANGED <<active_connections, lease, state, planned>>

-----------------------------------------------------------------------------
ClientNext(c) ==
    \/ GetIdleConnection(c)
    \/ \E conn \in Connection :
          \/ GetNewConnection(c, conn)
          \/ GetEphemeralFromPool(c, conn)
          \/ GetEphemeralConnection(c, conn)
    \/ ConnectFails(c)
    \/ ReturnConnection(c)
    \/ ReleasePool(c)
    \/ CloseEphemeral(c)
    \/ PlanInsert(c)
    \/ DestroyPlan(c)

Next == Detach \/ \E c \in Client : ClientNext(c)

Spec == Init /\ [][Next]_vars

\* A statement ends: its connection and, once that is gone, its operator are
\* destroyed.  Nothing is assumed of DETACH.
Unwind(c) == ReturnConnection(c) \/ ReleasePool(c) \/ CloseEphemeral(c)
FairSpec ==
    /\ Spec
    /\ \A c \in Client : WF_vars(Unwind(c)) /\ SF_vars(DestroyPlan(c))

-----------------------------------------------------------------------------
\* Every variable of the pool has its type; an idx_t count is never negative.
TypeOK ==
    /\ connections \in Seq(Connection)
    /\ active_connections \in Nat
    /\ lease \in [Client -> Connection \cup {None}]
    /\ state \in [Client -> States]
    /\ open \in SUBSET Connection
    /\ attached \in BOOLEAN
    /\ planned \in SUBSET Client

\* No connection has two owners: it is idle in one place of the pool or
\* belongs to one client (GetConnection, ReturnConnection).
ExclusiveLease ==
    /\ \A c, d \in Client : c # d /\ lease[c] # None => lease[c] # lease[d]
    /\ \A c \in Client : lease[c] \notin Idle
    /\ \A i, j \in 1..Len(connections) :
          connections[i] = connections[j] => i = j

\* Every open connection has an owner that will close it, and every owned
\* connection is open: nothing leaks and nothing is used after it was closed,
\* also when the catalog is detached before its clients are done.
OpenMeansOwned ==
    open = Idle \cup ({lease[c] : c \in Client} \ {None})

\* active_connections is the number of lent connections of the pool.
ActiveCountsLeases == active_connections = Cardinality(Pooled)

\* README "connection pool": the pool grows up to its limit; idle and lent
\* connections together never exceed adbc_connection_pool_size.
PoolBounded == Len(connections) + Cardinality(Pooled) <= max_connections

\* A pool that nobody references has no connections left.
UnreferencedPoolIsEmpty ==
    ~StillReferenced(attached, planned, Client) =>
        connections = <<>> /\ active_connections = 0

\* After DETACH the statements that still use the database end, and then the
\* pool has closed every connection it had.
DetachedPoolIsClosed == ~attached ~> (connections = <<>> /\ Pooled = {})
=============================================================================
