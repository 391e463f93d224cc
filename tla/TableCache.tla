----------------------------- MODULE TableCache -----------------------------
(***************************************************************************)
(* The table metadata of one schema of an attached database:               *)
(* AdbcSchemaEntry of src/adbc_schema_entry.cpp, with the planning and the *)
(* execution of CREATE TABLE AS, which also touch it.                      *)
(*                                                                         *)
(* Sessions use the entry concurrently; each critical section of           *)
(* tables_mutex that asks the remote database one question is one action.  *)
(* Scan asks several, so it holds the mutex over several steps, between    *)
(* which the remote database may change.                                   *)
(***************************************************************************)
CONSTANTS
    Session,     \* DuckDB connections
    Table,       \* table names
    None,        \* no session, no table
    Environment  \* the environments in which the schema entry is used: which
                 \* sessions, with which statements; which remote calls may
                 \* fail; do others create and drop tables of the schema?

ASSUME TableAssumption ==
    /\ None \notin Session \cup Table
    /\ Environment \subseteq
          [sessions : SUBSET Session,
           statements : SUBSET {"lookup", "scan", "create", "ctas"},
           failures : SUBSET {"request", "stream", "bind"},
           outsiders : BOOLEAN]

VARIABLES
    environment,    \* one of Environment, the same all the time
    remote,         \* of each name: absent (so far), live or dropped
    owned_tables,   \* the names with a cached AdbcTableEntry
    tables_loaded,  \* the cache claims to know every table
    tables_mutex,   \* the session whose Scan holds the mutex, or None
    table_names,    \* names that Scan has fetched and not yet bound
    statement,      \* what each session is doing
    table_name,     \* the table it is creating
    created         \* tables whose CREATE TABLE (AS) has succeeded, and
                    \* that were not dropped since

cache == <<owned_tables, tables_loaded>>
sessions == <<statement, table_name>>
vars == <<environment, remote, cache, tables_mutex, table_names, sessions, created>>

Live == {t \in Table : remote[t] = "live"}

Init ==
    /\ environment \in Environment
    /\ remote \in [Table -> {"absent", "live"}]
    /\ owned_tables = {}
    /\ tables_loaded = FALSE
    /\ tables_mutex = None
    /\ table_names = {}
    /\ statement = [s \in Session |-> "idle"]
    /\ table_name = [s \in Session |-> None]
    /\ created = {}

Starts(s, kind) ==
    /\ statement[s] = "idle"
    /\ s \in environment.sessions
    /\ kind \in environment.statements
MayFail(call) == call \in environment.failures
CanLock == tables_mutex = None

-----------------------------------------------------------------------------
\* The possible values of owned_tables after GetOrCreateTableEntryInternal(t):
\* a cached entry is returned, nothing is asked when the cache is complete, and
\* otherwise a SELECT on the table is bound.  Any exception means "no table".
BoundUnchecked(t, loaded) == {owned_tables \cup {t}}
GetOrCreateTableEntryInternal(t, loaded) ==
    IF t \in owned_tables \/ loaded \/ t \notin Live
    THEN {owned_tables}
    ELSE {owned_tables \cup {t}}
           \cup (IF MayFail("bind") THEN {owned_tables} ELSE {})

LookupEntry(s, t) ==
    /\ Starts(s, "lookup")
    /\ CanLock
    /\ owned_tables' \in GetOrCreateTableEntryInternal(t, tables_loaded)
    /\ UNCHANGED <<environment, remote, tables_loaded, tables_mutex,
                   table_names, sessions, created>>

-----------------------------------------------------------------------------
\* The names FetchTableNames may return.  The schema name is a pattern to ADBC,
\* so names of tables in other schemas may be among them, and a stream that
\* breaks off is taken for one that has ended.
FetchTableNames ==
    {names \in SUBSET Table : Live \subseteq names \/ MayFail("stream")}

\* Scan of a loaded schema calls back for the cached entries.
ScanLoaded(s) ==
    /\ Starts(s, "scan")
    /\ CanLock
    /\ tables_loaded
    /\ UNCHANGED vars

\* The request for the names fails and Scan throws: nothing is marked loaded.
ScanFailsMarkingLoaded(s) ==
    /\ Starts(s, "scan")
    /\ CanLock
    /\ ~tables_loaded
    /\ MayFail("request")
    /\ tables_loaded' = TRUE
    /\ UNCHANGED <<environment, remote, owned_tables, tables_mutex,
                   table_names, sessions, created>>
ScanFails(s) ==
    /\ Starts(s, "scan")
    /\ CanLock
    /\ ~tables_loaded
    /\ MayFail("request")
    /\ UNCHANGED vars

ScanFetchFromScratch(s) ==
    /\ Starts(s, "scan")
    /\ CanLock
    /\ ~tables_loaded
    /\ tables_mutex' = s
    /\ table_names' \in FetchTableNames
    /\ owned_tables' = {}
    /\ statement' = [statement EXCEPT ![s] = "scanning"]
    /\ UNCHANGED <<environment, remote, tables_loaded, table_name, created>>
ScanFetch(s) ==
    /\ Starts(s, "scan")
    /\ CanLock
    /\ ~tables_loaded
    /\ tables_mutex' = s
    /\ table_names' \in FetchTableNames
    /\ statement' = [statement EXCEPT ![s] = "scanning"]
    /\ UNCHANGED <<environment, remote, cache, table_name, created>>

ScanBind(s, t) ==
    /\ statement[s] = "scanning"
    /\ t \in table_names
    /\ table_names' = table_names \ {t}
    /\ owned_tables' \in GetOrCreateTableEntryInternal(t, FALSE)
    /\ UNCHANGED <<environment, remote, tables_loaded, tables_mutex, sessions,
                   created>>

ScanDone(s) ==
    /\ statement[s] = "scanning"
    /\ table_names = {}
    /\ tables_loaded' = TRUE
    /\ tables_mutex' = None
    /\ statement' = [statement EXCEPT ![s] = "idle"]
    /\ UNCHANGED <<environment, remote, owned_tables, table_names, table_name,
                   created>>

-----------------------------------------------------------------------------
\* The remote database creates a table only if the name is free.
RemoteCreated(t) ==
    /\ t \notin Live
    /\ remote' = [remote EXCEPT ![t] = "live"]

\* First critical section of CreateTable: the name is not cached, and the
\* ingest of an empty stream creates the table.
CreateTable(s, t) ==
    /\ Starts(s, "create")
    /\ CanLock
    /\ t \notin owned_tables
    /\ RemoteCreated(t)
    /\ statement' = [statement EXCEPT ![s] = "creating"]
    /\ table_name' = [table_name EXCEPT ![s] = t]
    /\ UNCHANGED <<environment, cache, tables_mutex, table_names, created>>

\* CreateTable throws: the name is cached or taken, or an ADBC call fails,
\* perhaps after the table was created.
CreateTableFails(s, t) ==
    /\ Starts(s, "create")
    /\ CanLock
    /\ \/ /\ t \in owned_tables \cup Live \/ MayFail("request")
          /\ UNCHANGED remote
       \/ /\ t \notin owned_tables
          /\ MayFail("request")
          /\ RemoteCreated(t)
    /\ UNCHANGED <<environment, cache, tables_mutex, table_names, sessions,
                   created>>

\* Second critical section of CreateTable: bind the new table and mark the
\* schema as loaded.
CreateTableReturnIfLoaded(s) ==
    /\ statement[s] = "creating"
    /\ CanLock
    /\ owned_tables' \in
          GetOrCreateTableEntryInternal(table_name[s], tables_loaded)
    /\ tables_loaded' = TRUE
    /\ created' = created \cup ({table_name[s]} \cap Live)
    /\ statement' = [statement EXCEPT ![s] = "idle"]
    /\ UNCHANGED <<environment, remote, tables_mutex, table_names, table_name>>
CreateTableReturn(s) ==
    /\ statement[s] = "creating"
    /\ CanLock
    /\ owned_tables' \in GetOrCreateTableEntryInternal(table_name[s], FALSE)
    /\ tables_loaded' = TRUE
    /\ created' = created \cup ({table_name[s]} \cap Live)
    /\ statement' = [statement EXCEPT ![s] = "idle"]
    /\ UNCHANGED <<environment, remote, tables_mutex, table_names, table_name>>

-----------------------------------------------------------------------------
\* PlanCreateTableAs ends with LazyLoadNewTables.
LazyLoadNewTables == tables_loaded' = FALSE

PlanCreateTableAs(s, t) ==
    /\ Starts(s, "ctas")
    /\ CanLock
    /\ LazyLoadNewTables
    /\ statement' = [statement EXCEPT ![s] = "planned"]
    /\ table_name' = [table_name EXCEPT ![s] = t]
    /\ UNCHANGED <<environment, remote, owned_tables, tables_mutex,
                   table_names, created>>

\* The operator creates the table when its execution starts (GetGlobalSinkState
\* of AdbcInsert) and takes no lock of the catalog.  The statement may still
\* fail after that, or before, and then the table is there or not.
ExecuteCreateTableAs(s) ==
    /\ statement[s] = "planned"
    /\ RemoteCreated(table_name[s])
    /\ created' \in {created, created \cup {table_name[s]}}
    /\ statement' = [statement EXCEPT ![s] = "idle"]
    /\ UNCHANGED <<environment, cache, tables_mutex, table_names, table_name>>

CreateTableAsFails(s) ==
    /\ statement[s] = "planned"
    /\ statement' = [statement EXCEPT ![s] = "idle"]
    /\ UNCHANGED <<environment, remote, cache, tables_mutex, table_names,
                   table_name, created>>

-----------------------------------------------------------------------------
\* Other clients of the remote database, or adbc_execute.
RemoteCreate(t) ==
    /\ environment.outsiders
    /\ RemoteCreated(t)
    /\ UNCHANGED <<environment, cache, tables_mutex, table_names, sessions,
                   created>>

RemoteDrop(t) ==
    /\ environment.outsiders
    /\ t \in Live
    /\ remote' = [remote EXCEPT ![t] = "dropped"]
    /\ created' = created \ {t}
    /\ UNCHANGED <<environment, cache, tables_mutex, table_names, sessions>>

-----------------------------------------------------------------------------
SessionNext(s) ==
    \/ \E t \in Table :
          \/ LookupEntry(s, t)
          \/ ScanBind(s, t)
          \/ CreateTable(s, t)
          \/ CreateTableFails(s, t)
          \/ PlanCreateTableAs(s, t)
    \/ ScanLoaded(s)
    \/ ScanFails(s)
    \/ ScanFetch(s)
    \/ ScanDone(s)
    \/ CreateTableReturn(s)
    \/ ExecuteCreateTableAs(s)
    \/ CreateTableAsFails(s)

RemoteNext == \E t \in Table : RemoteCreate(t) \/ RemoteDrop(t)

Next == RemoteNext \/ \E s \in Session : SessionNext(s)

Spec == Init /\ [][Next]_vars

-----------------------------------------------------------------------------
\* Every variable of the schema entry has its type, tables_mutex is held by
\* the session whose Scan is loading tables and by nobody else, only such a
\* Scan has names left to bind, and a statement that creates a table has one.
TypeOK ==
    /\ environment \in Environment
    /\ remote \in [Table -> {"absent", "live", "dropped"}]
    /\ owned_tables \in SUBSET Table
    /\ tables_loaded \in BOOLEAN
    /\ tables_mutex \in Session \cup {None}
    /\ table_names \in SUBSET Table
    /\ statement \in [Session -> {"idle", "scanning", "creating", "planned"}]
    /\ table_name \in [Session -> Table \cup {None}]
    /\ created \in SUBSET Table
    /\ \A s \in Session : statement[s] = "scanning" <=> tables_mutex = s
    /\ tables_mutex = None => table_names = {}
    /\ \A s \in Session :
          statement[s] \in {"creating", "planned"} => table_name[s] # None

\* A cached table is one that the remote schema has had: neither the names of
\* other schemas that the pattern of FetchTableNames matches nor a name that
\* was only looked up becomes an entry.
CachedMeansExisted == \A t \in owned_tables : remote[t] # "absent"

\* Entries are added and never removed or replaced while the schema entry
\* lives, whatever the sessions do: the binder keeps raw pointers to them.
EntriesStay == [][owned_tables \subseteq owned_tables']_vars

\* GetOrCreateTableEntryInternal: "Table doesn't exist if it's not in the
\* cache".  Once the tables are loaded, every table of the remote schema is
\* cached.
LoadedMeansComplete == tables_loaded => Live \subseteq owned_tables

\* Sessions that only read, a remote schema that does not change, and no
\* swallowed failure: what it takes for a loaded cache to be complete.
ReadOnly ==
    /\ environment.statements \subseteq {"lookup", "scan"}
    /\ environment.failures \subseteq {"request"}
    /\ ~environment.outsiders

\* Where sessions only read, Scan keeps the promise of the cache: also when
\* requests fail, and between the lookups and scans of several sessions.
ReadsAreComplete == ReadOnly => LoadedMeansComplete

\* A table that a CREATE TABLE or a CREATE TABLE AS of this extension has
\* created can be looked up by every session afterwards: it is cached, or
\* the cache admits that it does not know every table.
CreatedTableVisible == tables_loaded => created \subseteq owned_tables

\* No CREATE TABLE AS, and no binding failure that is swallowed.
PlainCreates ==
    /\ "ctas" \notin environment.statements
    /\ ~MayFail("bind")

\* One session that creates tables with CREATE TABLE AS only, and no failure
\* that is swallowed.
LoneCtas ==
    /\ \A s, r \in environment.sessions : s = r
    /\ "create" \notin environment.statements
    /\ environment.failures \subseteq {"request"}

\* Where CREATE TABLE is used by any number of sessions, or CREATE TABLE AS by
\* one, created tables are visible (CreateTable, LazyLoadNewTables), whatever
\* other clients do to the schema meanwhile.
CreatesAreVisible == PlainCreates \/ LoneCtas => CreatedTableVisible
=============================================================================
