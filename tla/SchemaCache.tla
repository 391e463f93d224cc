---------------------------- MODULE SchemaCache ----------------------------
(***************************************************************************)
(* The schema metadata of an attached database: AdbcCatalog of             *)
(* src/adbc_catalog.cpp and adbc_clear_cache().                            *)
(*                                                                         *)
(* Each critical section of schemas_mutex is one action, except the fetch  *)
(* of the schema names, which holds the mutex while the remote database is *)
(* asked.  GetCachedSchemaNames returns a reference, so its callers read   *)
(* cached_schema_names, and use the AdbcSchemaEntry they were given, after *)
(* the mutex is free again.                                                *)
(*                                                                         *)
(* The internal name "" is the only schema of a database without schemas;  *)
(* users know it as "main".                                                *)
(***************************************************************************)
CONSTANTS
    Session,      \* DuckDB connections
    Schema,       \* names of schemas, with "" and "main" among them
    Entry,        \* identities of AdbcSchemaEntry objects
    None          \* no object, no session

ASSUME SchemaAssumption ==
    /\ {"", "main"} \subseteq Schema
    /\ None \notin Session \cup Entry

VARIABLES
    remote,               \* the schemas of the remote database
    always,               \* ... that existed all the time since ClearCache
    sometime,             \* ... that existed at some time since ClearCache
    truncating,           \* may its streams of schema names break off?
    cleared,              \* has adbc_clear_cache() been called?
    owned_schemas,        \* the AdbcSchemaEntry of each internal name
    cached_schema_names,
    schema_names_loaded,
    no_schemas,           \* the database has no schemas, decided at ATTACH
    schemas_mutex,        \* the session that fetches the names, or None
    fetched,              \* the names it has fetched
    task,                 \* LookupSchema, ScanSchemas or nothing
    at,                   \* where in its task each session is
    schema,               \* the internal name it looks up or visits
    seen,                 \* the names when it got the reference to them
    todo,                 \* the names ScanSchemas has still to visit
    entry                 \* the AdbcSchemaEntry it has been given

database == <<remote, always, sometime, truncating, cleared>>
names == <<cached_schema_names, schema_names_loaded>>
mutex == <<schemas_mutex, fetched>>
session == <<task, at, schema, seen, todo, entry>>
vars == <<database, owned_schemas, names, no_schemas, mutex, session>>

\* FetchSchemaNames: a stream that breaks off is taken for one that has ended.
FetchSchemaNames == IF truncating THEN SUBSET remote ELSE {remote}

\* The constructor fetches the names and decides no_schemas.
Init ==
    /\ remote \in {{""}} \cup SUBSET (Schema \ {""})
    /\ always = remote
    /\ sometime = remote
    /\ truncating \in BOOLEAN
    /\ cleared = FALSE
    /\ owned_schemas = [n \in Schema |-> None]
    /\ cached_schema_names \in FetchSchemaNames
    /\ schema_names_loaded = TRUE
    /\ no_schemas = (cached_schema_names = {""})
    /\ schemas_mutex = None
    /\ fetched = {}
    /\ task = [s \in Session |-> "none"]
    /\ at = [s \in Session |-> "idle"]
    /\ schema = [s \in Session |-> ""]
    /\ seen = [s \in Session |-> {}]
    /\ todo = [s \in Session |-> {}]
    /\ entry = [s \in Session |-> None]

-----------------------------------------------------------------------------
GetExternalSchemaName(n) == IF no_schemas /\ n = "" THEN "main" ELSE n
NameUnmapped(n) == n
GetInternalSchemaName(n) == IF no_schemas /\ n = "main" THEN "" ELSE n

CanLock == schemas_mutex = None
Goto(s, place) == at' = [at EXCEPT ![s] = place]

\* The session uses the AdbcSchemaEntry e of the internal name n.
Receive(s, n, e, place) ==
    /\ schema' = [schema EXCEPT ![s] = n]
    /\ entry' = [entry EXCEPT ![s] = e]
    /\ Goto(s, place)

\* LookupSchema of the name a user wrote: a cached entry is returned at once.
LookupSchema(s, name) ==
    LET internal == GetInternalSchemaName(name) IN
    /\ at[s] = "idle"
    /\ CanLock
    /\ task' = [task EXCEPT ![s] = "lookup"]
    /\ Receive(s, internal, owned_schemas[internal],
               IF owned_schemas[internal] = None THEN "names" ELSE "bound")
    /\ UNCHANGED <<database, owned_schemas, names, no_schemas, mutex, seen,
                   todo>>

ScanSchemas(s) ==
    /\ at[s] = "idle"
    /\ task' = [task EXCEPT ![s] = "scan"]
    /\ Goto(s, "names")
    /\ UNCHANGED <<database, owned_schemas, names, no_schemas, mutex, schema,
                   seen, todo, entry>>

\* The task is over, with an answer or an exception.
Leave(s) ==
    /\ task' = [task EXCEPT ![s] = "none"]
    /\ Goto(s, "idle")

-----------------------------------------------------------------------------
\* GetCachedSchemaNames, called by both tasks.

Reference(s, the_names) ==
    /\ Goto(s, "read")
    /\ seen' = [seen EXCEPT ![s] = the_names]
    /\ todo' = [todo EXCEPT ![s] = IF task[s] = "scan" THEN the_names ELSE {}]

NamesLoaded(s) ==
    /\ at[s] = "names"
    /\ CanLock
    /\ schema_names_loaded
    /\ Reference(s, cached_schema_names)
    /\ UNCHANGED <<database, owned_schemas, names, no_schemas, mutex, task,
                   schema, entry>>

FetchNames(s) ==
    /\ at[s] = "names"
    /\ CanLock
    /\ ~schema_names_loaded
    /\ schemas_mutex' = s
    /\ fetched' \in FetchSchemaNames
    /\ Goto(s, "fetch")
    /\ UNCHANGED <<database, owned_schemas, names, no_schemas, task, schema,
                   seen, todo, entry>>

FetchNamesFails(s) ==
    /\ at[s] = "names"
    /\ CanLock
    /\ ~schema_names_loaded
    /\ Leave(s)
    /\ UNCHANGED <<database, owned_schemas, names, no_schemas, mutex, schema,
                   seen, todo, entry>>

StoreNames(s) ==
    /\ at[s] = "fetch"
    /\ cached_schema_names' = fetched
    /\ schema_names_loaded' = TRUE
    /\ schemas_mutex' = None
    /\ fetched' = {}
    /\ Reference(s, fetched)
    /\ UNCHANGED <<database, owned_schemas, no_schemas, task, schema, entry>>

-----------------------------------------------------------------------------
\* The names are read without the mutex.  If they have been replaced since,
\* what is read is arbitrary.
Undisturbed(s) == seen[s] = cached_schema_names

\* LookupSchema: std::find over the names.
FindSchema(s) ==
    /\ at[s] = "read"
    /\ task[s] = "lookup"
    /\ Undisturbed(s) => schema[s] \in cached_schema_names
    /\ Goto(s, "create")
    /\ UNCHANGED <<database, owned_schemas, names, no_schemas, mutex, task,
                   schema, seen, todo, entry>>

SchemaNotFound(s) ==
    /\ at[s] = "read"
    /\ task[s] = "lookup"
    /\ Undisturbed(s) => schema[s] \notin cached_schema_names
    /\ Leave(s)
    /\ UNCHANGED <<database, owned_schemas, names, no_schemas, mutex, schema,
                   seen, todo, entry>>

\* CreateCatalogEntry(n): the entry that another session may have made since
\* GetCatalogEntry found none, or a new one.
CreateCatalogEntryUnchecked(s, n, place) ==
    \E e \in Entry \ {owned_schemas[m] : m \in Schema} :
        /\ owned_schemas' = [owned_schemas EXCEPT ![n] = e]
        /\ Receive(s, n, e, place)
CreateCatalogEntry(s, n, place) ==
    \/ /\ owned_schemas[n] # None
       /\ Receive(s, n, owned_schemas[n], place)
       /\ UNCHANGED owned_schemas
    \/ /\ owned_schemas[n] = None
       /\ \E e \in Entry \ {owned_schemas[m] : m \in Schema} :
             /\ owned_schemas' = [owned_schemas EXCEPT ![n] = e]
             /\ Receive(s, n, e, place)

LookupCreates(s) ==
    /\ at[s] = "create"
    /\ CanLock
    /\ CreateCatalogEntry(s, schema[s], "bound")
    /\ UNCHANGED <<database, names, no_schemas, mutex, task, seen, todo>>

\* The loop of ScanSchemas: GetCatalogEntry, CreateCatalogEntry if there is
\* none (together one CreateCatalogEntry, which checks again), and then the
\* callback uses the entry.
ScanVisit(s, name) ==
    /\ at[s] = "read"
    /\ task[s] = "scan"
    /\ CanLock
    /\ todo[s] # {}
    /\ Undisturbed(s) => name \in todo[s]
    /\ todo' = [todo EXCEPT ![s] =
                  @ \ {IF Undisturbed(s) THEN name ELSE CHOOSE n \in @ : TRUE}]
    /\ CreateCatalogEntry(s, GetInternalSchemaName(name), "visit")
    /\ UNCHANGED <<database, names, no_schemas, mutex, task, seen>>

ScanCallback(s) ==
    /\ at[s] = "visit"
    /\ Goto(s, "read")
    /\ entry' = [entry EXCEPT ![s] = None]
    /\ UNCHANGED <<database, owned_schemas, names, no_schemas, mutex, task,
                   schema, seen, todo>>

ScanEnds(s) ==
    /\ at[s] = "read"
    /\ task[s] = "scan"
    /\ todo[s] = {}
    /\ Leave(s)
    /\ UNCHANGED <<database, owned_schemas, names, no_schemas, mutex, schema,
                   seen, todo, entry>>

-----------------------------------------------------------------------------
\* The statement that looked the schema up ends.
Unbind(s) ==
    /\ at[s] = "bound"
    /\ Leave(s)
    /\ entry' = [entry EXCEPT ![s] = None]
    /\ UNCHANGED <<database, owned_schemas, names, no_schemas, mutex, schema,
                   seen, todo>>

\* PlanCreateTableAs of a statement bound to the schema looks the entry up a
\* second time and dereferences the result.
PlanCreateTableAs(s) ==
    /\ at[s] = "bound"
    /\ CanLock
    /\ Goto(s, IF owned_schemas[schema[s]] = None THEN "crashed" ELSE "bound")
    /\ UNCHANGED <<database, owned_schemas, names, no_schemas, mutex, task,
                   schema, seen, todo, entry>>

\* Dereferencing null ends the process.
Crashed(s) ==
    /\ at[s] = "crashed"
    /\ UNCHANGED vars

\* adbc_clear_cache() destroys the entries and forgets the names.
Cleared ==
    /\ owned_schemas' = [n \in Schema |-> None]
    /\ cached_schema_names' = {}
    /\ schema_names_loaded' = FALSE
    /\ always' = remote
    /\ sometime' = remote
    /\ cleared' = TRUE
ClearCacheUnlocked(s) ==
    /\ at[s] = "idle"
    /\ Cleared
    /\ UNCHANGED <<remote, truncating, no_schemas, mutex, session>>
ClearCache(s) ==
    /\ at[s] = "idle"
    /\ CanLock
    /\ Cleared
    /\ UNCHANGED <<remote, truncating, no_schemas, mutex, session>>

\* Other clients of a database with schemas create or drop one.
RemoteChange(n) ==
    /\ n # "" /\ "" \notin remote
    /\ remote' = IF n \in remote THEN remote \ {n} ELSE remote \cup {n}
    /\ always' = always \cap remote'
    /\ sometime' = sometime \cup remote'
    /\ UNCHANGED <<truncating, cleared, owned_schemas, names, no_schemas, mutex,
                   session>>

-----------------------------------------------------------------------------
SessionNext(s) ==
    \/ \E n \in Schema : LookupSchema(s, n) \/ ScanVisit(s, n)
    \/ ScanSchemas(s)
    \/ NamesLoaded(s)
    \/ FetchNames(s)
    \/ FetchNamesFails(s)
    \/ StoreNames(s)
    \/ FindSchema(s)
    \/ SchemaNotFound(s)
    \/ LookupCreates(s)
    \/ ScanCallback(s)
    \/ ScanEnds(s)
    \/ Unbind(s)
    \/ PlanCreateTableAs(s)
    \/ Crashed(s)
    \/ ClearCache(s)

Next == (\E s \in Session : SessionNext(s)) \/ (\E n \in Schema : RemoteChange(n))

Spec == Init /\ [][Next]_vars

-----------------------------------------------------------------------------
\* Every variable of the catalog has its type, and schemas_mutex is held by
\* the session that is fetching names and by nobody else.
TypeOK ==
    /\ remote \in SUBSET Schema
    /\ always \in SUBSET Schema
    /\ sometime \in SUBSET Schema
    /\ truncating \in BOOLEAN
    /\ cleared \in BOOLEAN
    /\ owned_schemas \in [Schema -> Entry \cup {None}]
    /\ cached_schema_names \in SUBSET Schema
    /\ schema_names_loaded \in BOOLEAN
    /\ no_schemas \in BOOLEAN
    /\ schemas_mutex \in Session \cup {None}
    /\ fetched \in SUBSET Schema
    /\ task \in [Session -> {"none", "lookup", "scan"}]
    /\ at \in [Session -> {"idle", "names", "fetch", "read", "create", "visit",
                           "bound", "crashed"}]
    /\ schema \in [Session -> Schema]
    /\ seen \in [Session -> SUBSET Schema]
    /\ todo \in [Session -> SUBSET Schema]
    /\ entry \in [Session -> Entry \cup {None}]
    /\ \A s \in Session : at[s] = "fetch" <=> schemas_mutex = s

\* The cached names are never older than the last adbc_clear_cache(): a fetch
\* that was under way when the cache was cleared does not bring back what the
\* remote database had before.  Names that existed all along are not missing,
\* unless the stream broke off.
NamesFreshSinceClear ==
    schema_names_loaded =>
        /\ cached_schema_names \subseteq sometime
        /\ truncating \/ always \subseteq cached_schema_names

\* An entry is found again under the name that it shows to users, so two
\* names never lead to two entries for the same remote schema.
EntriesReachable ==
    \A n \in Schema : owned_schemas[n] # None =>
        GetInternalSchemaName(GetExternalSchemaName(n)) = n

\* The AdbcSchemaEntry that a statement or a callback uses is the one in the
\* catalog: it is not destroyed, and concurrent lookups of a schema share it.
\* This ends with the first adbc_clear_cache().
EntriesInUseAreOwned ==
    \A s \in Session : ~cleared =>
        /\ at[s] # "crashed"
        /\ at[s] \in {"bound", "visit"} =>
              entry[s] # None /\ entry[s] = owned_schemas[schema[s]]

\* DESIGN.md: access to shared state is serialized with a mutex.  Nobody
\* changes the cached names while a session reads them.
NamesStableWhileRead ==
    \A s \in Session : at[s] \in {"read", "visit"} => Undisturbed(s)
=============================================================================
