------------------------- MODULE SchemaCacheProofs -------------------------
(***************************************************************************)
(* Proofs about SchemaCache for any number of sessions, schemas, entries.  *)
(***************************************************************************)
EXTENDS SchemaCache, TLAPS

\* The effect of CreateCatalogEntry: the session is given the entry that the
\* catalog has afterwards, and entries of other names stay.
LEMMA EntryCreated ==
    ASSUME TypeOK, NEW s \in Session, NEW n \in Schema, NEW place,
           CreateCatalogEntry(s, n, place)
    PROVE  /\ owned_schemas' \in [Schema -> Entry \cup {None}]
           /\ owned_schemas'[n] \in Entry
           /\ \A m \in Schema : owned_schemas[m] # None \/ m # n
                                   => owned_schemas'[m] = owned_schemas[m]
           /\ schema' = [schema EXCEPT ![s] = n]
           /\ entry' = [entry EXCEPT ![s] = owned_schemas'[n]]
           /\ at' = [at EXCEPT ![s] = place]
  <1>0. owned_schemas \in [Schema -> Entry \cup {None}] /\ None \notin Entry
    BY SchemaAssumption DEF TypeOK, SchemaAssumption
  <1>1. CASE owned_schemas[n] # None
    BY <1>0, <1>1 DEF CreateCatalogEntry, Receive, Goto
  <1>2. CASE owned_schemas[n] = None
    <2>1. PICK e \in Entry : /\ owned_schemas' = [owned_schemas EXCEPT ![n] = e]
                             /\ Receive(s, n, e, place)
      BY <1>2 DEF CreateCatalogEntry
    <2> QED
      BY <1>0, <1>2, <2>1 DEF Receive, Goto
  <1> QED
    BY <1>1, <1>2

\* Names stay names when they are mapped.
LEMMA InternalIsSchema ==
    ASSUME NEW n \in Schema
    PROVE  GetInternalSchemaName(n) \in Schema
  BY SchemaAssumption DEF SchemaAssumption, GetInternalSchemaName

-----------------------------------------------------------------------------
\* Every step keeps the types and the holder of schemas_mutex.
LEMMA TypeStep ==
    ASSUME TypeOK, [Next]_vars
    PROVE  TypeOK'
  <1>0. None \notin Session /\ None \notin Entry
    BY SchemaAssumption DEF SchemaAssumption
  <1> USE DEF TypeOK, CanLock, Goto, database, names, mutex
  <1>1. ASSUME NEW s \in Session, NEW n \in Schema, LookupSchema(s, n) PROVE TypeOK'
    <2> DEFINE internal == GetInternalSchemaName(n)
    <2>1. internal \in Schema
      BY InternalIsSchema
    <2>2. /\ schema' = [schema EXCEPT ![s] = internal]
          /\ entry' = [entry EXCEPT ![s] = owned_schemas[internal]]
          /\ \E place \in {"names", "bound"} : at' = [at EXCEPT ![s] = place]
      BY <1>1 DEF LookupSchema, Receive
    <2> HIDE DEF internal
    <2> QED
      BY <1>0, <1>1, <2>1, <2>2 DEF LookupSchema
  <1>2. ASSUME NEW s \in Session, ScanSchemas(s) PROVE TypeOK'
    BY <1>0, <1>2 DEF ScanSchemas
  <1>3. ASSUME NEW s \in Session, NamesLoaded(s) PROVE TypeOK'
    BY <1>0, <1>3 DEF NamesLoaded, Reference
  <1>4. ASSUME NEW s \in Session, FetchNames(s) PROVE TypeOK'
    BY <1>0, <1>4 DEF FetchNames, FetchSchemaNames
  <1>5. ASSUME NEW s \in Session, FetchNamesFails(s) PROVE TypeOK'
    BY <1>0, <1>5 DEF FetchNamesFails, Leave
  <1>6. ASSUME NEW s \in Session, StoreNames(s) PROVE TypeOK'
    BY <1>0, <1>6 DEF StoreNames, Reference
  <1>7. ASSUME NEW s \in Session, FindSchema(s) PROVE TypeOK'
    BY <1>0, <1>7 DEF FindSchema
  <1>8. ASSUME NEW s \in Session, SchemaNotFound(s) PROVE TypeOK'
    BY <1>0, <1>8 DEF SchemaNotFound, Leave
  <1>9. ASSUME NEW s \in Session, LookupCreates(s) PROVE TypeOK'
    <2>1. /\ owned_schemas' \in [Schema -> Entry \cup {None}]
          /\ owned_schemas'[schema[s]] \in Entry
          /\ schema' = [schema EXCEPT ![s] = schema[s]]
          /\ entry' = [entry EXCEPT ![s] = owned_schemas'[schema[s]]]
          /\ at' = [at EXCEPT ![s] = "bound"]
      BY <1>9, EntryCreated DEF LookupCreates
    <2> QED
      BY <1>0, <1>9, <2>1 DEF LookupCreates
  <1>10. ASSUME NEW s \in Session, NEW n \in Schema, ScanVisit(s, n) PROVE TypeOK'
    <2> DEFINE internal == GetInternalSchemaName(n)
    <2>1. internal \in Schema
      BY InternalIsSchema
    <2>2. /\ owned_schemas' \in [Schema -> Entry \cup {None}]
          /\ owned_schemas'[internal] \in Entry
          /\ schema' = [schema EXCEPT ![s] = internal]
          /\ entry' = [entry EXCEPT ![s] = owned_schemas'[internal]]
          /\ at' = [at EXCEPT ![s] = "visit"]
      BY <1>10, <2>1, EntryCreated DEF ScanVisit
    <2>3. todo' \in [Session -> SUBSET Schema]
      BY <1>10 DEF ScanVisit
    <2> HIDE DEF internal
    <2> QED
      BY <1>0, <1>10, <2>1, <2>2, <2>3 DEF ScanVisit
  <1>11. ASSUME NEW s \in Session, ScanCallback(s) PROVE TypeOK'
    BY <1>0, <1>11 DEF ScanCallback
  <1>12. ASSUME NEW s \in Session, ScanEnds(s) PROVE TypeOK'
    BY <1>0, <1>12 DEF ScanEnds, Leave
  <1>13. ASSUME NEW s \in Session, Unbind(s) PROVE TypeOK'
    BY <1>0, <1>13 DEF Unbind, Leave
  <1>14. ASSUME NEW s \in Session, PlanCreateTableAs(s) PROVE TypeOK'
    BY <1>0, <1>14 DEF PlanCreateTableAs
  <1>15. ASSUME NEW s \in Session, ClearCache(s) PROVE TypeOK'
    BY <1>0, <1>15 DEF ClearCache, Cleared, session
  <1>16. ASSUME NEW n \in Schema, RemoteChange(n) PROVE TypeOK'
    BY <1>0, <1>16 DEF RemoteChange, session
  <1>17. CASE UNCHANGED vars
    BY <1>17 DEF vars, session
  <1> QED
    BY <1>1, <1>2, <1>3, <1>4, <1>5, <1>6, <1>7, <1>8, <1>9, <1>10, <1>11,
       <1>12, <1>13, <1>14, <1>15, <1>16, <1>17 DEF Next, SessionNext, Crashed

\* The types of a catalog that has just been attached.
LEMMA TypeInit == Init => TypeOK
  <1> SUFFICES ASSUME Init PROVE TypeOK
    OBVIOUS
  <1>1. "" \in Schema /\ None \notin Session
    BY SchemaAssumption DEF SchemaAssumption
  <1>2. remote \in SUBSET Schema
    BY <1>1 DEF Init
  <1>3. cached_schema_names \in SUBSET Schema
    BY <1>2 DEF Init, FetchSchemaNames
  <1>4. no_schemas \in BOOLEAN
    BY DEF Init
  <1>5. \A s \in Session : at[s] = "fetch" <=> schemas_mutex = s
    BY <1>1 DEF Init
  <1> QED
    BY <1>1, <1>2, <1>3, <1>4, <1>5 DEF Init, TypeOK

\* Types, and the discipline of schemas_mutex.
THEOREM TypeCorrect == Spec => []TypeOK
  <1>1. TypeOK /\ [Next]_vars => TypeOK'
    BY TypeStep
  <1> QED
    BY <1>1, TypeInit, PTL DEF Spec

-----------------------------------------------------------------------------
\* A set of names that the remote database may have returned since the last
\* ClearCache.
Fresh(the_names) ==
    /\ the_names \subseteq sometime
    /\ truncating \/ always \subseteq the_names

\* The names that are cached, and those being fetched, are fresh.
FreshInv ==
    /\ always \subseteq remote
    /\ remote \subseteq sometime
    /\ schema_names_loaded => Fresh(cached_schema_names)
    /\ schemas_mutex # None => Fresh(fetched)

\* Every step keeps the names fresh.
LEMMA FreshStep ==
    ASSUME TypeOK, FreshInv, [Next]_vars
    PROVE  FreshInv'
  <1>0. None \notin Session
    BY SchemaAssumption DEF SchemaAssumption
  <1>1. CASE UNCHANGED <<database, names, mutex>>
    BY <1>1 DEF FreshInv, Fresh, database, names, mutex
  <1>2. ASSUME NEW s \in Session, FetchNames(s) PROVE FreshInv'
    <2>1. Fresh(fetched')
      BY <1>2 DEF FetchNames, FetchSchemaNames, FreshInv, Fresh
    <2> QED
      BY <1>2, <2>1 DEF FetchNames, FreshInv, Fresh, database, names
  <1>3. ASSUME NEW s \in Session, StoreNames(s) PROVE FreshInv'
    <2>1. schemas_mutex # None
      BY <1>0, <1>3 DEF StoreNames, TypeOK
    <2> QED
      BY <1>3, <2>1 DEF StoreNames, FreshInv, Fresh, database
  <1>4. ASSUME NEW s \in Session, ClearCache(s) PROVE FreshInv'
    BY <1>4 DEF ClearCache, Cleared, CanLock, FreshInv, mutex
  <1>5. ASSUME NEW n \in Schema, RemoteChange(n) PROVE FreshInv'
    <2>1. always' \subseteq always /\ sometime \subseteq sometime'
      BY <1>5 DEF RemoteChange
    <2>2. always' \subseteq remote' /\ remote' \subseteq sometime'
      BY <1>5 DEF RemoteChange
    <2>3. /\ Fresh(cached_schema_names) => Fresh(cached_schema_names)'
          /\ Fresh(fetched) => Fresh(fetched)'
      BY <1>5, <2>1 DEF RemoteChange, Fresh, names, mutex
    <2> QED
      BY <1>5, <2>2, <2>3 DEF RemoteChange, FreshInv, names, mutex
  <1>6. ASSUME NEW s \in Session, NEW n \in Schema,
               LookupSchema(s, n) \/ ScanVisit(s, n)
        PROVE  UNCHANGED <<database, names, mutex>>
    BY <1>6 DEF LookupSchema, ScanVisit
  <1>7. ASSUME NEW s \in Session,
               \/ ScanSchemas(s) \/ NamesLoaded(s) \/ FetchNamesFails(s)
               \/ FindSchema(s) \/ SchemaNotFound(s) \/ LookupCreates(s)
        PROVE  UNCHANGED <<database, names, mutex>>
    BY <1>7 DEF ScanSchemas, NamesLoaded, FetchNamesFails, FindSchema,
                SchemaNotFound, LookupCreates
  <1>8. ASSUME NEW s \in Session,
               \/ ScanCallback(s) \/ ScanEnds(s) \/ Unbind(s)
               \/ PlanCreateTableAs(s) \/ Crashed(s)
        PROVE  UNCHANGED <<database, names, mutex>>
    BY <1>8 DEF ScanCallback, ScanEnds, Unbind, PlanCreateTableAs, Crashed, vars
  <1>9. UNCHANGED vars => UNCHANGED <<database, names, mutex>>
    BY DEF vars
  <1> QED
    BY <1>1, <1>2, <1>3, <1>4, <1>5, <1>6, <1>7, <1>8, <1>9 DEF Next, SessionNext

\* adbc_clear_cache() is not undone by a fetch that was under way: the cached
\* names are never older than the last call.
THEOREM ClearCacheIsEffective == Spec => []NamesFreshSinceClear
  <1>1. Init => FreshInv
    <2> SUFFICES ASSUME Init PROVE FreshInv
      OBVIOUS
    <2>1. cached_schema_names \subseteq remote /\
            (truncating \/ cached_schema_names = remote)
      BY DEF Init, FetchSchemaNames
    <2> QED
      BY <2>1 DEF Init, FreshInv, Fresh
  <1>2. TypeOK /\ FreshInv /\ [Next]_vars => FreshInv'
    BY FreshStep
  <1>3. FreshInv => NamesFreshSinceClear
    BY DEF FreshInv, Fresh, NamesFreshSinceClear
  <1> QED
    BY <1>1, <1>2, <1>3, TypeCorrect, PTL DEF Spec

-----------------------------------------------------------------------------
\* In a database without schemas "main" is no internal name.
InternalNames ==
    no_schemas => /\ owned_schemas["main"] = None
                  /\ \A s \in Session : schema[s] # "main"

\* Every step uses internal names as keys.
LEMMA InternalStep ==
    ASSUME TypeOK, InternalNames, [Next]_vars
    PROVE  InternalNames'
  <1>0. /\ no_schemas' = no_schemas
        /\ schema \in [Session -> Schema] /\ "main" \in Schema
        /\ \A n \in Schema : GetInternalSchemaName(n) \in Schema
        /\ \A n \in Schema : no_schemas => GetInternalSchemaName(n) # "main"
    <2>1. no_schemas' = no_schemas
      BY DEF Next, SessionNext, LookupSchema, ScanVisit, ScanSchemas, NamesLoaded,
             FetchNames, FetchNamesFails, StoreNames, FindSchema, SchemaNotFound,
             LookupCreates, ScanCallback, ScanEnds, Unbind, PlanCreateTableAs,
             Crashed, ClearCache, RemoteChange, vars
    <2> QED
      BY <2>1, SchemaAssumption, InternalIsSchema
         DEF TypeOK, SchemaAssumption, GetInternalSchemaName
  <1>1. CASE UNCHANGED <<owned_schemas, schema>>
    BY <1>0, <1>1 DEF InternalNames
  <1>2. ASSUME NEW s \in Session, NEW n \in Schema, LookupSchema(s, n)
        PROVE  InternalNames'
    BY <1>0, <1>2 DEF LookupSchema, Receive, InternalNames
  <1>3. ASSUME NEW s \in Session, NEW n \in Schema, ScanVisit(s, n)
        PROVE  InternalNames'
    <2> DEFINE internal == GetInternalSchemaName(n)
    <2>1. internal \in Schema /\ (no_schemas => internal # "main")
      BY <1>0
    <2>2. /\ \A m \in Schema : m # internal => owned_schemas'[m] = owned_schemas[m]
          /\ schema' = [schema EXCEPT ![s] = internal]
      BY <1>3, <2>1, EntryCreated DEF ScanVisit
    <2> HIDE DEF internal
    <2> QED
      BY <1>0, <2>1, <2>2 DEF InternalNames
  <1>4. ASSUME NEW s \in Session, LookupCreates(s) PROVE InternalNames'
    <2>1. /\ \A m \in Schema : m # schema[s] => owned_schemas'[m] = owned_schemas[m]
          /\ schema' = [schema EXCEPT ![s] = schema[s]]
      BY <1>0, <1>4, EntryCreated DEF LookupCreates
    <2> QED
      BY <1>0, <2>1 DEF InternalNames
  <1>5. ASSUME NEW s \in Session, ClearCache(s) PROVE InternalNames'
    BY <1>0, <1>5 DEF ClearCache, Cleared, InternalNames, session
  <1>6. ASSUME NEW s \in Session,
               \/ ScanSchemas(s) \/ NamesLoaded(s) \/ FetchNames(s)
               \/ FetchNamesFails(s) \/ StoreNames(s) \/ FindSchema(s)
               \/ SchemaNotFound(s)
        PROVE  UNCHANGED <<owned_schemas, schema>>
    BY <1>6 DEF ScanSchemas, NamesLoaded, FetchNames, FetchNamesFails, StoreNames,
                FindSchema, SchemaNotFound
  <1>7. ASSUME NEW s \in Session,
               \/ ScanCallback(s) \/ ScanEnds(s) \/ Unbind(s)
               \/ PlanCreateTableAs(s) \/ Crashed(s)
        PROVE  UNCHANGED <<owned_schemas, schema>>
    BY <1>7 DEF ScanCallback, ScanEnds, Unbind, PlanCreateTableAs, Crashed, vars,
                session
  <1>8. ASSUME NEW n \in Schema, RemoteChange(n)
        PROVE  UNCHANGED <<owned_schemas, schema>>
    BY <1>8 DEF RemoteChange, session
  <1>9. UNCHANGED vars => UNCHANGED <<owned_schemas, schema>>
    BY DEF vars, session
  <1> QED
    BY <1>1, <1>2, <1>3, <1>4, <1>5, <1>6, <1>7, <1>8, <1>9 DEF Next, SessionNext

\* The mapping between "main" and "" never hides an entry.
THEOREM NamesLeadToEntries == Spec => []EntriesReachable
  <1>1. Init => InternalNames
    <2> SUFFICES ASSUME Init PROVE InternalNames
      OBVIOUS
    <2>1. "main" \in Schema /\ "" # "main"
      BY SchemaAssumption DEF SchemaAssumption
    <2>2. owned_schemas["main"] = None /\ \A s \in Session : schema[s] = ""
      BY <2>1 DEF Init
    <2> QED
      BY <2>1, <2>2 DEF InternalNames
  <1>2. TypeOK /\ InternalNames /\ [Next]_vars => InternalNames'
    BY InternalStep
  <1>3. InternalNames => EntriesReachable
    BY DEF InternalNames, EntriesReachable, GetInternalSchemaName,
           GetExternalSchemaName
  <1> QED
    BY <1>1, <1>2, <1>3, TypeCorrect, PTL DEF Spec

-----------------------------------------------------------------------------
\* Until the first adbc_clear_cache() the names of the constructor stay loaded,
\* and so do the entries.
StableInv ==
    /\ schema_names_loaded
    /\ schemas_mutex = None
    /\ EntriesInUseAreOwned

\* No step undoes that adbc_clear_cache() has been called.
LEMMA ClearedStays ==
    ASSUME cleared, [Next]_vars
    PROVE  cleared'
  <1>1. ASSUME NEW s \in Session, NEW n \in Schema,
               LookupSchema(s, n) \/ ScanVisit(s, n)
        PROVE  cleared'
    BY <1>1 DEF LookupSchema, ScanVisit, database
  <1>2. ASSUME NEW s \in Session,
               \/ ScanSchemas(s) \/ NamesLoaded(s) \/ FetchNames(s)
               \/ FetchNamesFails(s) \/ StoreNames(s) \/ FindSchema(s)
               \/ SchemaNotFound(s) \/ LookupCreates(s)
        PROVE  cleared'
    BY <1>2 DEF ScanSchemas, NamesLoaded, FetchNames, FetchNamesFails, StoreNames,
                FindSchema, SchemaNotFound, LookupCreates, database
  <1>3. ASSUME NEW s \in Session,
               \/ ScanCallback(s) \/ ScanEnds(s) \/ Unbind(s)
               \/ PlanCreateTableAs(s) \/ Crashed(s) \/ ClearCache(s)
        PROVE  cleared'
    BY <1>3 DEF ScanCallback, ScanEnds, Unbind, PlanCreateTableAs, Crashed,
                ClearCache, Cleared, vars, database
  <1>4. ASSUME NEW n \in Schema, RemoteChange(n) PROVE cleared'
    BY <1>4 DEF RemoteChange
  <1>5. CASE UNCHANGED vars
    BY <1>5 DEF vars, database
  <1> QED
    BY <1>1, <1>2, <1>3, <1>4, <1>5 DEF Next, SessionNext

\* Every step but ClearCache keeps StableInv.
LEMMA StableStep ==
    ASSUME ~cleared, ~cleared', TypeOK, StableInv, [Next]_vars
    PROVE  StableInv'
  <1>0. /\ None \notin Session /\ None \notin Entry
        /\ at \in [Session -> {"idle", "names", "fetch", "read", "create",
                               "visit", "bound", "crashed"}]
        /\ schema \in [Session -> Schema]
        /\ seen \in [Session -> SUBSET Schema]
        /\ entry \in [Session -> Entry \cup {None}]
        /\ owned_schemas \in [Schema -> Entry \cup {None}]
    BY SchemaAssumption DEF SchemaAssumption, TypeOK
  <1>1. ASSUME NEW s \in Session, FetchNames(s) \/ FetchNamesFails(s)
        PROVE  FALSE
    BY <1>1 DEF FetchNames, FetchNamesFails, StableInv
  <1>2. ASSUME NEW s \in Session, StoreNames(s) PROVE FALSE
    BY <1>0, <1>2 DEF StoreNames, StableInv, TypeOK
  <1>3. ASSUME NEW s \in Session, ClearCache(s) PROVE FALSE
    BY <1>3 DEF ClearCache, Cleared
  <1>4. ASSUME NEW s \in Session, Crashed(s) PROVE FALSE
    BY <1>4 DEF Crashed, StableInv, EntriesInUseAreOwned
  <1> USE DEF StableInv, EntriesInUseAreOwned, Goto, names, mutex
  <1>5. ASSUME NEW s \in Session, NEW n \in Schema, LookupSchema(s, n)
        PROVE  StableInv'
    <2> DEFINE internal == GetInternalSchemaName(n)
    <2>1. internal \in Schema
      BY InternalIsSchema
    <2>2. /\ schema' = [schema EXCEPT ![s] = internal]
          /\ entry' = [entry EXCEPT ![s] = owned_schemas[internal]]
          /\ at' = [at EXCEPT ![s] =
                     IF owned_schemas[internal] = None THEN "names" ELSE "bound"]
          /\ UNCHANGED <<owned_schemas, names, mutex, seen>>
      BY <1>5 DEF LookupSchema, Receive
    <2> HIDE DEF internal
    <2>3. EntriesInUseAreOwned'
      BY <1>0, <2>1, <2>2
    <2> QED
      BY <2>2, <2>3
  <1>6. ASSUME NEW s \in Session, NEW n \in Schema, NEW place \in {"bound", "visit"},
               at[s] \in {"create", "read"}, place = "visit" => at[s] = "read",
               CreateCatalogEntry(s, n, place), UNCHANGED <<names, mutex, seen>>
        PROVE  StableInv'
    <2>1. /\ owned_schemas'[n] \in Entry
          /\ \A m \in Schema : owned_schemas[m] # None \/ m # n
                                   => owned_schemas'[m] = owned_schemas[m]
          /\ schema' = [schema EXCEPT ![s] = n]
          /\ entry' = [entry EXCEPT ![s] = owned_schemas'[n]]
          /\ at' = [at EXCEPT ![s] = place]
      BY <1>6, EntryCreated
    <2>2. at'[s] = place /\ schema'[s] = n /\ entry'[s] = owned_schemas'[n]
      BY <1>0, <2>1
    <2>3. \A r \in Session : r # s => /\ at'[r] = at[r]
                                      /\ schema'[r] = schema[r]
                                      /\ entry'[r] = entry[r]
      BY <1>0, <2>1
    <2>4. EntriesInUseAreOwned'
      BY <1>0, <2>1, <2>2, <2>3
    <2> QED
      BY <1>6, <2>4
  <1>7. ASSUME NEW s \in Session, LookupCreates(s) PROVE StableInv'
    BY <1>0, <1>6, <1>7 DEF LookupCreates
  <1>8. ASSUME NEW s \in Session, NEW n \in Schema, ScanVisit(s, n)
        PROVE  StableInv'
    BY <1>6, <1>8, InternalIsSchema DEF ScanVisit
  <1>9. ASSUME NEW s \in Session, ScanSchemas(s) PROVE StableInv'
    BY <1>0, <1>9 DEF ScanSchemas
  <1>10. ASSUME NEW s \in Session, NamesLoaded(s) PROVE StableInv'
    BY <1>0, <1>10 DEF NamesLoaded, Reference
  <1>11. ASSUME NEW s \in Session, FindSchema(s) PROVE StableInv'
    BY <1>0, <1>11 DEF FindSchema
  <1>12. ASSUME NEW s \in Session, SchemaNotFound(s) PROVE StableInv'
    BY <1>0, <1>12 DEF SchemaNotFound, Leave
  <1>13. ASSUME NEW s \in Session, ScanCallback(s) PROVE StableInv'
    BY <1>0, <1>13 DEF ScanCallback
  <1>14. ASSUME NEW s \in Session, ScanEnds(s) PROVE StableInv'
    BY <1>0, <1>14 DEF ScanEnds, Leave
  <1>15. ASSUME NEW s \in Session, Unbind(s) PROVE StableInv'
    BY <1>0, <1>15 DEF Unbind, Leave
  <1>16. ASSUME NEW s \in Session, PlanCreateTableAs(s) PROVE StableInv'
    <2>1. owned_schemas[schema[s]] # None
      BY <1>16 DEF PlanCreateTableAs
    <2> QED
      BY <1>0, <1>16, <2>1 DEF PlanCreateTableAs
  <1>17. ASSUME NEW n \in Schema, RemoteChange(n) PROVE StableInv'
    BY <1>17 DEF RemoteChange, session
  <1>18. CASE UNCHANGED vars
    BY <1>18 DEF vars, session
  <1> QED
    BY <1>1, <1>2, <1>3, <1>4, <1>5, <1>7, <1>8, <1>9, <1>10, <1>11, <1>12,
       <1>13, <1>14, <1>15, <1>16, <1>17, <1>18 DEF Next, SessionNext

\* Until the first adbc_clear_cache(), StableInv is an invariant.
THEOREM StaysStable == Spec => [](~cleared => StableInv)
  <1>1. Init => (~cleared => StableInv)
    BY DEF Init, StableInv, EntriesInUseAreOwned
  <1>2. TypeOK /\ (~cleared => StableInv) /\ [Next]_vars
          => (~cleared => StableInv)'
    BY StableStep, ClearedStays
  <1> QED
    BY <1>1, <1>2, TypeCorrect, PTL DEF Spec

\* Until the first adbc_clear_cache(), concurrent lookups and scans share the
\* entries of the catalog and never use one that was replaced.
THEOREM EntriesStayValid == Spec => []EntriesInUseAreOwned
  <1>1. (~cleared => StableInv) => EntriesInUseAreOwned
    BY DEF StableInv, EntriesInUseAreOwned
  <1> QED
    BY <1>1, StaysStable, PTL
=============================================================================
