-------------------------- MODULE TableCacheProofs --------------------------
(***************************************************************************)
(* Proofs about TableCache for any number of sessions and tables.          *)
(***************************************************************************)
EXTENDS TableCache, TLAPS

\* What GetOrCreateTableEntryInternal may do to the cache: add the table it
\* was asked for, if the remote schema has it.
LEMMA BindAddsLiveTable ==
    ASSUME TypeOK, NEW t, NEW loaded,
           owned_tables' \in GetOrCreateTableEntryInternal(t, loaded)
    PROVE  \/ owned_tables' = owned_tables
           \/ t \in Live /\ owned_tables' = owned_tables \cup {t}
  BY DEF GetOrCreateTableEntryInternal

\* When binding cannot fail, a table that the schema has is cached afterwards.
LEMMA BindFindsLiveTable ==
    ASSUME TypeOK, NEW t \in Live, ~MayFail("bind"),
           owned_tables' \in GetOrCreateTableEntryInternal(t, FALSE)
    PROVE  owned_tables' = owned_tables \cup {t}
  BY DEF GetOrCreateTableEntryInternal

\* The environment stays what it was.
LEMMA EnvironmentStep ==
    ASSUME [Next]_vars
    PROVE  environment' = environment
  <1>1. ASSUME NEW s \in Session, NEW t \in Table,
               \/ LookupEntry(s, t) \/ ScanBind(s, t) \/ CreateTable(s, t)
               \/ CreateTableFails(s, t) \/ PlanCreateTableAs(s, t)
        PROVE  environment' = environment
    BY <1>1 DEF LookupEntry, ScanBind, CreateTable, CreateTableFails,
                PlanCreateTableAs
  <1>2. ASSUME NEW s \in Session,
               \/ ScanLoaded(s) \/ ScanFails(s)
               \/ ScanFetch(s) \/ ScanDone(s) \/ CreateTableReturn(s)
               \/ ExecuteCreateTableAs(s) \/ CreateTableAsFails(s)
        PROVE  environment' = environment
    BY <1>2 DEF ScanLoaded, ScanFails, ScanFetch, ScanDone, CreateTableReturn,
                ExecuteCreateTableAs, CreateTableAsFails, vars
  <1>3. CASE RemoteNext \/ UNCHANGED vars
    BY <1>3 DEF RemoteNext, RemoteCreate, RemoteDrop, vars
  <1> QED
    BY <1>1, <1>2, <1>3 DEF Next, SessionNext

\* The effect of every step on the cache.
LEMMA CacheStep ==
    ASSUME TypeOK, [Next]_vars
    PROVE  \/ owned_tables' = owned_tables
           \/ \E t \in Live : owned_tables' = owned_tables \cup {t}
  <1>1. ASSUME NEW s \in Session, NEW t \in Table, LookupEntry(s, t)
        PROVE  \/ owned_tables' = owned_tables
               \/ t \in Live /\ owned_tables' = owned_tables \cup {t}
    BY <1>1, BindAddsLiveTable DEF LookupEntry
  <1>2. ASSUME NEW s \in Session, NEW t \in Table, ScanBind(s, t)
        PROVE  \/ owned_tables' = owned_tables
               \/ t \in Live /\ owned_tables' = owned_tables \cup {t}
    BY <1>2, BindAddsLiveTable DEF ScanBind
  <1>3. ASSUME NEW s \in Session, CreateTableReturn(s)
        PROVE  \/ owned_tables' = owned_tables
               \/ /\ table_name[s] \in Live
                  /\ owned_tables' = owned_tables \cup {table_name[s]}
    BY <1>3, BindAddsLiveTable DEF CreateTableReturn
  <1>4. ASSUME NEW s \in Session, NEW t \in Table,
               \/ CreateTable(s, t)
               \/ CreateTableFails(s, t)
               \/ PlanCreateTableAs(s, t)
        PROVE  owned_tables' = owned_tables
    BY <1>4 DEF CreateTable, CreateTableFails, PlanCreateTableAs, cache
  <1>5. ASSUME NEW s \in Session,
               \/ ScanLoaded(s) \/ ScanFails(s)
               \/ ScanFetch(s) \/ ScanDone(s)
               \/ ExecuteCreateTableAs(s) \/ CreateTableAsFails(s)
        PROVE  owned_tables' = owned_tables
    BY <1>5 DEF ScanLoaded, ScanFails, ScanFetch, ScanDone,
                ExecuteCreateTableAs, CreateTableAsFails, vars, cache
  <1>6. CASE RemoteNext \/ UNCHANGED vars
    BY <1>6 DEF RemoteNext, RemoteCreate, RemoteDrop, vars, cache
  <1> QED
    BY <1>1, <1>2, <1>3, <1>4, <1>5, <1>6 DEF Next, SessionNext

-----------------------------------------------------------------------------
\* Every step keeps the types and the holder of tables_mutex.
LEMMA TypeStep ==
    ASSUME TypeOK, [Next]_vars
    PROVE  TypeOK'
  <1>0. None \notin Session /\ None \notin Table
    BY TableAssumption DEF TableAssumption
  <1> USE DEF TypeOK, CanLock, Starts
  <1>1. owned_tables' \in SUBSET Table
    BY CacheStep DEF Live
  <1>2. ASSUME NEW s \in Session, NEW t \in Table, LookupEntry(s, t) PROVE TypeOK'
    BY <1>1, <1>2 DEF LookupEntry, sessions
  <1>3. ASSUME NEW s \in Session, NEW t \in Table, ScanBind(s, t) PROVE TypeOK'
    BY <1>0, <1>1, <1>3 DEF ScanBind, sessions
  <1>4. ASSUME NEW s \in Session, NEW t \in Table, CreateTable(s, t) PROVE TypeOK'
    BY <1>0, <1>1, <1>4 DEF CreateTable, RemoteCreated, cache
  <1>5. ASSUME NEW s \in Session, NEW t \in Table, CreateTableFails(s, t)
        PROVE  TypeOK'
    BY <1>1, <1>5 DEF CreateTableFails, RemoteCreated, cache, sessions
  <1>6. ASSUME NEW s \in Session, NEW t \in Table, PlanCreateTableAs(s, t)
        PROVE  TypeOK'
    BY <1>0, <1>1, <1>6 DEF PlanCreateTableAs, LazyLoadNewTables
  <1>7. ASSUME NEW s \in Session, ScanFetch(s) PROVE TypeOK'
    BY <1>0, <1>1, <1>7 DEF ScanFetch, FetchTableNames, cache
  <1>8. ASSUME NEW s \in Session, ScanDone(s) PROVE TypeOK'
    BY <1>0, <1>1, <1>8 DEF ScanDone
  <1>9. ASSUME NEW s \in Session, CreateTableReturn(s) PROVE TypeOK'
    BY <1>0, <1>1, <1>9 DEF CreateTableReturn, Live
  <1>10. ASSUME NEW s \in Session, ExecuteCreateTableAs(s) PROVE TypeOK'
    BY <1>0, <1>1, <1>10 DEF ExecuteCreateTableAs, RemoteCreated, cache
  <1>11. ASSUME NEW s \in Session, CreateTableAsFails(s) PROVE TypeOK'
    BY <1>1, <1>11 DEF CreateTableAsFails, cache
  <1>12. CASE RemoteNext
    BY <1>1, <1>12 DEF RemoteNext, RemoteCreate, RemoteCreated, RemoteDrop, Live,
                       cache, sessions
  <1>13. CASE UNCHANGED vars
    BY <1>13 DEF vars, cache, sessions
  <1>14. ASSUME NEW s \in Session, ScanLoaded(s) \/ ScanFails(s) PROVE TypeOK'
    BY <1>13, <1>14 DEF ScanLoaded, ScanFails
  <1> HIDE DEF TypeOK, CanLock, Starts
  <1>15. ASSUME NEW s \in Session, SessionNext(s) PROVE TypeOK'
    <2>1. CASE \E t \in Table : \/ LookupEntry(s, t) \/ ScanBind(s, t)
                               \/ CreateTable(s, t) \/ CreateTableFails(s, t)
                               \/ PlanCreateTableAs(s, t)
      BY <1>2, <1>3, <1>4, <1>5, <1>6, <2>1, Zenon
    <2>2. CASE \/ ScanFetch(s) \/ ScanDone(s) \/ CreateTableReturn(s)
               \/ ExecuteCreateTableAs(s) \/ CreateTableAsFails(s)
               \/ ScanLoaded(s) \/ ScanFails(s)
      BY <1>7, <1>8, <1>9, <1>10, <1>11, <1>14, <2>2, Zenon
    <2> QED
      BY <1>15, <2>1, <2>2, Zenon DEF SessionNext
  <1> QED
    BY <1>12, <1>13, <1>15, Zenon DEF Next

\* The types of a new schema entry.
LEMMA TypeInit == Init => TypeOK
  <1> SUFFICES ASSUME Init PROVE TypeOK
    OBVIOUS
  <1>0. None \notin Session
    BY TableAssumption DEF TableAssumption
  <1>1. /\ environment \in Environment
        /\ remote \in [Table -> {"absent", "live", "dropped"}]
        /\ owned_tables \in SUBSET Table
        /\ tables_mutex \in Session \cup {None}
        /\ table_names \in SUBSET Table
        /\ statement \in [Session -> {"idle", "scanning", "creating", "planned"}]
        /\ table_name \in [Session -> Table \cup {None}]
        /\ created \in SUBSET Table
    BY DEF Init
  <1>2. tables_loaded \in BOOLEAN
    BY DEF Init
  <1>3. \A s \in Session : /\ statement[s] = "idle"
                           /\ tables_mutex # s
    BY <1>0 DEF Init
  <1>4. table_names = {}
    BY DEF Init
  <1> QED
    BY <1>1, <1>2, <1>3, <1>4 DEF TypeOK

\* Types, and the discipline of tables_mutex.
THEOREM TypeCorrect == Spec => []TypeOK
  <1>1. TypeOK /\ [Next]_vars => TypeOK'
    BY TypeStep
  <1> QED
    BY <1>1, TypeInit, PTL DEF Spec

-----------------------------------------------------------------------------
\* A table that was there once is never "absent" again, and only live tables
\* are added to the cache.
LEMMA ExistedStep ==
    ASSUME TypeOK, CachedMeansExisted, [Next]_vars
    PROVE  CachedMeansExisted'
  <1>1. \A t \in Table : remote[t] # "absent" => remote'[t] # "absent"
    <2>1. ASSUME NEW t \in Table, RemoteCreated(t)
          PROVE  \A u \in Table : remote[u] # "absent" => remote'[u] # "absent"
      BY <2>1 DEF RemoteCreated, TypeOK
    <2>2. ASSUME NEW t \in Table, RemoteDrop(t)
          PROVE  \A u \in Table : remote[u] # "absent" => remote'[u] # "absent"
      BY <2>2 DEF RemoteDrop, TypeOK
    <2>3. ASSUME NEW s \in Session, ExecuteCreateTableAs(s)
          PROVE  table_name[s] \in Table
      BY <2>3 DEF ExecuteCreateTableAs, TypeOK
    <2>4. \/ UNCHANGED remote
          \/ \E t \in Table : RemoteCreated(t) \/ RemoteDrop(t)
      BY <2>3 DEF Next, SessionNext, RemoteNext, LookupEntry, ScanBind,
                  CreateTable, CreateTableFails, PlanCreateTableAs, ScanLoaded,
                  ScanFails, ScanFetch, ScanDone, CreateTableReturn,
                  ExecuteCreateTableAs, CreateTableAsFails, RemoteCreate, vars
    <2> QED
      BY <2>1, <2>2, <2>4
  <1>2. \A t \in Live : remote[t] # "absent"
    BY DEF Live
  <1> QED
    BY <1>1, <1>2, CacheStep DEF CachedMeansExisted, TypeOK, Live

\* Only tables that the remote schema has had are ever cached, whatever fails
\* and whatever names the fetch returns.
THEOREM CacheInventsNothing == Spec => []CachedMeansExisted
  <1>1. Init => CachedMeansExisted
    BY DEF Init, CachedMeansExisted
  <1>2. TypeOK /\ CachedMeansExisted /\ [Next]_vars => CachedMeansExisted'
    BY ExistedStep
  <1> QED
    BY <1>1, <1>2, TypeCorrect, PTL DEF Spec

\* No step removes an entry that statements may point to.
THEOREM EntriesNeverRemoved == Spec => EntriesStay
  <1>1. TypeOK /\ [Next]_vars => [owned_tables \subseteq owned_tables']_vars
    BY CacheStep
  <1> QED
    BY <1>1, TypeCorrect, PTL DEF Spec, EntriesStay

-----------------------------------------------------------------------------
\* While a Scan is loading, what is not cached yet is among the names it has
\* left; and nobody creates anything.
ReadInv ==
    /\ LoadedMeansComplete
    /\ tables_mutex # None => Live \subseteq owned_tables \cup table_names
    /\ \A s \in Session : statement[s] \in {"idle", "scanning"}

\* Every step of a read-only workload keeps ReadInv.
LEMMA ReadStep ==
    ASSUME ReadOnly, TypeOK, ReadInv, [Next]_vars
    PROVE  ReadInv'
  <1>0. /\ None \notin Session
        /\ statement \in [Session -> {"idle", "scanning", "creating", "planned"}]
    BY TableAssumption DEF TableAssumption, TypeOK
  <1>1. ASSUME NEW s \in Session, NEW t \in Table, LookupEntry(s, t) PROVE ReadInv'
    <2>1. owned_tables \subseteq owned_tables'
      BY CacheStep
    <2> QED
      BY <1>1, <2>1 DEF LookupEntry, ReadInv, LoadedMeansComplete, Live, sessions
  <1>2. ASSUME NEW s \in Session, NEW t \in Table, ScanBind(s, t) PROVE ReadInv'
    <2>1. CASE t \in Live
      <3>1. owned_tables' = owned_tables \cup {t}
        BY <1>2, <2>1, BindFindsLiveTable DEF ScanBind, ReadOnly, MayFail
      <3> QED
        BY <1>2, <3>1 DEF ScanBind, ReadInv, LoadedMeansComplete, Live, sessions
    <2>2. CASE t \notin Live
      <3>1. owned_tables' = owned_tables
        BY <1>2, <2>2, BindAddsLiveTable DEF ScanBind
      <3> QED
        BY <1>2, <2>2, <3>1
           DEF ScanBind, ReadInv, LoadedMeansComplete, Live, sessions
    <2> QED
      BY <2>1, <2>2
  <1>3. ASSUME NEW s \in Session, ScanFetch(s) PROVE ReadInv'
    <2>1. Live \subseteq table_names'
      BY <1>3 DEF ScanFetch, FetchTableNames, ReadOnly, MayFail
    <2>2. statement'[s] = "scanning" /\ \A r \in Session :
            r # s => statement'[r] = statement[r]
      BY <1>0, <1>3 DEF ScanFetch
    <2> QED
      BY <1>3, <2>1, <2>2 DEF ScanFetch, ReadInv, LoadedMeansComplete, Live, cache
  <1>4. ASSUME NEW s \in Session, ScanDone(s) PROVE ReadInv'
    <2>1. tables_mutex # None
      BY <1>0, <1>4 DEF ScanDone, TypeOK
    <2>2. Live \subseteq owned_tables
      BY <1>4, <2>1 DEF ScanDone, ReadInv
    <2>3. \A r \in Session : statement'[r] \in {"idle", "scanning"}
      BY <1>0, <1>4 DEF ScanDone, ReadInv
    <2> QED
      BY <1>4, <2>2, <2>3 DEF ScanDone, ReadInv, LoadedMeansComplete, Live
  <1>5. CASE UNCHANGED vars
    BY <1>5 DEF vars, cache, sessions, ReadInv, LoadedMeansComplete, Live
  <1>6. ASSUME NEW s \in Session, NEW t \in Table,
               \/ CreateTable(s, t) \/ CreateTableFails(s, t)
               \/ PlanCreateTableAs(s, t)
        PROVE  FALSE
    BY <1>6 DEF CreateTable, CreateTableFails, PlanCreateTableAs, Starts, ReadOnly
  <1>7. ASSUME NEW s \in Session,
               \/ CreateTableReturn(s) \/ ExecuteCreateTableAs(s)
               \/ CreateTableAsFails(s)
        PROVE  FALSE
    BY <1>7 DEF CreateTableReturn, ExecuteCreateTableAs, CreateTableAsFails, ReadInv
  <1>8. ~RemoteNext
    BY DEF RemoteNext, RemoteCreate, RemoteDrop, ReadOnly
  <1> QED
    BY <1>1, <1>2, <1>3, <1>4, <1>5, <1>6, <1>7, <1>8
       DEF Next, SessionNext, ScanLoaded, ScanFails

\* For read-only use, "Table doesn't exist if it's not in the cache" is true.
THEOREM LoadedIsComplete == Spec => []ReadsAreComplete
  <1>1. Init => (ReadOnly => ReadInv)
    BY DEF Init, ReadInv, LoadedMeansComplete
  <1>2. ASSUME TypeOK, ReadOnly => ReadInv, [Next]_vars
        PROVE  (ReadOnly => ReadInv)'
    BY <1>2, EnvironmentStep, ReadStep DEF ReadOnly
  <1>3. (ReadOnly => ReadInv) => ReadsAreComplete
    BY DEF ReadInv, ReadsAreComplete
  <1> QED
    BY <1>1, <1>2, <1>3, TypeCorrect, PTL DEF Spec

-----------------------------------------------------------------------------
\* A created table is cached at once, and nobody plans a CREATE TABLE AS.
CreateInv ==
    /\ created \subseteq owned_tables
    /\ \A s \in Session : statement[s] # "planned"

\* Every step of such a workload keeps CreateInv.
LEMMA CreateStep ==
    ASSUME PlainCreates, TypeOK, CreateInv, [Next]_vars
    PROVE  CreateInv'
  <1>0. /\ owned_tables \subseteq owned_tables'
        /\ statement \in [Session -> {"idle", "scanning", "creating", "planned"}]
    BY CacheStep DEF TypeOK
  <1>1. ASSUME NEW s \in Session, CreateTableReturn(s) PROVE CreateInv'
    <2>1. {table_name[s]} \cap Live \subseteq owned_tables'
      BY <1>1, BindFindsLiveTable DEF CreateTableReturn, PlainCreates
    <2>2. \A r \in Session : statement'[r] # "planned"
      BY <1>0, <1>1 DEF CreateTableReturn, CreateInv
    <2> QED
      BY <1>0, <1>1, <2>1, <2>2 DEF CreateTableReturn, CreateInv
  <1>2. ASSUME NEW s \in Session, NEW t \in Table,
               \/ LookupEntry(s, t) \/ ScanBind(s, t) \/ CreateTableFails(s, t)
        PROVE  CreateInv'
    BY <1>0, <1>2 DEF LookupEntry, ScanBind, CreateTableFails, CreateInv, sessions
  <1>3. ASSUME NEW s \in Session, NEW t \in Table, CreateTable(s, t)
        PROVE  CreateInv'
    BY <1>0, <1>3 DEF CreateTable, CreateInv
  <1>4. ASSUME NEW s \in Session, ScanFetch(s) \/ ScanDone(s) PROVE CreateInv'
    BY <1>0, <1>4 DEF ScanFetch, ScanDone, CreateInv
  <1>5. ASSUME NEW s \in Session,
               \/ \E t \in Table : PlanCreateTableAs(s, t)
               \/ ExecuteCreateTableAs(s) \/ CreateTableAsFails(s)
        PROVE  FALSE
    BY <1>5 DEF PlanCreateTableAs, Starts, ExecuteCreateTableAs,
                CreateTableAsFails, CreateInv, PlainCreates
  <1>6. CASE RemoteNext
    BY <1>0, <1>6 DEF RemoteNext, RemoteCreate, RemoteDrop, CreateInv, sessions
  <1>7. CASE UNCHANGED vars
    BY <1>7 DEF vars, cache, sessions, CreateInv
  <1> QED
    BY <1>1, <1>2, <1>3, <1>4, <1>5, <1>6, <1>7
       DEF Next, SessionNext, ScanLoaded, ScanFails

-----------------------------------------------------------------------------
\* One session: while its CREATE TABLE AS is planned the cache admits to be
\* incomplete, and while it scans, created tables are cached or yet to be
\* bound.
LoneInv ==
    /\ CreatedTableVisible
    /\ created \subseteq Live
    /\ tables_mutex # None => created \subseteq owned_tables \cup table_names
    /\ \A s \in Session :
          /\ statement[s] # "creating"
          /\ statement[s] # "idle" => s \in environment.sessions
          /\ statement[s] = "planned" => ~tables_loaded

\* Every step of a lone session, and of the other clients of the database,
\* keeps LoneInv.
LEMMA LoneStep ==
    ASSUME LoneCtas, TypeOK, LoneInv, [Next]_vars
    PROVE  LoneInv'
  <1>0. /\ None \notin Session
        /\ statement \in [Session -> {"idle", "scanning", "creating", "planned"}]
        /\ remote \in [Table -> {"absent", "live", "dropped"}]
        /\ owned_tables \subseteq owned_tables'
        /\ environment' = environment
    BY CacheStep, EnvironmentStep, TableAssumption DEF TableAssumption, TypeOK
  <1> USE DEF LoneInv, CreatedTableVisible
  <1>1. ASSUME NEW s \in Session, NEW t \in Table, LookupEntry(s, t) PROVE LoneInv'
    BY <1>0, <1>1 DEF LookupEntry, Live, sessions
  <1>2. ASSUME NEW s \in Session, NEW t \in Table, ScanBind(s, t) PROVE LoneInv'
    <2>1. t \in Live => t \in owned_tables'
      BY <1>2, BindFindsLiveTable DEF ScanBind, LoneCtas, MayFail
    <2>2. created \subseteq owned_tables' \cup table_names'
      BY <1>0, <1>2, <2>1 DEF ScanBind, TypeOK
    <2> QED
      BY <1>0, <1>2, <2>2 DEF ScanBind, Live, sessions
  <1>3. ASSUME NEW s \in Session, ScanFetch(s) PROVE LoneInv'
    <2>1. Live \subseteq table_names'
      BY <1>3 DEF ScanFetch, FetchTableNames, LoneCtas, MayFail
    <2>2. /\ statement'[s] = "scanning" /\ s \in environment.sessions
          /\ \A r \in Session : r # s => statement'[r] = statement[r]
      BY <1>0, <1>3 DEF ScanFetch, Starts
    <2> QED
      BY <1>0, <1>3, <2>1, <2>2 DEF ScanFetch, Live, cache
  <1>4. ASSUME NEW s \in Session, ScanDone(s) PROVE LoneInv'
    <2>1. created \subseteq owned_tables
      BY <1>0, <1>4 DEF ScanDone, TypeOK
    <2>2. /\ statement'[s] = "idle"
          /\ \A r \in Session : r # s => statement'[r] = statement[r]
      BY <1>0, <1>4 DEF ScanDone
    <2>3. \A r \in Session : r # s => statement[r] = "idle"
      BY <1>4 DEF ScanDone, LoneCtas
    <2> QED
      BY <1>0, <1>4, <2>1, <2>2, <2>3 DEF ScanDone, Live
  <1>5. ASSUME NEW s \in Session, NEW t \in Table, PlanCreateTableAs(s, t)
        PROVE  LoneInv'
    <2>1. /\ statement'[s] = "planned" /\ s \in environment.sessions
          /\ \A r \in Session : r # s => statement'[r] = statement[r]
      BY <1>0, <1>5 DEF PlanCreateTableAs, Starts
    <2> QED
      BY <1>0, <1>5, <2>1 DEF PlanCreateTableAs, LazyLoadNewTables, Live
  <1>6. ASSUME NEW s \in Session, ExecuteCreateTableAs(s) PROVE LoneInv'
    <2>1. /\ ~tables_loaded
          /\ tables_mutex = None
      BY <1>0, <1>6 DEF ExecuteCreateTableAs, TypeOK, LoneCtas
    <2>2. /\ table_name[s] \in Table
          /\ Live' = Live \cup {table_name[s]}
      BY <1>0, <1>6 DEF ExecuteCreateTableAs, RemoteCreated, Live, TypeOK
    <2>3. /\ statement'[s] = "idle"
          /\ \A r \in Session : r # s => statement'[r] = statement[r]
      BY <1>0, <1>6 DEF ExecuteCreateTableAs
    <2> QED
      BY <1>0, <1>6, <2>1, <2>2, <2>3 DEF ExecuteCreateTableAs, cache
  <1>7. ASSUME NEW s \in Session, CreateTableAsFails(s) PROVE LoneInv'
    <2>1. /\ statement'[s] = "idle"
          /\ \A r \in Session : r # s => statement'[r] = statement[r]
      BY <1>0, <1>7 DEF CreateTableAsFails
    <2> QED
      BY <1>0, <1>7, <2>1 DEF CreateTableAsFails, Live, cache
  <1>8. ASSUME NEW s \in Session,
               \/ CreateTableReturn(s)
               \/ \E t \in Table : CreateTable(s, t) \/ CreateTableFails(s, t)
        PROVE  FALSE
    BY <1>8 DEF CreateTableReturn, CreateTable, CreateTableFails, Starts, LoneCtas
  <1>9. CASE RemoteNext
    <2>1. PICK t \in Table : RemoteCreate(t) \/ RemoteDrop(t)
      BY <1>9 DEF RemoteNext
    <2>2. CASE RemoteCreate(t)
      BY <1>0, <2>2 DEF RemoteCreate, RemoteCreated, Live, cache, sessions
    <2>3. CASE RemoteDrop(t)
      BY <1>0, <2>3 DEF RemoteDrop, Live, cache, sessions
    <2> QED
      BY <2>1, <2>2, <2>3
  <1>10. CASE UNCHANGED vars
    BY <1>10 DEF vars, cache, sessions, Live
  <1> QED
    BY <1>1, <1>2, <1>3, <1>4, <1>5, <1>6, <1>7, <1>8, <1>9, <1>10
       DEF Next, SessionNext, ScanLoaded, ScanFails

\* After a CREATE TABLE every session finds the table, even if others scan,
\* look up and create tables at the same time; a lone session finds the tables
\* of its CREATE TABLE AS.
THEOREM CreatedIsVisible == Spec => []CreatesAreVisible
  <1> DEFINE Inv == (PlainCreates => CreateInv) /\ (LoneCtas => LoneInv)
  <1>1. Init => Inv
    BY TableAssumption
       DEF Init, CreateInv, LoneInv, CreatedTableVisible, TableAssumption
  <1>2. ASSUME TypeOK, Inv, [Next]_vars PROVE Inv'
    <2>1. (PlainCreates => CreateInv)'
      BY <1>2, EnvironmentStep, CreateStep DEF PlainCreates, MayFail
    <2>2. (LoneCtas => LoneInv)'
      BY <1>2, EnvironmentStep, LoneStep DEF LoneCtas
    <2> QED
      BY <2>1, <2>2
  <1>3. Inv => CreatesAreVisible
    BY DEF CreateInv, LoneInv, CreatesAreVisible, CreatedTableVisible
  <1> HIDE DEF Inv
  <1> QED
    BY <1>1, <1>2, <1>3, TypeCorrect, PTL DEF Spec
=============================================================================
