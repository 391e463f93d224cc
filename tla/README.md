# A TLA+ model of the DuckDB ADBC extension

This directory holds TLA+ modules that model the core of the extension in
`src/src/`, TLC configurations that check them on small instances, and proofs
that TLAPS checks for every value of the constants. `PROJECT.json` is the index:
components, runs, the source lines each definition stands for, hazards,
findings and theorems.

## The system

The extension lets DuckDB read and write a remote database through an ADBC
driver. `ATTACH` creates an `AdbcCatalog`; SQL statements then ask the catalog
for schemas and tables, lease connections from its pool, scan remote tables and
insert into them. DuckDB runs statements of several sessions at the same time,
and an INSERT uses a second thread. (README.md:255 of the repository declines
concurrent ADBC operations within a process, DESIGN.md:7-9 says that catalog
requests run concurrently and are serialized with mutexes. The models take the
code at its word: it has the mutexes, and DuckDB does run sessions in parallel.)

| Part | State | Operations | What is hard |
|---|---|---|---|
| INSERT / CREATE TABLE AS (`adbc_insert.cpp`) | a buffer of rows, flags `done`, `canceled`, `full`, counters, the status of the insert thread | `GetGlobalSinkState`, `Sink`, `Finalize`, `GetDataInternal`, destructor; `AsyncInsert`, `get_next`, `release` on the insert thread | two threads, two condition variables, failure of either side at any moment, an abort while the driver pulls |
| Connection pool (`adbc_connection_pool.cpp`) | idle connections, the number lent | `GetConnection`, `ReturnConnection`, ephemeral connections | concurrent leases, the limit, a pool that outlives its catalog |
| Table cache (`adbc_schema_entry.cpp`) | table entries, `tables_loaded` | `LookupEntry`, `Scan`, `CreateTable`, `LazyLoadNewTables` | a negative answer from a cache, two critical sections in one operation, planning and execution of CTAS apart |
| Schema cache (`adbc_catalog.cpp`) | schema entries, schema names, `no_schemas` | `LookupSchema`, `ScanSchemas`, `GetCachedSchemaNames`, `ClearCache` | references and entries used after the mutex is released, clearing during a fetch |
| Scans (`adbc_scan.cpp`, `adbc_table_entry.cpp`) | a connection, a statement, a stream | bind, schema, projection, produce stream | every call may throw, a prepared statement runs again with other columns, a stream must not outlive its statement |
| `adbc_execute`, `adbc_clear_cache` | a `finished` flag in the bind data | the table functions | a prepared statement executed again |
| Transactions (`adbc_transaction.cpp`) | a map of transactions | start, commit, rollback | the autocommit question over a pooled connection, answered into a buffer of fixed length |
| ATTACH and options (`adbc_storage.cpp`, `adbc_extension.cpp`) | settings | registration, validation | none; the validation is the source of the assumptions |
| Driver manager, handles (`adbc_driver_manager_api.cpp`, `adbc.h`) | the C structs of databases, connections, statements, streams and errors, and the table of driver functions | about 60 `Adbc...` calls | a field with two meanings, a driver that fails at any call and is freed while others point to it, drivers of two versions |
| Driver manager, search (`adbc_driver_manager.cpp`, `..._driver_loading.cpp`, `..._profiles.cpp`) | the options collected before Init, profiles and manifests on disk | option parsing, profiles, the search for manifest and library, the entry point | many sources of the same option, two lists of directories with early exits |
| nanoarrow (`adbc_nanoarrow.h`, `adbc_nanoarrow.cpp`) | schemas and arrays under construction | type setters, format parser, appends, validation, getters | bits across byte boundaries, offsets at their limits, nodes that must stay in step, setters that fail halfway |
| `adbc_utils` | none | builds the metadata layouts of ADBC for driver authors | not used by the extension |

The parts interact by calls: the catalog, the schema entries, scans, inserts and
transaction starts all lease from the pool; `PlanInsert` and `PlanCreateTableAs`
copy the `shared_ptr` of the pool into the operator; `PlanCreateTableAs` clears
`tables_loaded` of a schema entry; `ClearCache` destroys the schema entries.
Everything that talks to the remote database does so through the handles of the
driver manager, which finds and loads the driver when a database is initialized.

What makes each part correct:

* INSERT: the driver receives exactly the rows of the query, in order; success
  means that it received all of them; an aborted statement never looks complete;
  the buffer is bounded; no thread waits for ever.
* Pool: one owner for each connection, none leaked or used after it was closed,
  never more than the limit, closed after DETACH.
* Caches: nothing cached that the remote database never had; nothing hidden that
  it has; entries stay valid while they are used; `adbc_clear_cache()` makes the
  cache forget.
* Clients of a connection: objects end in the reverse order in which they were
  made, on every path; a connection goes back to the pool clean; DuckDB reads the
  query it asked for; a command runs once.
* Driver manager: no call reads a struct as the wrong kind, calls a freed driver
  or jumps through an empty slot; no option that was set is silently lost; what
  the application says wins over profiles; the first directory with a driver wins
  (the header says so of both, the code has exceptions, which the properties name).
* nanoarrow: a schema reads back as it was written; an array is valid and reads back
  what was appended, whatever calls were refused meanwhile.

## Modules

| Module | Models | Checked by | Proofs |
|---|---|---|---|
| `AdbcInsert` | the operator, its two threads and an external driver | `insert` | `AdbcInsertProofs` |
| `BulkInsert` | the abstract specification that `AdbcInsert` implements | `insert` (`ImplementsBulkInsert`) | `AdbcInsertProofs!Refinement` |
| `ConnectionPool` | the pool, its clients and owners | `pool` | `ConnectionPoolProofs` |
| `TableCache` | one `AdbcSchemaEntry`, its sessions and the remote schema | `tables`, `tables_create_hides` | `TableCacheProofs` |
| `SchemaCache` | one `AdbcCatalog`, its sessions and the remote database | `schemas`, `schemas_names` | `SchemaCacheProofs` |
| `DriverManager` | the handles, the function table and every call of the driver manager, with any client that keeps the contract of `adbc.h` | `manager`, `init_options` | `DriverManagerProofs` |
| `AdbcClient` | scans, `adbc_execute`, ingestion, transactions and metadata requests as clients of `DriverManager`, which they refine | `client` (`KeepsContract`) | `AdbcClientProofs` |
| `DriverLoading` | what `AdbcDatabaseInit` does before there is a driver: options, profiles, search, entry point | `loading` | `DriverLoadingProofs` |
| `ArrowLayouts`, `ArrowBits` | nanoarrow's buffer layouts; its bit buffers: setting, appending and reading bits | `arrow` | `ArrowProofs` |
| `ArrowLeaves`, `ArrowLeafBuilder` | one node of an array: appending to it, validating it, reading it; a caller that builds an array without children | `arrow` | `ArrowProofs` |
| `ArrowSchemas`, `ArrowArrays` | nanoarrow's schemas, and building, validating and reading arrays with children | `arrow`, `unions_without_values` | |
| `MC...` | the instances for TLC | | |

In each module the mutated forms of some definitions (`OnlyMemoryFills`,
`ExhaustedLate`, ...) stand right before the definition they are a mutation of.
They are plausible bugs, used to see that every property can fail; the
specifications do not use them.

### AdbcInsert

The variables are the members of `AdbcInsertGlobalState` under their own names,
a program counter for each of the two threads, the array that `get_next` has
filled, and the driver's side (`delivered`, `ingested`, `stream_ended`, `table`).

What runs under one acquisition of `insert_mutex` is one action. This loses no
interleaving: what it touches is touched only under the mutex, with two
exceptions that are actions of their own. The `notify_one` calls come after the
unlock, so there is a step between a change and its notification. And `get_next`
returns `canceled ? ECANCELED : 0` after the unlock (adbc_insert.cpp:275), while
the destructor may write `canceled`; `CanceledRead` allows either value in that
case. `status` and `rows_affected` are written by the insert thread and read
after the join.

A `cv.wait` is the pair of states `sink_wait` / `sink_ready` (and `next_wait` /
`next_ready`): a notification or a spurious wakeup moves the thread from the
first to the second, and there it evaluates its predicate under the mutex.

Data: a row is its position in the input. `ColumnDataCollection` is external; of
it the model keeps that a scanned chunk has up to `VectorSize` rows, so that rows
of several small Sinks come back in one chunk. Memory use is a free choice at
each Sink. The driver is external too: it pulls until the stream ends, may fail
at any call, may lose rows silently (`LossyDriver`), reports -1 or the number of
rows it has inserted, and releases the stream before the insert thread exits.

`Enqueue` keeps the early return of `Sink` for `canceled`, although it is dead
code: only the destructor sets `canceled`, and no Sink runs then.

### BulkInsert

The promise without threads: rows are accepted, delivered in order as a growing
prefix, sealed only when the input is closed and all of it delivered; success
needs the seal (or an empty input); nothing is delivered after success or
failure; rows in flight may still arrive after an abort, but no seal. The
refinement mapping takes `phase` from `outcome` and the producer's position.

### ConnectionPool

A client is an `AdbcPooledConnection` together with the code that owns it. The
pool is shared: the catalog, the planned INSERT operators and the pooled
connections all hold a `shared_ptr`. `DropReference` is what happens when one of
these goes away, and the last one closes the idle connections.
`~AdbcPooledConnection` is two steps, `ReturnConnection` under the mutex and the
end of its own `shared_ptr`, because between the two the catalog may be detached.

### TableCache

One schema. `CreateTable` is two actions because the code releases
`tables_mutex` between them; `Scan` holds the mutex over many steps, because each
of its remote calls sees the remote schema at a different moment. The remote
schema changes by other clients (`RemoteCreate`, `RemoteDrop`). A table is
`dropped` rather than `absent` afterwards, so that "the schema never had it" can
be said. `FetchTableNames` may return names of other schemas, because the schema
name is a search pattern to `GetObjects`, and may miss names when the stream
fails, because `ForEachCatalog` takes an error for the end.

`environment` says what may happen in a behaviour: which sessions run which
kinds of statements, which remote calls may fail, whether others change the
schema. It never changes. Properties that hold only in some environments say in
which (`ReadOnly`, `PlainCreates`, `LoneCtas`); that is how one run checks all.

### SchemaCache

`LookupSchema` and `ScanSchemas` with the steps between their critical sections.
`GetCachedSchemaNames` returns a reference, so the caller reads the names after
the mutex is free (`"read"`); if they were replaced meanwhile, the result of the
read is arbitrary. `always` and `sometime` are history: the schemas that existed
all the time, or at some time, since the last `ClearCache`. `schema` and `entry`
are what a statement keeps after the lookup. The internal name `""` is the only
schema of a database without schemas, shown to users as `main`. `truncating`
says whether the streams of names may break off, which `ForEachCatalog` takes for
their end; `cleared`, whether `adbc_clear_cache()` has been called yet.

### DriverManager

`db`, `conn`, `stmt` and `stream` are the C structs that a client holds. Of
`private_data` the model keeps whose it is: the manager's own `TempDatabase` or
`TempConnection` before Init, the driver's afterwards. `heap` is what is allocated
and not yet freed on either side, `driver` the function table with what the driver
implements and what the manager has filled with stubs, `error` where the details
of the last error live. Functions that only forward (some forty of them) are
`ConnectionCall`, `ConnectionQuery` and `StatementCall` with the slot as parameter;
each returns any status the driver may return, or the stub's.

A Release hands `private_data` to the driver and clears `private_driver` afterwards,
whatever the driver has returned (adbc_driver_manager_api.cpp:1166-1169, 1415-1418).
A driver that returns an error may have freed the object or kept it with its data:
`ReleaseObject` chooses (`kept`), `heap` then has an object `"refused"`, and the handle
has data without a driver (`Refused`). The manager reads such a connection as one
before Init, with a `TempConnection`. `adbc.h` does not say whether a client may call
Release again; this client does what the extension does and only reuses the struct
with a New (`Unmade`), so that the object leaks.

`Next` is a client that does whatever the contract of `adbc.h` allows: it does not
use a struct before New or after Release, and ends children before parents. The
guards of `ClientDatabase`, `ClientConnection`, `ClientStatement` and
`ClientStream` are that contract. There is one database with one connection: the
manager keeps no state across databases.

### AdbcClient

The operations of the extension that use a connection, call by call, with the path
each takes when a call fails; the header of the module lists them. `pc` is the
call that comes next. Destructors are the calls behind `unwind`: the statement,
then the return of the connection or its release, then the database. One operation
at a time uses the connection; that this is so is `ExclusiveLease` of
`ConnectionPool`. Between operations the connection may lie in the pool (`idle`)
and serve the next one, or DETACH may close it. `KeepsContract` is the refinement:
every step is a step of `DriverManager!Spec` or leaves its variables alone, so what
run `manager` shows of every client holds of the extension.

### DriverLoading

A behaviour is one call of `AdbcDatabaseInit`, on Linux without conda, and it is
deterministic: the constant `Scenarios` is the set of calls, each with the options
that were set, the environment variables and the files that can be opened. A string
is a sequence of the parts that the code tells apart, such as `":"`, `"/"`,
`".toml"`, `"lib"`. The TOML parser and `dlopen` are external: a file is a library
with symbols, a manifest or profile with its fields, or malformed.

### The Arrow modules

A node of an array is a record with its buffers as sequences. A byte of a
bit-packed buffer is the set of its bits that are 1 (`ArrowBits`); other elements
are whole. `junk` is what `realloc` leaves in a fresh byte: all zeros or all ones.
`log` is history: what each node was told to hold. It is built from the calls
alone, and `LeafReadsBack` and `RoundTrip` compare it with what the getters return.
An element of a union is told as its child and the rows that child was given for it:
in a sparse union those at or behind the element's own row, in a dense one the last of
the child. One row is right; none or several are a misuse of the calls, which the code
may or may not refuse.
`Int32Max`, `InlineSize` and `BlockSize` stand for `INT32_MAX`, 12 and 32 KiB, scaled
down in the runs so that a few appends reach them, and arbitrary in the proofs.

`ArrowLeaves` has what nanoarrow does to one node without a look at its children:
every append of a value, the part of `_ArrowArrayAppendEmptyInternal` behind its
calls for the children, the tests of the validator and the getters. Neither it nor
`ArrowLayouts` and `ArrowBits` have a recursive operator. `ArrowLeafBuilder` is a
caller with an array of any type that has no children (numbers, booleans, decimals,
intervals, strings, binaries, views, nulls), who makes any appends in any order,
wrong ones too.

Beside its bytes a boolean buffer has the `capacity` of its allocation. Appending
several booleans at once makes room for one (adbc_nanoarrow.h:3131-3137) and then
writes them all. Bits behind the size and within the capacity are lost when the buffer
grows; bits behind the capacity overwrite foreign memory, which is undefined. Then
`overrun` is set for good and nothing is said of the array any more.

`ArrowArrays` uses the same operators for trees. A caller first sets the types of a
schema and its children (the root perhaps twice), then makes an array of it, appends
to any node in any order, goes on after a refused call with whatever that call has
left behind (a sparse union, say, some of whose children were extended), and finishes
it at some validation level. `MCArrow` has a behaviour of either caller. `ArrowSchemas`
has operators only: the setters, which return a code together with the schema they
leave behind, and the parser of format strings. A format string is a sequence of
tokens, and the numbers in it are numerals (`ToString`), so that writing and parsing
are two different conversions.

## Runs

Each run finishes within three minutes.

* `insert` (68,012 states): chunks of 1 or 2 rows, a buffer of 2 chunks, up to 6
  rows. The buffer fills, is drained and filled again; chunks are merged; both
  modes (APPEND, CTAS), with and without materialization, and every failure, at
  every point. Seven invariants (two of them say that the threads never wait for each
  other in vain), the refinement of `BulkInsert`, a bound on the steps that are left
  (`StepsRunOut`), and that every statement ends (`StatementEnds`).
* `pool` (29,420 states): 3 clients, 4 connections, a limit of 2. More clients
  than the limit, so that ephemeral connections appear next to idle ones.
* `tables` (49,283 states): 2 sessions, 3 table names, four environments.
* `tables_create_hides`: expected violation.
* `schemas` (about 1.75 million states): 2 sessions, 3 schema names, 3 entries,
  with `adbc_clear_cache()` at any time, and streams that may break off.
* `schemas_names`: expected violation.
* `manager` (34,078 states): one statement, two streams, two options of different
  kinds, and three drivers: a complete one, one of ADBC 1.0.0 with what is required,
  and one that lacks a required function.
* `init_options`: expected violation.
* `client` (433,671 states): two operations, bound data executed up to twice, two
  drivers. The second operation may get the connection the first has returned, and
  may be of any kind.
* `loading` (132,202 states): every combination of what the four search
  directories may hold (nothing, a library with or without suffix, a manifest of
  this or another platform, with or without a library beside it, pointing somewhere or
  nowhere, malformed), a relative directory that starts with `lib`, every form
  of driver, URI and profile; the application sets nothing the profile has, the same, or
  a string or floating point number where the profile has an integer.
* `arrow` (542,701 states). Arrays without children: ten storage types, one or two for
  each kind of buffer; four
  successful appends among any number of refused ones, with values on both sides of
  the limits of a type, of the inline size, of a block of 7 bytes and of an offset
  limit of 6, and up to eight nulls or empty elements in one call. Schemas: every setter
  with parameters on both sides of its
  limits, every ordered pair of setters on one schema, some formats that only other
  writers produce. Arrays of 19 storage types, their children bits, strings or bytes,
  sparse unions of three children,
  and any three calls with values, nulls or eight empty elements at once, those that
  are refused included.
* `unions_without_values`: expected violation.

Why the bounds are enough: the threads of an INSERT synchronize on "full",
"empty" and "done" only, and six rows pass twice through each; the pool and the
caches treat all clients, tables and schemas alike, so that two or three of each
give every pair of roles. The driver manager keeps nothing between objects but the
pointers in them, so one of each kind with two streams (one of a statement, one of the connection) shows
every order of release. Two operations are enough for what one may leave to the next.
In `arrow` eight elements make a whole byte, so that three appends write inside a
byte, up to its end and across it, from an aligned and from an unaligned start.
Every safety property of the passing runs is also proved without the bounds, except
for the three of `arrow` about schemas and arrays with children; what concerns one node
of an array is proved (`LeafReadsBack`, `LeafIsValid`).

`MaxOperations` and `MaxExecutions` bound `AdbcClient`, `MaxCalls` the calls that
change an array in `ArrowArrays` and `ArrowLeafBuilder`; each appears in one guard.

`MaxRows` bounds the input of an INSERT; it appears only in the guard of `Sink`.
The theorems hold for every `MaxRows`.

### Fairness

`AdbcInsert!FairSpec` assumes weak fairness of each thread: DuckDB keeps running
a pipeline until it is finalized or destroyed, and the driver keeps pulling or
returns. Nothing is assumed of spurious wakeups, so the notifications have to do
the work. `ConnectionPool!FairSpec` assumes that a connection in use is
eventually given back (weak fairness of `Unwind`) and that a planned operator is
eventually destroyed (strong fairness, because the operator can be destroyed
only between two leases). DETACH is not assumed to happen.

`AdbcClient` and `DriverManager` have no liveness properties: nothing in them waits.
Every run checks for deadlock except those of the Arrow modules: an array that has been
built and read is the end of what its caller does with it.

### What the expected violations show

1. `tables_create_hides`: `CREATE TABLE` in a schema whose tables were not loaded
   sets `tables_loaded`, and every other table of the schema is gone for DuckDB
   until `adbc_clear_cache()`.
2. `schemas_names`: `adbc_clear_cache()` changes the list of names while another
   session iterates over it outside the mutex.
3. `init_options`: `AdbcDatabaseInit` applies the options in four loops, one for each
   kind, which share one `status`: a string option that the driver rejects is forgotten
   when an integer option is accepted after it, and the database is initialized
   without it. `AdbcConnectionInit` does it right (`ConnectionOptionsAccepted`).
4. `unions_without_values`: `ArrowArrayFinishUnionElement` succeeds although the chosen
   child was given no value: a sparse union does not look at the chosen child (3755-3758),
   and a dense one whose child is empty writes the row -1 (adbc_nanoarrow.h:3749-3751),
   which the default validation accepts; the header says at 1996-1999 that the call fails when the sizes of the
   children are inconsistent.

### Observations without a run

These came up while modelling. The models contain the behaviour; the properties
are stated so that they allow it.

* INSERT: `active_chunks` is not reset with the buffer and is decremented once for a
  merged chunk, so it drifts upwards and the limit is reached too early, never too
  late (`ActiveChunksCoverBuffer`). After the insert thread has failed, every
  Sink appends without limit until `Finalize` reports the error.
* Caches: `PlanCreateTableAs` clears `tables_loaded` before the table exists
  (adbc_catalog.cpp:210); a scan of another session before the execution sets it
  again, and the new table stays invisible, although DESIGN.md:16 says that metadata
  that misses the cache is queried. A lone session is safe (`LoneCtas`).
* A stream of table names that breaks off marks the schema as loaded, with
  the same effect as `tables_create_hides`.
* Clients: `read_adbc` runs its query once at bind and again at the scan when the
  driver has no `ExecuteSchema`; a prepared `adbc_execute` that is executed again does
  nothing.
* `adbc_clear_cache()` destroys schema and table entries that other sessions got from
  a lookup and still use; `EntriesInUseAreOwned` holds until the first call of it.
* Driver manager: the `TempDatabase` leaks when the driver's `DatabaseNew` fails
  (adbc_driver_manager_api.cpp:776-785), excepted in `HandlesMatchHeap`; the error of
  a failed `AdbcDatabaseRelease` points into the driver it has just freed (842-862),
  excepted in `ErrorDetailsReachDriver`; a failed `StatementNew` leaves
  `private_driver` set (1388-1399). A client that calls `AdbcConnectionRelease` or
  `AdbcConnectionSetOption` again after a Release that the driver refused would have the
  driver's data read, and deleted, as a `TempConnection` (1157-1160, 1189-1191); the
  extension does not.
* Options: adbc_driver_manager.h:197-199 says that a profile does not override what was
  set with `DatabaseSetOption`. `ExplicitOptionsWin` says so of the last value the driver
  is given under a key, with two exceptions, in which the code does override it. There
  is a map for each kind of option, and a number of the profile is applied after a
  string, or an integer, of the application under the same key
  (adbc_driver_manager.cpp:569-591, api.cpp:793-822; `OverriddenByNumber`); and a URI in
  the profile's driver replaces the one that was set (496-499; `OverriddenByDriver`).
* Driver search: adbc_driver_manager.h:92-100 gives the order of the directories, and
  for each the manifest, `erroring if this fails`, and then the library. `FindsFirst`
  states it with three exceptions, in which the code goes past what a directory holds.
  A library `<dir>/<name>.so` is not opened, because the prefix `lib` is put in front of
  the whole path (adbc_driver_manager_driver_loading.cpp:715-726; `MissesLibrary`). A
  manifest without a library for this platform is not an error (`OtherPlatform`). Nor is
  one whose library cannot be loaded (`Dangles`), which moreover hides the later
  directories of its list (`IsHidden`).
* Also in loading: a manifest of another platform leaves its entry point behind, and a
  manifest's entry point replaces an explicit one; a failed Init keeps what it has
  applied of the profile; an empty user configuration directory makes the relative
  directory `drivers` be searched.
* nanoarrow: several nulls or empty values appended at once to a boolean array get
  room for one (adbc_nanoarrow.h:3131-3137). The others are written behind the size of
  the buffer, and behind its allocation when that is used up: a heap overflow, after
  which `LeafReadsBack`, `LeafIsValid`, `BuiltArraysAreValid` and `RoundTrip` claim
  nothing (`overrun`). Short of that `FinishBuilding` refuses the array (`ShortBits`).
* Also in nanoarrow: an element of a sparse union is finished without complaint when
  its child was given several values; appending empty
  elements to a dense union casts the row to 32 bits unchecked (3164; `RowsFit`), which
  the default validation accepts; run ends are tied to each other, to the values and to
  the length by the validation alone (`RunsOutOfStep` says which do not fit); only the
  root's type ids are compared with the child indices; a setter that fails with `EEXIST`
  has replaced the format already; `+w:0` is accepted; the full validation in
  `FinishBuilding` refuses every union.

## Proofs

Everything listed under "theorems" is proved for all values of the constants
that satisfy the named assumptions. What each assumption says, and why it holds:

| Assumption | Says |
|---|---|
| `InsertAssumption`, `PoolAssumption` | sizes are positive, which the validation of the options guarantees; finitely many clients |
| `TableAssumption`, `SchemaAssumption` | types of the constants |
| `StatementsAssumption` | a statement handle is none of the names the model gives to other allocations |
| `OptionsAssumption`, `UriAssumption` | an option has one of the four kinds of the API; the URI is one of the options |
| `TablesAssumption` | a driver's table has only members of `struct AdbcDriver`; which of them it fills is open |
| `BoundsAssumption` | the bounds of `AdbcClient` are numbers |
| `ArrowLimitsAssumption` | the limits of nanoarrow are numbers |
| `LeafBuilderAssumption` | the types of the constants; a fixed size binary has a positive width, which `ArrowSchemaSetTypeFixedSize` checks |
| `ScenariosAssumption` | a call has the fields of `TempDatabase`; search paths and environment variables are strings, with any contents |

Nothing is assumed of what a driver returns, of the number of statements, streams
and options, or of the files on disk. Some theorems are not repeated by a run: the
type invariants; `MaterializedFirst`, which the refinement of `BulkInsert` implies;
`ChunkCountCovers`, which the bound of the buffer rests on; and `TableIsComplete`.

* `AdbcInsertProofs`. The inductive invariant `IndInv` has, besides the types,
  a control part and a data part. The control part ties the two program counters
  to the flags: `canceled` and an `aborted` outcome belong to the destructor, the
  insert thread exists exactly after the first successful Sink, before it
  releases its stream `done` comes only from `Finalize` or the destructor, and a
  thread that waits for a full buffer was not the first. The data part says that
  `delivered`, the array under way and the unscanned rows of `collection` are,
  one after the other, the numbers 1 to `insert_count`; without the array and the
  scan position no step of `get_next` could be shown to keep the order. The bound
  of the buffer needs that `full` is set as soon as `active_chunks` reaches
  `max_chunks` and that `active_chunks` covers the rows appended since the last
  reset. `Refinement` shows that the initial states map to initial states of
  `BulkInsert` and every step to a step of it or to a stutter.

  Progress is proved as far as the prover goes. `ProgressInv` adds to `IndInv` that a
  thread asleep although its predicate holds has a notification coming
  (`NoLostWakeup`), that the insert thread ends only after it has set `done`, and that
  nothing fills the buffer before the thread starts. `NoMutualWait` follows: unless the
  statement is over, one of the threads can move without a spurious wakeup.
  `StepsBounded` is the other half: `StepsLeft` counts rows not yet accepted,
  rows not yet scanned, the flags still to be cleared and the position of each
  thread, and every step but a spurious wakeup makes it smaller. The weights are what
  makes it work: a Sink of one row may cost a wakeup, a scan, a reset and a
  notification, hence 21 for a row, and 5 for whatever sends `get_next` round once more.
  Together they leave nothing of `StatementEnds` but the fairness of the threads.
* `ConnectionPoolProofs`. The invariant is the conjunction of the five safety
  properties, with the state of a client tied to its lease. The cardinality of
  the set of pooled clients changes by one with each lease and return
  (`FiniteSetTheorems`).
* `TableCacheProofs`. `CacheStep` (a step adds at most one live table to the
  cache) carries `CachedMeansExisted` and `EntriesStay`. Completeness in read-only
  use needs that, while a Scan runs, what is not cached yet is among the names it
  has left (`ReadInv`). Visibility needs `CreateInv` (created tables are cached)
  where only `CREATE TABLE` is used, and `LoneInv` (a planned `CREATE TABLE AS`
  implies an unloaded cache) for a lone session.
* `SchemaCacheProofs`. `NamesFreshSinceClear` needs that the names under way in a
  fetch are as fresh as the cached ones, which holds because `ClearCache` waits
  for the mutex. `InternalNames` says that in a database without schemas nothing
  is ever stored under `main`. `StableInv` carries `EntriesInUseAreOwned` until the
  first `adbc_clear_cache()`: it is conditional on `~cleared`, and a step that
  clears makes it hold trivially.

* `DriverManagerProofs`. `HandlesMatchHeap` is not inductive alone. `IndInv` adds
  `DriverAllocated` (the driver's two allocations exist exactly while the database
  has a driver) and `Owned` (a connection needs the database's driver, statements
  and open streams need the connection). With them each release is seen to come
  last: `AdbcDatabaseRelease` may free the driver because the contract has ended the
  connection, and `Owned` then says that nothing else is left. An object that the driver
  refused to release is in neither: its handle has no driver any more, so it may outlive
  the driver's table, and `HandlesMatchHeap` says that such a handle comes from nothing
  but a refused Release. The proof has one
  lemma for each call that changes a handle; `QuietStep` covers the others.
  `DatabaseInit` is the long case: it may fail at many places, before and after
  the field `private_data` changes its meaning.
* `AdbcClientProofs`. `ClientInv` says for each `pc` what exists: how far the
  connection is constructed (`ConnectionInv`), which statements there are
  (`StatementInv`: the one that is kept and the one being made, no other), which
  stream is open (`StreamInv`), what the query of the statement is (`TextInv`). The
  invariant is needed because the calls do not test what they use: `ReadSchema`
  releases a stream because `pc` says that there is one. `ClientStep` shows at
  once that a step keeps `ClientInv` and that it is a step of the manager or leaves
  it alone. That gives the refinement `KeepsContract`: the guards of the contract
  (no statement left when the connection is released, no stream left when the
  statement is, nothing used after a failed New) follow from `ClientInv`. The
  invariant of `DriverManagerProofs` then holds of the extension without a second
  proof (`ExtensionNeverDangles`), and `ChildrenEndFirst` and `OperationsCleanUp` use
  both. One part was found by the proof: that `IngestNew` is reached only by an
  ingestion.
* `DriverLoadingProofs`. `OptionsInv` says that before the profile is applied the
  options are those of the call, and after it that every option of the call is as it
  was, in the map of its kind, and every other one of the profile is present. The URI is
  apart (`UriInv`): driver strings and the URI itself change it. `LastGiven` then puts
  the maps in the order in which the driver is given them, and the exceptions of
  `ExplicitOptionsWin` are what is left over (`ExplicitGiven`, `ProfileGiven`).
  `SearchInv` follows the code: what is left to search is the rest of the list behind
  position n, and none of the n directories before it decides (`SearchingIn`, where
  `Decides` is the code's own test); a list that has been left decides nowhere except
  behind a dangling manifest (`Excused`). `PassedOver` and `ExcusedIsHidden` turn this
  into the terms of the header: a directory that holds a driver and does not decide is
  one of the exceptions of `FindsFirst`. The theorem holds for lists of any length.
* `ArrowProofs`. First the bit buffers. `KeptCases` says which bits of each byte the
  masks of `ArrowBitsSetTo` keep, for a range inside one byte, in its first byte, its
  last and those between. From it four theorems say what every bit of the buffer is
  afterwards. `BitsSetExactly` is about ranges inside the buffer, which is all that the
  function promises; that its callers keep to them is the matter of the others:
  `BitmapAppendExactly` makes room first, and `BooleansExactly` shows that one element
  always has its place and its memory, and claims of several only the bits within the
  size. `NullsExactly` is about an array whose bitmap and length are in step
  (`InStep`), and returns one that is again.

  Then arrays without children. `LeafInv` says that the array holds exactly what the
  log says: the bitmap is in step, an element of the log is null exactly where the
  bitmap has a zero, `null_count` is their number, and for each kind of buffer there is
  a predicate on the buffers and the log. `Plain` has an entry for each element. `Bools`
  has a bit for each, and says that the bits for which there was no room are false,
  without which the array would not be right again after the next append (of an array
  that has overrun, the two properties claim nothing). `Texts`
  needs that the last offset is the size of the data, that all offsets ascend and stay
  below it, and that it is within `Int32Max`. `Fixed` has w bytes for each. `Views`
  needs that an entry that is not inline names an existing variadic buffer and a
  range inside it: that is why appending to the last block, or opening a new one,
  leaves the older entries alone. A lemma for each kind (`...GoesOn`) says
  that the buffers may grow at the end without changing what was there; the steps
  (`NumberStep` to `ViewStep`, `EmptyStep`) apply them. `LeavesReadBack`
  and `LeavesAreValid` follow for every storage type, any number of calls and any
  values of the three limits.

Only model-checked, and why:

* `StatementEnds`, `DetachedPoolIsClosed`: liveness, which the
  prover does not do. What they rest on is proved: `NoMutualWait` and `StepsBounded`
  for an INSERT, `LastOwnerEmptiesPool` for the pool.
* `SchemaReadsBack`, `BuiltArraysAreValid`, `RoundTrip`: schemas and arrays are trees
  that recursive operators walk, and numbers in a format string are written and parsed
  digit by digit; what those compute needs induction over data. For arrays
  without children the last two are theorems (`LeavesAreValid`, `LeavesReadBack`).
  `ArrowBitCountSet` is a fold and stays with TLC for the same reason.
* The expected violations.

## Not modelled

* Contents of rows, DuckDB's Arrow conversion, SQL text, error messages, logging.
* An exception in the insert thread (it ends the process) and the health of a
  pooled connection: the code has no behaviour to compare with.
* `ContainsAdbcReads` and the guards of `PlanInsert` and `PlanCreateTableAs`: pure
  functions over DuckDB's plan operators, which throw or wrap.
* The numbers that `GetTableCardinality` reads out of the statistics.
* ATTACH, options, registration: validation only.
* Driver manager: the Windows registry and DLL code, conda, the wording of errors;
  several connections of one database.
* nanoarrow: metadata, names, `ToString`, deep copies, arrays built buffer by buffer
  (`Reserve`, `SetBuffer`, `ArrowArrayViewSetLength`), views of foreign arrays
  (`ArrowArrayViewSetArray` assigns the sizes that the builder knows), comparison,
  the basic array stream, half-float conversion, allocation failures.
* `adbc_utils`: helpers for driver authors that fill fixed layouts with nanoarrow;
  the extension does not call them.

## Plan

Done, in this order: `AdbcInsert` with `BulkInsert`, `ConnectionPool`,
`TableCache`, `SchemaCache`, each with its proofs; `DriverManager`, `AdbcClient` with
its refinement, `DriverLoading`, `ArrowSchemas` and `ArrowArrays`; the proofs about the
driver manager, its client, the driver search and the bit buffers; then the progress
of an INSERT, and arrays without children as a component of their own with
its proofs.

What could come next:

1. `ArrowLeaves`: list and struct nodes, whose children are leaves, as an invariant over
   a tree of fixed depth; that needs `ArrowArrays` without recursive operators.
2. `DriverManagerProofs`: action properties, such as that a statement's stream becomes
   invalid only by a call on that statement.
3. `DriverLoadingProofs`: that a profile's driver never replaces an explicit one.
4. `Catalog`, that is `SchemaCache` and `TableCache` composed with an abstract metadata
   cache, and an INSERT as a client of the pool.
