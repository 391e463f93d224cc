----------------------------- MODULE AdbcInsert -----------------------------
(***************************************************************************)
(* The physical INSERT / CREATE TABLE AS operator of src/adbc_insert.cpp.  *)
(* One DuckDB thread (the producer) runs GetGlobalSinkState, Sink,         *)
(* Finalize, GetDataInternal and finally ~AdbcInsertGlobalState.  The      *)
(* first Sink launches the insert thread (the consumer), which runs        *)
(* AsyncInsert: the ADBC driver pulls Arrow arrays with get_next until the *)
(* stream ends, and releases the stream.  The two threads share the        *)
(* AdbcInsertGlobalState under insert_mutex and sleep on producer_cv and   *)
(* consumer_cv.                                                            *)
(*                                                                         *)
(* What runs under one acquisition of insert_mutex is one action, as       *)
(* nothing outside the mutex touches what it touches.  What happens after  *)
(* the unlock (a notify_one, a join, the unprotected read of canceled) is  *)
(* an action of its own.  A thread in cv.wait leaves it when notified, or  *)
(* spuriously, and then evaluates its predicate again.                     *)
(*                                                                         *)
(* A row is its position in the input, so row i is the i-th row given to   *)
(* Sink.                                                                   *)
(***************************************************************************)
EXTENDS Integers, Sequences

CONSTANTS
    VectorSize,   \* STANDARD_VECTOR_SIZE, the rows of a full chunk (2048)
    max_chunks,   \* the setting adbc_insert_buffer_size
    MaxRows,      \* model bound on the rows of the input
    LossyDriver   \* may the driver skip rows without reporting an error?

\* adbc_insert_buffer_size is validated to be positive when it is set.
ASSUME InsertAssumption ==
    /\ VectorSize \in Nat \ {0}
    /\ max_chunks \in Nat \ {0}
    /\ MaxRows \in Nat
    /\ LossyDriver \in BOOLEAN

VARIABLES
    insert_mode,        \* APPEND or CTAS, fixed when the statement is planned
    materialize_input,  \* the setting adbc_materialize_insert_rows
    \* AdbcInsertGlobalState
    first_insert, done, canceled, full,
    active_chunks,      \* chunks appended minus chunks scanned
    insert_count,       \* rows given to Sink
    status,             \* result of the last ADBC call of the insert thread
    rows_affected,      \* as reported by the driver, -1 when unknown
    collection,         \* the rows in the ColumnDataCollection
    scan_row,           \* the rows of collection the scan_state has passed
    \* the two threads
    producer, consumer, \* where each thread is
    sink_rows,          \* the chunk of a Sink that waits
    out,                \* the array get_next has filled ...
    out_released,       \* ... and whether it marks the end of the stream
    seen_canceled,      \* canceled when get_next last held insert_mutex
    \* the driver and the remote table
    table,              \* the target table: absent, foreign (not ours), created
    stream_ended,       \* the driver has seen the end of the stream
    delivered,          \* the rows the driver has received
    ingested,           \* the number of rows the driver has inserted
    outcome,            \* what the statement told DuckDB
    reported            \* the row count emitted by GetDataInternal, or -1

config == <<insert_mode, materialize_input>>
flags == <<first_insert, done, canceled, full>>
counts == <<active_chunks, insert_count>>
buffer == <<collection, scan_row>>
adbc == <<status, rows_affected>>
array == <<out, out_released, seen_canceled>>
driver == <<table, stream_ended, delivered, ingested>>
results == <<outcome, reported>>
vars == <<config, flags, counts, buffer, adbc, producer, consumer, sink_rows,
          array, driver, results>>

-----------------------------------------------------------------------------
\* Where the threads can be.

SinkStates == {"sink_wait", "sink_ready", "sink_notify"}
FinalizeStates == {"finalize_notify", "finalize_join"}
DestructorStates == {"destroy_notify", "destroy_join", "destroyed"}
ProducerStates == {"start", "running", "finalized", "unwinding"}
                    \cup SinkStates \cup FinalizeStates \cup DestructorStates

GetNextStates == {"next_ready", "next_wait", "next_notify", "next_return"}
\* The insert thread may still call get_next.
PullingStates == {"setup", "driver"} \cup GetNextStates
ConsumerStates == {"none", "release", "release_notify", "exited"}
                    \cup PullingStates

\* AdbcStatusCode status = {}: the status of a statement without an insert
\* thread.
InitialStatus == "OK"

Init ==
    /\ insert_mode \in {"APPEND", "CTAS"}
    /\ materialize_input \in BOOLEAN
    /\ first_insert = TRUE
    /\ done = FALSE
    /\ canceled = FALSE
    /\ full = FALSE
    /\ active_chunks = 0
    /\ insert_count = 0
    /\ status = InitialStatus
    /\ rows_affected = 0
    /\ collection = <<>>
    /\ scan_row = 0
    /\ producer = "start"
    /\ consumer = "none"
    /\ sink_rows = 0
    /\ out = <<>>
    /\ out_released = FALSE
    /\ seen_canceled = FALSE
    /\ table \in {"absent", "foreign"}
    /\ insert_mode = "APPEND" => table = "foreign"
    /\ stream_ended = FALSE
    /\ delivered = <<>>
    /\ ingested = 0
    /\ outcome = "pending"
    /\ reported = -1

-----------------------------------------------------------------------------
\* Condition variables and the thread handle.

\* The predicates of the two cv.wait calls.
ProducerPredicate == ~full \/ done

ConsumerPredicateNoDone == full
ConsumerPredicate == full \/ done

\* producer_cv.notify_one(); when nobody waits the notification is lost.
ProducerNotNotified == producer' = producer
NotifyProducer ==
    producer' = IF producer = "sink_wait" THEN "sink_ready" ELSE producer

\* consumer_cv.notify_one()
ConsumerNotNotified == consumer' = consumer
NotifyConsumer ==
    consumer' = IF consumer = "next_wait" THEN "next_ready" ELSE consumer

\* consumer_thread is not joinable, or join() returns.
JoinedWithoutWaiting == TRUE
Joined == consumer \in {"none", "exited"}

-----------------------------------------------------------------------------
\* GetGlobalSinkState: lease a connection; for CTAS create the table by
\* ingesting an empty stream in create mode, which fails if it exists.

GetGlobalSinkState ==
    /\ producer = "start"
    /\ insert_mode = "CTAS" => table = "absent"
    /\ table' = IF insert_mode = "CTAS" THEN "created" ELSE table
    /\ producer' = "running"
    /\ UNCHANGED <<config, flags, counts, buffer, adbc, consumer, sink_rows,
                   array, stream_ended, delivered, ingested, results>>

\* The pool cannot open a connection, and there is no gstate to destroy.
GetConnectionFails ==
    /\ producer = "start"
    /\ producer' = "destroyed"
    /\ outcome' = "failed"
    /\ UNCHANGED <<config, flags, counts, buffer, adbc, consumer, sink_rows,
                   array, driver, reported>>

\* An ADBC call of the CREATE TABLE fails and the exception destroys gstate.
CreateTableErrorIgnored ==
    /\ producer = "start"
    /\ insert_mode = "CTAS"
    /\ producer' = "running"
    /\ UNCHANGED <<config, flags, counts, buffer, adbc, consumer, sink_rows,
                   array, driver, results>>
CreateTableFails ==
    /\ producer = "start"
    /\ insert_mode = "CTAS"
    /\ producer' = "unwinding"
    /\ outcome' = "failed"
    /\ UNCHANGED <<config, flags, counts, buffer, adbc, consumer, sink_rows,
                   array, driver, reported>>

-----------------------------------------------------------------------------
\* Sink.

Rows(n) == [i \in 1..n |-> insert_count + i]

\* Whether this chunk fills the buffer; the memory test is the choice of
\* exhausted_memory.
OnlyMemoryFills(first_chunk, exhausted_memory) ==
    full \/ (~materialize_input /\ (first_chunk \/ exhausted_memory))
FullAfter(first_chunk, exhausted_memory) ==
    \/ full
    \/ /\ ~materialize_input
       /\ first_chunk \/ exhausted_memory \/ active_chunks + 1 >= max_chunks

\* From the wait on producer_cv to the end of the critical section.  The
\* early return for canceled is never taken: only the destructor sets
\* canceled, and DuckDB destroys gstate when no Sink is running.
Enqueue(n, first_chunk) ==
    IF ~ProducerPredicate THEN
        /\ producer' = "sink_wait"
        /\ sink_rows' = n
        /\ UNCHANGED <<full, counts, collection>>
    ELSE IF canceled THEN
        /\ producer' = "running"
        /\ UNCHANGED <<full, counts, collection, sink_rows>>
    ELSE
        /\ collection' = collection \o Rows(n)
        /\ insert_count' = insert_count + n
        /\ active_chunks' = active_chunks + 1
        /\ \E exhausted_memory \in BOOLEAN :
                full' = FullAfter(first_chunk, exhausted_memory)
        /\ producer' = "sink_notify"
        /\ sink_rows' = 0

Sink(n) ==
    /\ producer = "running"
    /\ insert_count + n <= MaxRows
    /\ first_insert' = FALSE
    /\ consumer' = IF first_insert THEN "setup" ELSE consumer
    /\ Enqueue(n, first_insert)
    /\ UNCHANGED <<config, done, canceled, adbc, scan_row, array, driver,
                   results>>

\* A Sink woken from its wait; it is not the first one, which never waits.
SinkResume ==
    /\ producer = "sink_ready"
    /\ Enqueue(sink_rows, FALSE)
    /\ UNCHANGED <<config, first_insert, done, canceled, adbc, scan_row,
                   consumer, array, driver, results>>

SinkNotify ==
    /\ producer = "sink_notify"
    /\ producer' = "running"
    /\ NotifyConsumer
    /\ UNCHANGED <<config, flags, counts, buffer, adbc, sink_rows, array,
                   driver, results>>

\* The thread constructor throws: first_insert is already FALSE.
SinkLaunchFails ==
    /\ producer = "running"
    /\ first_insert
    /\ first_insert' = FALSE
    /\ producer' = "unwinding"
    /\ outcome' = "failed"
    /\ UNCHANGED <<config, done, canceled, full, counts, buffer, adbc,
                   consumer, sink_rows, array, driver, reported>>

-----------------------------------------------------------------------------
\* Finalize and the source interface.

Finalize ==
    /\ producer = "running"
    /\ done' = TRUE
    /\ producer' = "finalize_notify"
    /\ UNCHANGED <<config, first_insert, canceled, full, counts, buffer, adbc,
                   consumer, sink_rows, array, driver, results>>

FinalizeNotify ==
    /\ producer = "finalize_notify"
    /\ producer' = "finalize_join"
    /\ NotifyConsumer
    /\ UNCHANGED <<config, flags, counts, buffer, adbc, sink_rows, array,
                   driver, results>>

\* No ADBC error, and the driver counted as many rows as Sink, if it counts.
StatusOnly == status = "OK"
InsertSucceeded ==
    /\ status = "OK"
    /\ rows_affected # -1 => rows_affected = insert_count

FinalizeCheck ==
    /\ producer = "finalize_join"
    /\ Joined
    /\ \/ /\ InsertSucceeded
          /\ producer' = "finalized"
          /\ outcome' = "ready"
       \/ /\ ~InsertSucceeded
          /\ producer' = "unwinding"
          /\ outcome' = "failed"
    /\ UNCHANGED <<config, flags, counts, buffer, adbc, consumer, sink_rows,
                   array, driver, reported>>

GetDataInternal ==
    /\ producer = "finalized"
    /\ reported = -1
    /\ reported' = insert_count
    /\ UNCHANGED <<config, flags, counts, buffer, adbc, producer, consumer,
                   sink_rows, array, driver, outcome>>

-----------------------------------------------------------------------------
\* ~AdbcInsertGlobalState.  From "running" the query was interrupted or
\* failed elsewhere, and Finalize is never called.

Destroy ==
    /\ producer \in {"running", "finalized", "unwinding"}
    /\ done' = TRUE
    /\ canceled' = TRUE
    /\ outcome' = IF outcome = "pending" THEN "aborted" ELSE outcome
    /\ producer' = "destroy_notify"
    /\ UNCHANGED <<config, first_insert, full, counts, buffer, adbc, consumer,
                   sink_rows, array, driver, reported>>

\* notify_one on both; no one can be waiting on producer_cv here.
DestroyNotify ==
    /\ producer = "destroy_notify"
    /\ producer' = "destroy_join"
    /\ NotifyConsumer
    /\ UNCHANGED <<config, flags, counts, buffer, adbc, sink_rows, array,
                   driver, results>>

\* After the join the members are destroyed and the connection goes back to
\* the pool.
DestroyJoin ==
    /\ producer = "destroy_join"
    /\ Joined
    /\ producer' = "destroyed"
    /\ UNCHANGED <<config, flags, counts, buffer, adbc, consumer, sink_rows,
                   array, driver, results>>

-----------------------------------------------------------------------------
\* AsyncInsert and the driver.  The driver is external: it pulls until the
\* stream ends or a get_next fails, may fail between two pulls, and releases
\* the stream before AsyncInsert returns.

\* Statement, options and BindStream; an error releases the unbound stream.
AsyncInsert ==
    /\ consumer = "setup"
    /\ \/ /\ consumer' = "driver"
          /\ UNCHANGED status
       \/ /\ consumer' = "release"
          /\ status' = "ERROR"
    /\ UNCHANGED <<config, flags, counts, buffer, rows_affected, producer,
                   sink_rows, array, driver, results>>

DriverPulls ==
    /\ consumer = "driver"
    /\ ~stream_ended
    /\ consumer' = "next_ready"
    /\ UNCHANGED <<config, flags, counts, buffer, adbc, producer, sink_rows,
                   array, driver, results>>

DriverFails ==
    /\ consumer = "driver"
    /\ consumer' = "release"
    /\ status' = "ERROR"
    /\ UNCHANGED <<config, flags, counts, buffer, rows_affected, producer,
                   sink_rows, array, driver, results>>

DriverCompletes ==
    /\ consumer = "driver"
    /\ stream_ended
    /\ consumer' = "release"
    /\ rows_affected' \in {-1, ingested}
    /\ UNCHANGED <<config, flags, counts, buffer, status, producer, sink_rows,
                   array, driver, results>>

-----------------------------------------------------------------------------
\* stream->get_next.

\* ColumnDataCollection packs appended rows into chunks of VectorSize rows,
\* so one scanned chunk may hold the rows of several Sinks.
NextChunk ==
    LET last == IF scan_row + VectorSize <= Len(collection)
                THEN scan_row + VectorSize ELSE Len(collection)
    IN  [i \in 1..(last - scan_row) |-> collection[scan_row + i]]

ReadChunk ==
    /\ scan_row < Len(collection)
    /\ out' = NextChunk
    /\ out_released' = FALSE
    /\ scan_row' = scan_row + Len(NextChunk)
    /\ active_chunks' = active_chunks - 1
    /\ UNCHANGED <<full, collection>>

\* Nothing left to scan: end the stream if done, and hand an emptied buffer
\* back to a blocked producer.
BufferDrainedNoRewind ==
    /\ scan_row >= Len(collection)
    /\ out' = <<>>
    /\ out_released' = done
    /\ full' = FALSE
    /\ collection' = IF full THEN <<>> ELSE collection
    /\ UNCHANGED <<active_chunks, scan_row>>
BufferDrainedStaysFull ==
    /\ scan_row >= Len(collection)
    /\ out' = <<>>
    /\ out_released' = done
    /\ UNCHANGED <<active_chunks, full, buffer>>
BufferDrained ==
    /\ scan_row >= Len(collection)
    /\ out' = <<>>
    /\ out_released' = done
    /\ full' = FALSE
    /\ collection' = IF full THEN <<>> ELSE collection
    /\ scan_row' = IF full THEN 0 ELSE scan_row
    /\ UNCHANGED active_chunks

GetNext ==
    /\ consumer = "next_ready"
    /\ \/ /\ ~ConsumerPredicate
          /\ consumer' = "next_wait"
          /\ UNCHANGED <<full, active_chunks, buffer, array>>
       \/ /\ ConsumerPredicate
          /\ consumer' = "next_notify"
          /\ seen_canceled' = canceled
          /\ ReadChunk \/ BufferDrained
    /\ UNCHANGED <<config, first_insert, done, canceled, insert_count, adbc,
                   producer, sink_rows, driver, results>>

GetNextNotify ==
    /\ consumer = "next_notify"
    /\ consumer' = "next_return"
    /\ NotifyProducer
    /\ UNCHANGED <<config, flags, counts, buffer, adbc, sink_rows, array,
                   driver, results>>

\* return canceled ? ECANCELED : 0, read after the unlock.  The read sees what
\* the critical section saw; if the destructor has set canceled since, the two
\* race and either value may be read.
CanceledReadNever == {FALSE}
CanceledRead == {seen_canceled, seen_canceled \/ canceled}

\* On success the driver takes the array, or the end of the stream; on
\* ECANCELED it fails.
GetNextReturn ==
    /\ consumer = "next_return"
    /\ out' = <<>>
    /\ out_released' = FALSE
    /\ \/ /\ TRUE \in CanceledRead
          /\ consumer' = "release"
          /\ status' = "ERROR"
          /\ UNCHANGED <<delivered, ingested, stream_ended>>
       \/ /\ FALSE \in CanceledRead
          /\ consumer' = "driver"
          /\ delivered' = delivered \o out
          /\ stream_ended' = out_released
          /\ ingested' \in {ingested + Len(out)}
                             \cup (IF LossyDriver THEN {ingested} ELSE {})
          /\ UNCHANGED status
    /\ UNCHANGED <<config, flags, counts, buffer, rows_affected, producer,
                   sink_rows, seen_canceled, table, results>>

-----------------------------------------------------------------------------
\* stream->release, then AsyncInsert returns.

StreamRelease ==
    /\ consumer = "release"
    /\ done' = TRUE
    /\ consumer' = "release_notify"
    /\ UNCHANGED <<config, first_insert, canceled, full, counts, buffer, adbc,
                   producer, sink_rows, array, driver, results>>

StreamReleaseNotify ==
    /\ consumer = "release_notify"
    /\ consumer' = "exited"
    /\ NotifyProducer
    /\ UNCHANGED <<config, flags, counts, buffer, adbc, sink_rows, array,
                   driver, results>>

\* std::condition_variable may wake a waiter for no reason.
SpuriousWakeup ==
    /\ \/ /\ producer = "sink_wait"
          /\ producer' = "sink_ready"
          /\ UNCHANGED consumer
       \/ /\ consumer = "next_wait"
          /\ consumer' = "next_ready"
          /\ UNCHANGED producer
    /\ UNCHANGED <<config, flags, counts, buffer, adbc, sink_rows, array,
                   driver, results>>

-----------------------------------------------------------------------------
ProducerNext ==
    \/ GetGlobalSinkState
    \/ GetConnectionFails
    \/ CreateTableFails
    \/ \E n \in 1..VectorSize : Sink(n)
    \/ SinkResume
    \/ SinkNotify
    \/ SinkLaunchFails
    \/ Finalize
    \/ FinalizeNotify
    \/ FinalizeCheck
    \/ GetDataInternal
    \/ Destroy
    \/ DestroyNotify
    \/ DestroyJoin

ConsumerNext ==
    \/ AsyncInsert
    \/ DriverPulls
    \/ DriverFails
    \/ DriverCompletes
    \/ GetNext
    \/ GetNextNotify
    \/ GetNextReturn
    \/ StreamRelease
    \/ StreamReleaseNotify

\* A statement that is over stays over.
Terminated ==
    /\ producer = "destroyed"
    /\ UNCHANGED vars

Next == ProducerNext \/ ConsumerNext \/ SpuriousWakeup \/ Terminated

Spec == Init /\ [][Next]_vars

\* DuckDB keeps running its pipeline and the driver keeps running its ingest;
\* nothing is assumed of spurious wakeups.
FairSpec == Spec /\ WF_vars(ProducerNext) /\ WF_vars(ConsumerNext)

-----------------------------------------------------------------------------
FlagTypes ==
    /\ materialize_input \in BOOLEAN
    /\ first_insert \in BOOLEAN
    /\ done \in BOOLEAN
    /\ canceled \in BOOLEAN
    /\ full \in BOOLEAN
    /\ out_released \in BOOLEAN
    /\ seen_canceled \in BOOLEAN
    /\ stream_ended \in BOOLEAN

ControlTypes ==
    /\ insert_mode \in {"APPEND", "CTAS"}
    /\ status \in {"OK", "ERROR"}
    /\ producer \in ProducerStates
    /\ consumer \in ConsumerStates
    /\ table \in {"absent", "foreign", "created"}
    /\ outcome \in {"pending", "ready", "failed", "aborted"}

DataTypes ==
    /\ active_chunks \in Int
    /\ insert_count \in Nat
    /\ rows_affected \in Nat \cup {-1}
    /\ collection \in Seq(Nat)
    /\ scan_row \in Nat
    /\ sink_rows \in Nat
    /\ out \in Seq(Nat)
    /\ delivered \in Seq(Nat)
    /\ ingested \in Nat
    /\ reported \in Nat \cup {-1}

\* Every variable of the operator has its type.
TypeOK == FlagTypes /\ ControlTypes /\ DataTypes

\* What the driver has received is, at every moment, a prefix of the input:
\* no row is lost, duplicated or reordered between Sink and get_next, however
\* the buffer is filled, drained and reset (get_next, Sink).
RowsInOrder ==
    /\ Len(delivered) <= insert_count
    /\ \A i \in 1..Len(delivered) : delivered[i] = i

\* An INSERT that Finalize accepts has given every row to the driver; if the
\* driver reports a count, it has inserted them all; and the count emitted by
\* GetDataInternal is the number of rows delivered.
ReadyMeansComplete ==
    outcome = "ready" =>
        /\ Len(delivered) = insert_count
        /\ rows_affected # -1 => ingested = insert_count
        /\ reported # -1 => reported = Len(delivered)

\* The driver is told that the stream ended only when Finalize has declared
\* the input complete: an aborted statement also sets done, but its insert
\* never looks like a complete one to the driver (~AdbcInsertGlobalState,
\* get_next).
EndOfStreamMeansFinalized ==
    stream_ended =>
        /\ outcome # "aborted"
        /\ producer \notin {"start", "running"} \cup SinkStates

\* While the insert thread is alive and the input is not materialized, the
\* buffer never holds more than adbc_insert_buffer_size full chunks.
BufferBounded ==
    ~materialize_input /\ consumer \in {"none"} \cup PullingStates =>
        Len(collection) <= max_chunks * VectorSize

\* With adbc_materialize_insert_rows the driver receives no row before the
\* input has been read to its end: mixing reads and writes is safe, and an
\* aborted statement leaves the remote table untouched.
MaterializedBeforeDelivery ==
    materialize_input /\ delivered # <<>> =>
        /\ producer \notin {"running"} \cup SinkStates
        /\ outcome # "aborted"

\* The count of chunks never goes below the chunks still to be scanned, so it
\* never underflows and the limit is never missed.
ActiveChunksCoverBuffer ==
    Len(collection) - scan_row <= active_chunks * VectorSize

\* A CREATE TABLE AS delivers rows only to the table it has created itself,
\* never to one that was there before: the creation fails before the first
\* Sink (GetGlobalSinkState).
CtasKeepsExistingTable ==
    insert_mode = "CTAS" /\ delivered # <<>> => table = "created"

\* A thread that sleeps although what it waits for has come about is about to
\* be notified: between a change under insert_mutex and the notify_one after
\* the unlock nobody falls asleep for good (Sink, get_next, Finalize, release,
\* ~AdbcInsertGlobalState).
NoLostWakeup ==
    /\ producer = "sink_wait" /\ (~full \/ done) =>
          consumer \in {"next_notify", "release_notify"}
    /\ consumer = "next_wait" /\ (full \/ done) =>
          producer \in {"sink_notify", "finalize_notify", "destroy_notify"}

\* A thread that is asleep, has not started or has ended cannot go on by
\* itself, and a join waits for the end of the insert thread.
ProducerRuns ==
    /\ producer \notin {"sink_wait", "destroyed"}
    /\ producer \in {"finalize_join", "destroy_join"} => Joined
ConsumerRuns == consumer \notin {"none", "next_wait", "exited"}

\* As long as the statement is not over, one of the threads can go on without
\* the help of a spurious wakeup: they never wait for each other on
\* producer_cv, consumer_cv and the join.
NobodyStuck == producer = "destroyed" \/ ProducerRuns \/ ConsumerRuns

\* A bound on the steps a statement has left: what is still to be accepted,
\* scanned, emptied and told, and where the threads are.
ProducerSteps ==
    [start |-> 13, running |-> 12, sink_wait |-> 10, sink_ready |-> 11,
     sink_notify |-> 14, finalize_notify |-> 8, finalize_join |-> 6,
     finalized |-> 5, unwinding |-> 4, destroy_notify |-> 3,
     destroy_join |-> 1, destroyed |-> 0]
ConsumerSteps ==
    [none |-> 0, setup |-> 7, driver |-> 6, next_ready |-> 5, next_wait |-> 4,
     next_notify |-> 9, next_return |-> 7, release |-> 3,
     release_notify |-> 2, exited |-> 0]
One(condition) == IF condition THEN 1 ELSE 0
EndUntold == /\ ~out_released /\ ~stream_ended
             /\ consumer \in {"none"} \cup PullingStates
StepsLeft ==
    21 * (MaxRows - insert_count)
    + 5 * ((Len(collection) - scan_row) + One(full) + One(EndUntold))
    + ConsumerSteps[consumer] + ProducerSteps[producer] + One(reported = -1)

\* Every step but a spurious wakeup brings the end of the statement nearer:
\* get_next never spins on a buffer that stays empty or full, and no Sink is
\* woken again and again without the consumer getting on.
StepsRunOut ==
    [][~SpuriousWakeup => StepsLeft' \in Nat /\ StepsLeft' < StepsLeft]_vars

\* The phase of the statement as a client of BulkInsert sees it.
phase ==
    IF producer = "destroyed" /\ canceled THEN "returned"
    ELSE IF outcome # "pending" THEN outcome
    ELSE IF producer \in FinalizeStates THEN "closed"
    ELSE "open"

Abstract == INSTANCE BulkInsert WITH
    materialize <- materialize_input,
    accepted <- insert_count,
    applied <- delivered,
    sealed <- stream_ended,
    phase <- phase

\* The two threads, the buffer and the driver together implement BulkInsert:
\* whatever the interleaving and whoever fails, the driver receives a growing
\* prefix of the input, learns of its end only after Finalize, and receives
\* nothing once the result is known.
ImplementsBulkInsert == Abstract!Spec

\* Every statement ends: no wait on a condition variable and no join lasts
\* for ever, whichever thread fails first.
StatementEnds == <>(producer = "destroyed")
=============================================================================
