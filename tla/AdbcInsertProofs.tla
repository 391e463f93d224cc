-------------------------- MODULE AdbcInsertProofs --------------------------
(***************************************************************************)
(* Proofs about AdbcInsert for every vector size, buffer size and input    *)
(* length.                                                                 *)
(***************************************************************************)
EXTENDS AdbcInsert, TLAPS

\* The rows a Sink appends continue the input.
LEMMA RowsOfSink ==
    ASSUME NEW n \in Nat, insert_count \in Nat
    PROVE  /\ Rows(n) \in Seq(Nat)
           /\ Len(Rows(n)) = n
           /\ \A i \in 1..n : Rows(n)[i] = insert_count + i
  BY DEF Rows

\* A scan yields the next rows of the buffer: at least one, at most a vector.
LEMMA ScanYieldsNextRows ==
    ASSUME InsertAssumption, collection \in Seq(Nat), scan_row \in Nat,
           scan_row < Len(collection)
    PROVE  /\ NextChunk \in Seq(Nat)
           /\ Len(NextChunk) \in 1..VectorSize
           /\ scan_row + Len(NextChunk) <= Len(collection)
           /\ Len(NextChunk) < VectorSize =>
                 scan_row + Len(NextChunk) = Len(collection)
           /\ \A i \in 1..Len(NextChunk) :
                 NextChunk[i] = collection[scan_row + i]
  <1> DEFINE last == IF scan_row + VectorSize <= Len(collection)
                     THEN scan_row + VectorSize ELSE Len(collection)
  <1>1. last \in Nat /\ last > scan_row /\ last <= Len(collection)
        /\ last - scan_row <= VectorSize
        /\ (last - scan_row < VectorSize => last = Len(collection))
    BY DEF InsertAssumption
  <1>2. NextChunk = [i \in 1..(last - scan_row) |-> collection[scan_row + i]]
    BY DEF NextChunk
  <1>3. \A i \in 1..(last - scan_row) : collection[scan_row + i] \in Nat
    BY <1>1
  <1> HIDE DEF last
  <1>4. NextChunk \in Seq(Nat) /\ Len(NextChunk) = last - scan_row
    BY <1>1, <1>2, <1>3
  <1> QED
    BY <1>1, <1>2, <1>4

-----------------------------------------------------------------------------
\* The inductive invariant, in parts.

\* The insert thread exists and has not left the driver, or is yet to start.
Live == consumer \in {"none"} \cup PullingStates
\* Sink may still be called, or is running.
Accepting == producer \in {"start", "running"} \cup SinkStates

\* Where every row is: delivered, in the array of a running get_next, or in
\* the buffer, in this order and without a gap.
DeliveredRows == \A i \in 1..Len(delivered) : delivered[i] = i
ArrayRows == \A i \in 1..Len(out) : out[i] = Len(delivered) + i
BufferRows ==
    \A i \in 1..Len(collection) :
        collection[i] = insert_count - Len(collection) + i
RowCounts ==
    /\ scan_row <= Len(collection)
    /\ Len(collection) <= insert_count
    /\ Len(delivered) <= insert_count
    /\ Live => Len(delivered) + Len(out)
                  = insert_count - Len(collection) + scan_row
    /\ Len(out) > 0 => consumer \in {"next_notify", "next_return"}
RowsInv == DeliveredRows /\ ArrayRows /\ BufferRows /\ RowCounts

\* How the two threads, the flags and the outcome go together.
ControlInv ==
    /\ producer = "start" => first_insert
    /\ producer \in SinkStates => ~first_insert
    /\ Accepting => (first_insert <=> consumer = "none")
    /\ consumer = "none" => insert_count = 0 /\ ingested = 0 /\ rows_affected = 0
    /\ done /\ Live => ~Accepting
    /\ canceled => done /\ producer \in DestructorStates
    /\ producer \in {"destroy_notify", "destroy_join"} => canceled
    /\ producer \in FinalizeStates => done
    /\ producer \in {"finalized", "unwinding", "destroyed"} =>
          consumer \in {"none", "exited"}
    /\ outcome \in {"ready", "failed"} => consumer \in {"none", "exited"}
    /\ outcome = "pending" <=>
          Accepting \/ producer \in FinalizeStates
    /\ producer = "finalized" => outcome = "ready"
    /\ producer = "unwinding" => outcome = "failed"
    /\ outcome = "aborted" => canceled

\* When the end of the stream is on its way to the driver or has reached it.
SealInv ==
    /\ out_released =>
          /\ consumer \in {"next_notify", "next_return"}
          /\ out = <<>>
          /\ done
          /\ scan_row = Len(collection)
          /\ ~seen_canceled => producer \in FinalizeStates
    /\ stream_ended =>
          /\ Len(delivered) = insert_count
          /\ ~Accepting
          /\ outcome # "aborted"
          /\ consumer \in {"driver", "release", "release_notify", "exited"}
    /\ consumer \in {"release", "release_notify", "exited"} /\ status = "OK" =>
          /\ stream_ended
          /\ rows_affected \in {-1, ingested}

\* What is known once the statement has succeeded.
ReadyInv ==
    /\ ReadyMeansComplete
    /\ reported # -1 => outcome = "ready"

\* With a materialized input nothing moves before Finalize.
MaterializeInv ==
    materialize_input =>
        /\ ~full
        /\ Len(out) > 0 /\ ~seen_canceled => producer \in FinalizeStates
        /\ Len(delivered) > 0 => ~Accepting /\ outcome # "aborted"

\* The chunk count covers the rows still to be scanned, and an open buffer
\* that holds anything has not hit the limit.
BufferInv ==
    /\ producer \in {"sink_wait", "sink_ready"} => sink_rows \in 1..VectorSize
    /\ ActiveChunksCoverBuffer
    /\ BufferBounded
    /\ ~materialize_input /\ Live /\ ~full /\ ~done =>
          /\ scan_row = 0
          /\ collection # <<>> => active_chunks < max_chunks

\* CREATE TABLE AS runs its Sinks on the table it created.
CtasInv ==
    insert_mode = "CTAS" /\ (producer \in {"running"} \cup SinkStates \/ consumer # "none")
        => table = "created"

IndInv ==
    /\ TypeOK
    /\ RowsInv
    /\ ControlInv
    /\ SealInv
    /\ ReadyInv
    /\ MaterializeInv
    /\ BufferInv
    /\ CtasInv

-----------------------------------------------------------------------------
\* Every step preserves the types.
LEMMA TypeStep ==
    ASSUME InsertAssumption, TypeOK, [Next]_vars
    PROVE  TypeOK'
  <1> USE DEF TypeOK, FlagTypes, ControlTypes, DataTypes, config, flags, counts, buffer, adbc, array, driver,
              results, ProducerStates, SinkStates, FinalizeStates,
              DestructorStates, ConsumerStates, PullingStates, GetNextStates
  <1>0. ASSUME NEW n \in Nat, NEW first_chunk \in BOOLEAN,
               Enqueue(n, first_chunk)
        PROVE  /\ collection' \in Seq(Nat)
               /\ insert_count' \in Nat
               /\ active_chunks' \in Int
               /\ full' \in BOOLEAN
               /\ producer' \in ProducerStates
               /\ sink_rows' \in Nat
    <2>1. CASE ~ProducerPredicate
      BY <1>0, <2>1 DEF Enqueue
    <2>2. CASE ProducerPredicate /\ canceled
      BY <1>0, <2>2 DEF Enqueue
    <2>3. CASE ProducerPredicate /\ ~canceled
      <3>1. collection' = collection \o Rows(n) /\ Rows(n) \in Seq(Nat)
        BY <1>0, <2>3, RowsOfSink DEF Enqueue
      <3>2. full' \in BOOLEAN
        BY <1>0, <2>3 DEF Enqueue, FullAfter
      <3> QED
        BY <1>0, <2>3, <3>1, <3>2 DEF Enqueue
    <2> QED
      BY <2>1, <2>2, <2>3
  <1>1. CASE GetGlobalSinkState
    BY <1>1 DEF GetGlobalSinkState
  <1>2. CASE GetConnectionFails
    BY <1>2 DEF GetConnectionFails
  <1>3. CASE CreateTableFails
    BY <1>3 DEF CreateTableFails
  <1>4. ASSUME NEW n \in 1..VectorSize, Sink(n)
        PROVE  TypeOK'
    <2>0. /\ full' \in BOOLEAN
          /\ producer' \in ProducerStates
          /\ collection' \in Seq(Nat)
          /\ insert_count' \in Nat
          /\ active_chunks' \in Int
          /\ sink_rows' \in Nat
      <3>1. n \in Nat /\ first_insert \in BOOLEAN
        BY DEF InsertAssumption
      <3> QED
        BY <1>0, <1>4, <3>1 DEF Sink
    <2>1. FlagTypes'
      BY <1>4, <2>0 DEF Sink
    <2>2. ControlTypes'
      BY <1>4, <2>0 DEF Sink
    <2>3. DataTypes'
      BY <1>4, <2>0 DEF Sink
    <2> QED
      BY <2>1, <2>2, <2>3
  <1>5. CASE SinkResume
    <2>1. FlagTypes'
      BY <1>5, <1>0 DEF SinkResume
    <2>2. ControlTypes'
      BY <1>5, <1>0 DEF SinkResume
    <2>3. DataTypes'
      BY <1>5, <1>0 DEF SinkResume
    <2> QED
      BY <2>1, <2>2, <2>3
  <1>6. CASE SinkNotify
    BY <1>6 DEF SinkNotify, NotifyConsumer
  <1>7. CASE SinkLaunchFails
    <2>1. FlagTypes'
      BY <1>7 DEF SinkLaunchFails
    <2>2. ControlTypes'
      BY <1>7 DEF SinkLaunchFails
    <2>3. DataTypes'
      BY <1>7 DEF SinkLaunchFails
    <2> QED
      BY <2>1, <2>2, <2>3
  <1>8. CASE Finalize
    BY <1>8 DEF Finalize
  <1>9. CASE FinalizeNotify
    BY <1>9 DEF FinalizeNotify, NotifyConsumer
  <1>10. CASE FinalizeCheck
    BY <1>10 DEF FinalizeCheck
  <1>11. CASE GetDataInternal
    BY <1>11 DEF GetDataInternal
  <1>12. CASE Destroy
    BY <1>12 DEF Destroy
  <1>13. CASE DestroyNotify
    BY <1>13 DEF DestroyNotify, NotifyConsumer
  <1>14. CASE DestroyJoin
    BY <1>14 DEF DestroyJoin
  <1>15. CASE AsyncInsert
    BY <1>15 DEF AsyncInsert
  <1>16. CASE DriverPulls
    BY <1>16 DEF DriverPulls
  <1>17. CASE DriverFails
    BY <1>17 DEF DriverFails
  <1>18. CASE DriverCompletes
    BY <1>18 DEF DriverCompletes
  <1>19. CASE GetNext
    <2>0. CASE ~ConsumerPredicate
      BY <1>19, <2>0 DEF GetNext
    <2>1. CASE ConsumerPredicate /\ ReadChunk
      <3>1. FlagTypes'
        BY <1>19, <2>1 DEF GetNext, ReadChunk
      <3>2. ControlTypes'
        BY <1>19, <2>1 DEF GetNext, ReadChunk
      <3>3. DataTypes'
        BY <1>19, <2>1, ScanYieldsNextRows DEF GetNext, ReadChunk
      <3> QED
        BY <3>1, <3>2, <3>3
    <2>2. CASE ConsumerPredicate /\ BufferDrained
      <3>1. FlagTypes'
        BY <1>19, <2>2 DEF GetNext, BufferDrained
      <3>2. ControlTypes'
        BY <1>19, <2>2 DEF GetNext, BufferDrained
      <3>3. DataTypes'
        BY <1>19, <2>2 DEF GetNext, BufferDrained
      <3> QED
        BY <3>1, <3>2, <3>3
    <2> QED
      BY <1>19, <2>0, <2>1, <2>2 DEF GetNext
  <1>20. CASE GetNextNotify
    BY <1>20 DEF GetNextNotify, NotifyProducer
  <1>21. CASE GetNextReturn
    <2>1. FlagTypes'
      BY <1>21 DEF GetNextReturn
    <2>2. ControlTypes'
      BY <1>21 DEF GetNextReturn
    <2>3. /\ delivered' = delivered \/ delivered' = delivered \o out
          /\ ingested' = ingested \/ ingested' = ingested + Len(out)
      BY <1>21 DEF GetNextReturn
    <2>4. delivered' \in Seq(Nat) /\ ingested' \in Nat
      <3>1. /\ delivered \in Seq(Nat)
            /\ delivered \o out \in Seq(Nat)
            /\ ingested \in Nat
            /\ ingested + Len(out) \in Nat
        OBVIOUS
      <3> QED
        BY <2>3, <3>1, Zenon
    <2>5. out' = <<>> /\ UNCHANGED <<counts, buffer, rows_affected, sink_rows,
                                    reported>>
      BY <1>21 DEF GetNextReturn
    <2>6. DataTypes'
      BY <2>4, <2>5
    <2> QED
      BY <2>1, <2>2, <2>6
  <1>22. CASE StreamRelease
    BY <1>22 DEF StreamRelease
  <1>23. CASE StreamReleaseNotify
    BY <1>23 DEF StreamReleaseNotify, NotifyProducer
  <1>24. CASE SpuriousWakeup
    BY <1>24 DEF SpuriousWakeup
  <1>25. CASE UNCHANGED vars
    BY <1>25 DEF vars
  <1> QED
    BY <1>1, <1>2, <1>3, <1>4, <1>5, <1>6, <1>7, <1>8, <1>9, <1>10, <1>11,
       <1>12, <1>13, <1>14, <1>15, <1>16, <1>17, <1>18, <1>19, <1>20, <1>21,
       <1>22, <1>23, <1>24, <1>25
       DEF Next, ProducerNext, ConsumerNext, Terminated

\* The initial states of the operator have the right types.
LEMMA TypeInit == Init => TypeOK
  <1> SUFFICES ASSUME Init PROVE TypeOK
    OBVIOUS
  <1>1. FlagTypes
    BY DEF Init, FlagTypes
  <1>2. ControlTypes
    BY DEF Init, InitialStatus, ControlTypes, ProducerStates,
           ConsumerStates
  <1>3. DataTypes
    BY DEF Init, DataTypes
  <1> QED
    BY <1>1, <1>2, <1>3 DEF TypeOK

\* The types of all variables are right in every reachable state, whatever
\* the vector size, the buffer size and the number of rows.
THEOREM TypeCorrect == Spec => []TypeOK
  <1>1. TypeOK /\ [Next]_vars => TypeOK'
    BY InsertAssumption, TypeStep
  <1> QED
    BY <1>1, TypeInit, PTL DEF Spec

\* Every step keeps the threads, the flags and the outcome in agreement.
LEMMA ControlStep ==
    ASSUME InsertAssumption, TypeOK, ControlInv, [Next]_vars
    PROVE  ControlInv'
  <1> USE DEF ControlInv, Accepting, Live, config, flags, counts, buffer, adbc,
              array, driver, results, SinkStates, FinalizeStates,
              DestructorStates, PullingStates, GetNextStates
  <1>0. FlagTypes /\ ControlTypes
    BY DEF TypeOK
  <1>1. CASE GetGlobalSinkState
    BY <1>1 DEF GetGlobalSinkState
  <1>2. CASE GetConnectionFails
    BY <1>2 DEF GetConnectionFails
  <1>3. CASE CreateTableFails
    BY <1>3 DEF CreateTableFails
  <1>4. ASSUME NEW n \in 1..VectorSize, Sink(n)
        PROVE  ControlInv'
    BY <1>0, <1>4 DEF Sink, Enqueue
  <1>5. CASE SinkResume
    BY <1>0, <1>5 DEF SinkResume, Enqueue
  <1>6. CASE SinkNotify
    BY <1>6 DEF SinkNotify, NotifyConsumer
  <1>7. CASE SinkLaunchFails
    BY <1>7 DEF SinkLaunchFails
  <1>8. CASE Finalize
    BY <1>8 DEF Finalize
  <1>9. CASE FinalizeNotify
    BY <1>9 DEF FinalizeNotify, NotifyConsumer
  <1>10. CASE FinalizeCheck
    BY <1>10 DEF FinalizeCheck, Joined
  <1>11. CASE GetDataInternal
    BY <1>11 DEF GetDataInternal
  <1>12. CASE Destroy
    BY <1>12 DEF Destroy
  <1>13. CASE DestroyNotify
    BY <1>13 DEF DestroyNotify, NotifyConsumer
  <1>14. CASE DestroyJoin
    BY <1>14 DEF DestroyJoin, Joined
  <1>15. CASE AsyncInsert
    BY <1>15 DEF AsyncInsert
  <1>16. CASE DriverPulls
    BY <1>16 DEF DriverPulls
  <1>17. CASE DriverFails
    BY <1>17 DEF DriverFails
  <1>18. CASE DriverCompletes
    BY <1>18 DEF DriverCompletes
  <1>19. CASE GetNext
    BY <1>19 DEF GetNext
  <1>20. CASE GetNextNotify
    BY <1>20 DEF GetNextNotify, NotifyProducer
  <1>21. CASE GetNextReturn
    BY <1>21 DEF GetNextReturn
  <1>22. CASE StreamRelease
    BY <1>22 DEF StreamRelease
  <1>23. CASE StreamReleaseNotify
    BY <1>23 DEF StreamReleaseNotify, NotifyProducer
  <1>24. CASE SpuriousWakeup
    BY <1>24 DEF SpuriousWakeup
  <1>25. CASE UNCHANGED vars
    BY <1>25 DEF vars
  <1> QED
    BY <1>1, <1>2, <1>3, <1>4, <1>5, <1>6, <1>7, <1>8, <1>9, <1>10, <1>11,
       <1>12, <1>13, <1>14, <1>15, <1>16, <1>17, <1>18, <1>19, <1>20, <1>21,
       <1>22, <1>23, <1>24, <1>25
       DEF Next, ProducerNext, ConsumerNext, Terminated

\* The length of a buffer to which rows are appended.
LEMMA LengthOfConcat ==
    ASSUME NEW s \in Seq(Nat), NEW r \in Seq(Nat)
    PROVE  Len(s \o r) = Len(s) + Len(r)
  OBVIOUS

\* A Sink appends its rows where the input continues.
LEMMA EnqueueKeepsOrder ==
    ASSUME InsertAssumption, DataTypes, RowsInv,
           NEW n \in Nat, NEW first_chunk, Enqueue(n, first_chunk),
           UNCHANGED <<scan_row, out, delivered>>, Live' => Live,
           Len(out') > 0 => consumer' \in {"next_notify", "next_return"}
    PROVE  RowsInv'
  <1> USE DEF RowsInv
  <1>1. CASE UNCHANGED <<insert_count, collection>>
    BY <1>1 DEF DeliveredRows, ArrayRows, BufferRows, RowCounts
  <1>2. CASE /\ collection' = collection \o Rows(n)
             /\ insert_count' = insert_count + n
    <2>1. /\ Rows(n) \in Seq(Nat)
          /\ Len(Rows(n)) = n
          /\ \A i \in 1..n : Rows(n)[i] = insert_count + i
      BY RowsOfSink DEF DataTypes
    <2>0. collection \in Seq(Nat) /\ Len(collection) \in Nat
      BY DEF DataTypes
    <2>2. Len(collection') = Len(collection) + n
      <3>1. Len(collection \o Rows(n)) = Len(collection) + Len(Rows(n))
        BY <2>0, <2>1, LengthOfConcat, Zenon
      <3> QED
        BY <1>2, <2>1, <3>1
    <2>3. BufferRows'
      <3> SUFFICES ASSUME NEW i \in 1..(Len(collection) + n)
                   PROVE  (collection \o Rows(n))[i]
                             = insert_count - Len(collection) + i
        BY <1>2, <2>2 DEF BufferRows, DataTypes
      <3>1. CASE i <= Len(collection)
        BY <3>1, <2>1 DEF BufferRows, DataTypes
      <3>2. CASE i > Len(collection)
        <4>1. (collection \o Rows(n))[i] = Rows(n)[i - Len(collection)]
          BY <3>2, <2>1 DEF DataTypes
        <4>2. i - Len(collection) \in 1..n
          BY <3>2 DEF DataTypes
        <4> QED
          BY <2>1, <4>1, <4>2 DEF DataTypes
      <3>3. i <= Len(collection) \/ i > Len(collection)
        BY <2>0
      <3> QED
        BY <3>1, <3>2, <3>3, Zenon
    <2>4. DeliveredRows' /\ ArrayRows'
      BY DEF DeliveredRows, ArrayRows
    <2>5. RowCounts'
      <3>1. /\ insert_count \in Nat /\ scan_row \in Nat
            /\ Len(delivered) \in Nat /\ Len(out) \in Nat
        BY DEF DataTypes
      <3>2. insert_count' = insert_count + n
        BY <1>2
      <3>3. /\ Len(delivered') = Len(delivered)
            /\ Len(out') = Len(out)
            /\ scan_row' = scan_row
        OBVIOUS
      <3>4. /\ scan_row' <= Len(collection')
            /\ Len(collection') <= insert_count'
            /\ Len(delivered') <= insert_count'
        BY <2>0, <2>2, <3>1, <3>2, <3>3 DEF RowCounts
      <3>5. Live' => Len(delivered') + Len(out')
                        = insert_count' - Len(collection') + scan_row'
        <4>1. Live => Len(delivered) + Len(out)
                         = insert_count - Len(collection) + scan_row
          BY DEF RowCounts
        <4>2. insert_count' - Len(collection') + scan_row'
                 = insert_count - Len(collection) + scan_row
          BY <2>0, <2>2, <3>1, <3>2, <3>3
        <4> QED
          BY <3>3, <4>1, <4>2
      <3> QED
        BY <3>4, <3>5 DEF RowCounts
    <2> QED
      BY <2>3, <2>4, <2>5
  <1> QED
    BY <1>1, <1>2 DEF Enqueue, counts

\* Every step keeps the rows in order and accounts for all of them.
LEMMA RowsStep ==
    ASSUME InsertAssumption, TypeOK, RowsInv, ControlInv, [Next]_vars
    PROVE  RowsInv'
  <1> USE DEF RowsInv, Live, Accepting, config, flags, counts, buffer, adbc,
              array, driver, results, PullingStates, GetNextStates
  <1>0. DataTypes
    BY DEF TypeOK
  <1>1. CASE GetGlobalSinkState
    BY <1>0, <1>1 DEF GetGlobalSinkState, DeliveredRows, ArrayRows, BufferRows,
           RowCounts
  <1>2. CASE GetConnectionFails
    BY <1>0, <1>2 DEF GetConnectionFails, DeliveredRows, ArrayRows, BufferRows,
           RowCounts
  <1>3. CASE CreateTableFails
    BY <1>0, <1>3 DEF CreateTableFails, DeliveredRows, ArrayRows, BufferRows,
           RowCounts
  <1>4. ASSUME NEW n \in 1..VectorSize, Sink(n)
        PROVE  RowsInv'
    <2>1. n \in Nat
      BY DEF InsertAssumption
    <2>2. Live' => Live
      BY <1>4 DEF Sink, ControlInv
    <2>3. UNCHANGED <<scan_row, out, delivered>>
      BY <1>4 DEF Sink
    <2>4. Len(out') > 0 => consumer' \in {"next_notify", "next_return"}
      BY <1>4, <2>3 DEF Sink, ControlInv, RowCounts
    <2>5. Enqueue(n, first_insert)
      BY <1>4 DEF Sink
    <2> QED
      BY <1>0, <2>1, <2>2, <2>3, <2>4, <2>5, EnqueueKeepsOrder
  <1>5. CASE SinkResume
    <2>1. UNCHANGED <<scan_row, out, delivered, consumer>>
      BY <1>5 DEF SinkResume
    <2>2. Enqueue(sink_rows, FALSE) /\ sink_rows \in Nat
      BY <1>0, <1>5 DEF SinkResume, DataTypes
    <2>3. Live' => Live
      BY <2>1
    <2>4. Len(out') > 0 => consumer' \in {"next_notify", "next_return"}
      BY <1>0, <2>1 DEF RowCounts
    <2> QED
      BY <1>0, <2>1, <2>2, <2>3, <2>4, EnqueueKeepsOrder
  <1>6. CASE SinkNotify
    BY <1>0, <1>6 DEF SinkNotify, NotifyConsumer, DeliveredRows, ArrayRows,
           BufferRows, RowCounts
  <1>7. CASE SinkLaunchFails
    BY <1>0, <1>7 DEF SinkLaunchFails, DeliveredRows, ArrayRows, BufferRows,
           RowCounts
  <1>8. CASE Finalize
    BY <1>0, <1>8 DEF Finalize, DeliveredRows, ArrayRows, BufferRows, RowCounts
  <1>9. CASE FinalizeNotify
    BY <1>0, <1>9 DEF FinalizeNotify, NotifyConsumer, DeliveredRows, ArrayRows,
           BufferRows, RowCounts
  <1>10. CASE FinalizeCheck
    BY <1>0, <1>10 DEF FinalizeCheck, DeliveredRows, ArrayRows, BufferRows,
           RowCounts
  <1>11. CASE GetDataInternal
    BY <1>0, <1>11 DEF GetDataInternal, DeliveredRows, ArrayRows, BufferRows,
           RowCounts
  <1>12. CASE Destroy
    BY <1>0, <1>12 DEF Destroy, DeliveredRows, ArrayRows, BufferRows, RowCounts
  <1>13. CASE DestroyNotify
    BY <1>0, <1>13 DEF DestroyNotify, NotifyConsumer, DeliveredRows, ArrayRows,
           BufferRows, RowCounts
  <1>14. CASE DestroyJoin
    BY <1>0, <1>14 DEF DestroyJoin, DeliveredRows, ArrayRows, BufferRows,
           RowCounts
  <1>15. CASE AsyncInsert
    BY <1>0, <1>15 DEF AsyncInsert, DeliveredRows, ArrayRows, BufferRows,
           RowCounts
  <1>16. CASE DriverPulls
    BY <1>0, <1>16 DEF DriverPulls, DeliveredRows, ArrayRows, BufferRows,
           RowCounts
  <1>17. CASE DriverFails
    BY <1>0, <1>17 DEF DriverFails, DeliveredRows, ArrayRows, BufferRows,
           RowCounts
  <1>18. CASE DriverCompletes
    BY <1>0, <1>18 DEF DriverCompletes, DeliveredRows, ArrayRows, BufferRows,
           RowCounts
  <1>19. CASE GetNext
    <2>0. UNCHANGED <<delivered, insert_count>> /\ Len(out) = 0 /\ Live
      BY <1>0, <1>19 DEF GetNext, RowCounts, DataTypes
    <2>1. CASE ~ConsumerPredicate
      BY <1>0, <1>19, <2>1 DEF GetNext, DeliveredRows, ArrayRows, BufferRows,
                              RowCounts
    <2>2. CASE ConsumerPredicate /\ ReadChunk
      <3>1. /\ out' = NextChunk
            /\ scan_row' = scan_row + Len(NextChunk)
            /\ scan_row < Len(collection)
            /\ UNCHANGED collection
            /\ consumer' = "next_notify"
        BY <1>19, <2>2 DEF GetNext, ReadChunk
      <3>2. /\ NextChunk \in Seq(Nat)
            /\ Len(NextChunk) \in Nat
            /\ scan_row + Len(NextChunk) <= Len(collection)
            /\ \A i \in 1..Len(NextChunk) :
                  NextChunk[i] = collection[scan_row + i]
        <4>1. collection \in Seq(Nat) /\ scan_row \in Nat
          BY <1>0 DEF DataTypes
        <4>2. /\ NextChunk \in Seq(Nat)
              /\ Len(NextChunk) \in 1..VectorSize
              /\ scan_row + Len(NextChunk) <= Len(collection)
              /\ \A i \in 1..Len(NextChunk) :
                    NextChunk[i] = collection[scan_row + i]
          BY <3>1, <4>1, ScanYieldsNextRows, Zenon
        <4>3. Len(NextChunk) \in Nat
          BY <4>2
        <4> QED
          BY <4>2, <4>3, Zenon
      <3>3. Len(delivered) = insert_count - Len(collection) + scan_row
        BY <1>0, <2>0 DEF RowCounts, DataTypes
      <3>4. ArrayRows'
        <4> SUFFICES ASSUME NEW i \in 1..Len(NextChunk)
                     PROVE  NextChunk[i] = Len(delivered) + i
          BY <2>0, <3>1 DEF ArrayRows
        <4>1. scan_row + i \in 1..Len(collection)
          BY <1>0, <3>2 DEF DataTypes
        <4>2. collection[scan_row + i]
                 = insert_count - Len(collection) + (scan_row + i)
          BY <1>0, <4>1 DEF BufferRows
        <4>3. NextChunk[i] = collection[scan_row + i]
          BY <3>2
        <4> QED
          BY <1>0, <4>2, <4>3, <3>3 DEF DataTypes
      <3>5. RowCounts'
        BY <1>0, <2>0, <3>1, <3>2, <3>3 DEF RowCounts, DataTypes
      <3>6. DeliveredRows' /\ BufferRows'
        BY <1>0, <2>0, <3>1 DEF DeliveredRows, BufferRows
      <3> QED
        BY <3>4, <3>5, <3>6
    <2>3. CASE ConsumerPredicate /\ BufferDrained
      <3>1. /\ out' = <<>>
            /\ scan_row >= Len(collection)
            /\ \/ collection' = <<>> /\ scan_row' = 0
               \/ UNCHANGED <<collection, scan_row>>
            /\ consumer' = "next_notify"
        BY <1>19, <2>3 DEF GetNext, BufferDrained
      <3>2. RowCounts'
        BY <1>0, <2>0, <3>1 DEF RowCounts, DataTypes
      <3>3. DeliveredRows' /\ ArrayRows'
        BY <1>0, <2>0, <3>1 DEF DeliveredRows, ArrayRows
      <3>4. BufferRows'
        BY <1>0, <2>0, <3>1 DEF BufferRows
      <3> QED
        BY <3>2, <3>3, <3>4
    <2> QED
      BY <1>19, <2>1, <2>2, <2>3 DEF GetNext
  <1>20. CASE GetNextNotify
    BY <1>0, <1>20 DEF GetNextNotify, NotifyProducer, DeliveredRows, ArrayRows,
           BufferRows, RowCounts
  <1>21. CASE GetNextReturn
    <2>0. UNCHANGED <<insert_count, collection, scan_row>> /\ out' = <<>>
      BY <1>21 DEF GetNextReturn
    <2>1. BufferRows' /\ ArrayRows'
      BY <1>0, <2>0 DEF BufferRows, ArrayRows
    <2>2. CASE UNCHANGED delivered /\ consumer' = "release"
      BY <1>0, <2>0, <2>1, <2>2 DEF DeliveredRows, RowCounts
    <2>3. CASE delivered' = delivered \o out /\ consumer' = "driver"
      <3>1. Live
        BY <1>21 DEF GetNextReturn
      <3>2. Len(delivered') = Len(delivered) + Len(out)
        BY <1>0, <2>3 DEF DataTypes
      <3>3. DeliveredRows'
        <4> SUFFICES ASSUME NEW i \in 1..(Len(delivered) + Len(out))
                     PROVE  (delivered \o out)[i] = i
          BY <2>3, <3>2 DEF DeliveredRows
        <4>1. CASE i <= Len(delivered)
          BY <1>0, <4>1 DEF DeliveredRows, DataTypes
        <4>2. CASE i > Len(delivered)
          <5>1. i - Len(delivered) \in 1..Len(out)
            BY <1>0, <4>2 DEF DataTypes
          <5>2. (delivered \o out)[i] = out[i - Len(delivered)]
            BY <1>0, <4>2 DEF DataTypes
          <5> QED
            BY <1>0, <5>1, <5>2 DEF ArrayRows, DataTypes
        <4> QED
          BY <1>0, <4>1, <4>2 DEF DataTypes
      <3>4. RowCounts'
        BY <1>0, <2>0, <2>3, <3>1, <3>2 DEF RowCounts, DataTypes
      <3> QED
        BY <2>1, <3>3, <3>4
    <2> QED
      BY <1>21, <2>2, <2>3 DEF GetNextReturn
  <1>22. CASE StreamRelease
    BY <1>0, <1>22 DEF StreamRelease, DeliveredRows, ArrayRows, BufferRows,
           RowCounts
  <1>23. CASE StreamReleaseNotify
    BY <1>0, <1>23 DEF StreamReleaseNotify, NotifyProducer, DeliveredRows,
           ArrayRows, BufferRows, RowCounts
  <1>24. CASE SpuriousWakeup
    BY <1>0, <1>24 DEF SpuriousWakeup, DeliveredRows, ArrayRows, BufferRows,
           RowCounts
  <1>25. CASE UNCHANGED vars
    BY <1>0, <1>25 DEF vars, DeliveredRows, ArrayRows, BufferRows, RowCounts
  <1> QED
    BY <1>1, <1>2, <1>3, <1>4, <1>5, <1>6, <1>7, <1>8, <1>9, <1>10, <1>11,
       <1>12, <1>13, <1>14, <1>15, <1>16, <1>17, <1>18, <1>19, <1>20, <1>21,
       <1>22, <1>23, <1>24, <1>25
       DEF Next, ProducerNext, ConsumerNext, Terminated

\* Every step keeps what is known about the end of the stream.
LEMMA SealStep ==
    ASSUME InsertAssumption, TypeOK, RowsInv, ControlInv, SealInv, [Next]_vars
    PROVE  SealInv'
  <1> USE DEF SealInv, config, flags, counts, buffer, adbc, array, driver,
              results, Live, Accepting, SinkStates, FinalizeStates,
              DestructorStates, PullingStates, GetNextStates
  <1>0. FlagTypes /\ ControlTypes /\ DataTypes /\ RowCounts /\ ControlInv
    BY DEF TypeOK, RowsInv
  <1>1. CASE GetGlobalSinkState
    BY <1>0, <1>1 DEF GetGlobalSinkState
  <1>2. CASE GetConnectionFails
    BY <1>0, <1>2 DEF GetConnectionFails
  <1>3. CASE CreateTableFails
    BY <1>0, <1>3 DEF CreateTableFails
  <1>4. ASSUME NEW n \in 1..VectorSize, Sink(n)
        PROVE  SealInv'
    <2>1. ~out_released /\ ~stream_ended
      BY <1>0, <1>4 DEF Sink, ControlInv
    <2>2. /\ UNCHANGED <<out_released, stream_ended, adbc, ingested>>
          /\ consumer' = consumer \/ consumer' = "setup"
      BY <1>4 DEF Sink
    <2> QED
      BY <2>1, <2>2
  <1>5. CASE SinkResume
    <2>1. ~out_released /\ ~stream_ended
      BY <1>0, <1>5 DEF SinkResume, ControlInv
    <2>2. UNCHANGED <<out_released, stream_ended, adbc, ingested, consumer>>
      BY <1>5 DEF SinkResume
    <2> QED
      BY <2>1, <2>2
  <1>6. CASE SinkNotify
    BY <1>0, <1>6 DEF SinkNotify, NotifyConsumer
  <1>7. CASE SinkLaunchFails
    BY <1>0, <1>7 DEF SinkLaunchFails
  <1>8. CASE Finalize
    BY <1>0, <1>8 DEF Finalize
  <1>9. CASE FinalizeNotify
    BY <1>0, <1>9 DEF FinalizeNotify, NotifyConsumer
  <1>10. CASE FinalizeCheck
    BY <1>0, <1>10 DEF FinalizeCheck, Joined, InsertSucceeded
  <1>11. CASE GetDataInternal
    BY <1>0, <1>11 DEF GetDataInternal
  <1>12. CASE Destroy
    <2>1. ~out_released
      BY <1>0, <1>12 DEF Destroy, ControlInv
    <2>2. /\ UNCHANGED <<out_released, stream_ended, adbc, ingested, consumer,
                         delivered, insert_count>>
          /\ producer' = "destroy_notify"
      BY <1>12 DEF Destroy
    <2>3. stream_ended => outcome' # "aborted"
      BY <1>0, <1>12 DEF Destroy, ControlInv
    <2> QED
      BY <2>1, <2>2, <2>3
  <1>13. CASE DestroyNotify
    BY <1>0, <1>13 DEF DestroyNotify, NotifyConsumer
  <1>14. CASE DestroyJoin
    BY <1>0, <1>14 DEF DestroyJoin, Joined
  <1>15. CASE AsyncInsert
    BY <1>0, <1>15 DEF AsyncInsert
  <1>16. CASE DriverPulls
    BY <1>0, <1>16 DEF DriverPulls
  <1>17. CASE DriverFails
    BY <1>0, <1>17 DEF DriverFails
  <1>18. CASE DriverCompletes
    BY <1>0, <1>18 DEF DriverCompletes
  <1>19. CASE GetNext
    <2>0. ~stream_ended /\ UNCHANGED <<stream_ended, done, producer>>
      BY <1>19 DEF GetNext
    <2>1. CASE ~ConsumerPredicate
      BY <1>0, <1>19, <2>1 DEF GetNext
    <2>2. CASE ConsumerPredicate /\ ReadChunk
      BY <1>0, <1>19, <2>2 DEF GetNext, ReadChunk
    <2>3. CASE ConsumerPredicate /\ BufferDrained
      <3>1. /\ consumer' = "next_notify"
            /\ out' = <<>>
            /\ out_released' = done
            /\ seen_canceled' = canceled
            /\ scan_row' = Len(collection')
        BY <1>0, <1>19, <2>3 DEF GetNext, BufferDrained, DataTypes, RowCounts
      <3>2. done /\ ~canceled => producer \in FinalizeStates
        BY <1>0, <1>19 DEF GetNext, ControlInv, ControlTypes, ProducerStates
      <3> QED
        BY <2>0, <3>1, <3>2
    <2> QED
      BY <1>19, <2>1, <2>2, <2>3 DEF GetNext
  <1>20. CASE GetNextNotify
    BY <1>0, <1>20 DEF GetNextNotify, NotifyProducer
  <1>21. CASE GetNextReturn
    <2>0. /\ ~out_released' /\ consumer' \in {"release", "driver"}
          /\ UNCHANGED <<producer, outcome, insert_count>>
      BY <1>21 DEF GetNextReturn
    <2>1. CASE consumer' = "release"
      <3>1. /\ UNCHANGED <<delivered, stream_ended>>
            /\ status' = "ERROR"
            /\ ~stream_ended
        BY <1>21, <2>1 DEF GetNextReturn
      <3> QED
        BY <2>0, <3>1
    <2>2. CASE consumer' = "driver"
      <3>1. /\ stream_ended' = out_released
            /\ delivered' = delivered \o out
            /\ ~seen_canceled
        BY <1>0, <1>21, <2>2 DEF GetNextReturn, CanceledRead, FlagTypes
      <3>2. ASSUME out_released
            PROVE  /\ Len(delivered') = insert_count
                   /\ producer \in FinalizeStates
        <4>1. Len(out) = 0 /\ producer \in FinalizeStates
          BY <3>1, <3>2
        <4>2. Len(delivered') = Len(delivered) + Len(out)
          BY <1>0, <3>1 DEF DataTypes
        <4>3. Len(delivered) + Len(out) = insert_count
          BY <1>0, <3>2 DEF RowCounts, DataTypes
        <4> QED
          BY <4>1, <4>2, <4>3
      <3>3. producer \in FinalizeStates => ~Accepting /\ outcome # "aborted"
        BY <1>0 DEF ControlInv
      <3> QED
        BY <1>0, <2>0, <2>2, <3>1, <3>2, <3>3 DEF FlagTypes
    <2> QED
      BY <2>0, <2>1, <2>2
  <1>22. CASE StreamRelease
    BY <1>0, <1>22 DEF StreamRelease
  <1>23. CASE StreamReleaseNotify
    BY <1>0, <1>23 DEF StreamReleaseNotify, NotifyProducer
  <1>24. CASE SpuriousWakeup
    BY <1>0, <1>24 DEF SpuriousWakeup
  <1>25. CASE UNCHANGED vars
    BY <1>0, <1>25 DEF vars
  <1> QED
    BY <1>1, <1>2, <1>3, <1>4, <1>5, <1>6, <1>7, <1>8, <1>9, <1>10, <1>11,
       <1>12, <1>13, <1>14, <1>15, <1>16, <1>17, <1>18, <1>19, <1>20, <1>21,
       <1>22, <1>23, <1>24, <1>25
       DEF Next, ProducerNext, ConsumerNext, Terminated

\* A statement that has succeeded stays complete.
LEMMA ReadyStep ==
    ASSUME InsertAssumption, TypeOK, RowsInv, ControlInv, SealInv, ReadyInv, [Next]_vars
    PROVE  ReadyInv'
  <1> USE DEF ReadyInv, ReadyMeansComplete, config, flags, counts, buffer,
              adbc, array, driver, results, Live, Accepting, SinkStates,
              FinalizeStates, DestructorStates, PullingStates, GetNextStates
  <1>0. FlagTypes /\ ControlTypes /\ DataTypes /\ RowCounts /\ ControlInv
        /\ SealInv
    BY DEF TypeOK, RowsInv
  <1>1. CASE GetGlobalSinkState
    BY <1>0, <1>1 DEF GetGlobalSinkState
  <1>2. CASE GetConnectionFails
    <2>1. outcome # "ready" /\ reported = -1
      BY <1>0, <1>2 DEF GetConnectionFails, ControlInv
    <2>2. outcome' # "ready" /\ UNCHANGED reported
      BY <2>1, <1>2 DEF GetConnectionFails
    <2> QED
      BY <2>1, <2>2
  <1>3. CASE CreateTableFails
    <2>1. outcome # "ready" /\ reported = -1
      BY <1>0, <1>3 DEF CreateTableFails, ControlInv
    <2>2. outcome' # "ready" /\ UNCHANGED reported
      BY <2>1, <1>3 DEF CreateTableFails
    <2> QED
      BY <2>1, <2>2
  <1>4. ASSUME NEW n \in 1..VectorSize, Sink(n)
        PROVE  ReadyInv'
    <2>1. outcome # "ready" /\ reported = -1
      BY <1>0, <1>4 DEF Sink, ControlInv
    <2>2. outcome' # "ready" /\ UNCHANGED reported
      BY <2>1, <1>4 DEF Sink
    <2> QED
      BY <2>1, <2>2
  <1>5. CASE SinkResume
    <2>1. outcome # "ready" /\ reported = -1
      BY <1>0, <1>5 DEF SinkResume, ControlInv
    <2>2. outcome' # "ready" /\ UNCHANGED reported
      BY <2>1, <1>5 DEF SinkResume
    <2> QED
      BY <2>1, <2>2
  <1>6. CASE SinkNotify
    BY <1>0, <1>6 DEF SinkNotify, NotifyConsumer
  <1>7. CASE SinkLaunchFails
    <2>1. outcome # "ready" /\ reported = -1
      BY <1>0, <1>7 DEF SinkLaunchFails, ControlInv
    <2>2. outcome' # "ready" /\ UNCHANGED reported
      BY <2>1, <1>7 DEF SinkLaunchFails
    <2> QED
      BY <2>1, <2>2
  <1>8. CASE Finalize
    BY <1>0, <1>8 DEF Finalize
  <1>9. CASE FinalizeNotify
    BY <1>0, <1>9 DEF FinalizeNotify, NotifyConsumer
  <1>10. CASE FinalizeCheck
    <2>1. reported = -1 /\ UNCHANGED <<reported, delivered, insert_count,
                                      rows_affected, ingested>>
      BY <1>0, <1>10 DEF FinalizeCheck, ControlInv
    <2>2. CASE InsertSucceeded
      <3>1. CASE consumer = "none"
        BY <1>0, <2>1, <3>1 DEF ControlInv, RowCounts, DataTypes
      <3>2. CASE consumer = "exited"
        BY <1>0, <2>1, <2>2, <3>2 DEF SealInv, InsertSucceeded
      <3> QED
        BY <1>10, <3>1, <3>2 DEF FinalizeCheck, Joined
    <2>3. CASE ~InsertSucceeded
      BY <1>10, <2>1, <2>3 DEF FinalizeCheck
    <2> QED
      BY <2>2, <2>3
  <1>11. CASE GetDataInternal
    <2>1. outcome = "ready"
      BY <1>0, <1>11 DEF GetDataInternal, ControlInv
    <2>2. /\ reported' = insert_count
          /\ UNCHANGED <<delivered, insert_count, rows_affected, ingested,
                         outcome>>
      BY <1>11 DEF GetDataInternal
    <2> QED
      BY <2>1, <2>2
  <1>12. CASE Destroy
    BY <1>0, <1>12 DEF Destroy
  <1>13. CASE DestroyNotify
    BY <1>0, <1>13 DEF DestroyNotify, NotifyConsumer
  <1>14. CASE DestroyJoin
    BY <1>0, <1>14 DEF DestroyJoin, Joined
  <1>15. CASE AsyncInsert
    BY <1>0, <1>15 DEF AsyncInsert
  <1>16. CASE DriverPulls
    BY <1>0, <1>16 DEF DriverPulls
  <1>17. CASE DriverFails
    BY <1>0, <1>17 DEF DriverFails
  <1>18. CASE DriverCompletes
    <2>1. outcome # "ready" /\ reported = -1
      BY <1>0, <1>18 DEF DriverCompletes, ControlInv
    <2>2. outcome' # "ready" /\ UNCHANGED reported
      BY <2>1, <1>18 DEF DriverCompletes
    <2> QED
      BY <2>1, <2>2
  <1>19. CASE GetNext
    BY <1>0, <1>19 DEF GetNext
  <1>20. CASE GetNextNotify
    BY <1>0, <1>20 DEF GetNextNotify, NotifyProducer
  <1>21. CASE GetNextReturn
    <2>1. outcome # "ready" /\ reported = -1
      BY <1>0, <1>21 DEF GetNextReturn, ControlInv
    <2>2. outcome' # "ready" /\ UNCHANGED reported
      BY <2>1, <1>21 DEF GetNextReturn
    <2> QED
      BY <2>1, <2>2
  <1>22. CASE StreamRelease
    BY <1>0, <1>22 DEF StreamRelease
  <1>23. CASE StreamReleaseNotify
    BY <1>0, <1>23 DEF StreamReleaseNotify, NotifyProducer
  <1>24. CASE SpuriousWakeup
    BY <1>0, <1>24 DEF SpuriousWakeup
  <1>25. CASE UNCHANGED vars
    BY <1>0, <1>25 DEF vars
  <1> QED
    BY <1>1, <1>2, <1>3, <1>4, <1>5, <1>6, <1>7, <1>8, <1>9, <1>10, <1>11,
       <1>12, <1>13, <1>14, <1>15, <1>16, <1>17, <1>18, <1>19, <1>20, <1>21,
       <1>22, <1>23, <1>24, <1>25
       DEF Next, ProducerNext, ConsumerNext, Terminated

\* A materialized input is not delivered before Finalize.
LEMMA MaterializeStep ==
    ASSUME InsertAssumption, TypeOK, RowsInv, ControlInv, MaterializeInv, [Next]_vars
    PROVE  MaterializeInv'
  <1> USE DEF MaterializeInv, config, flags, counts, buffer, adbc, array,
              driver, results, Live, Accepting, SinkStates, FinalizeStates,
              DestructorStates, PullingStates, GetNextStates
  <1>0. FlagTypes /\ ControlTypes /\ DataTypes /\ RowCounts /\ ControlInv
    BY DEF TypeOK, RowsInv
  <1>1. CASE GetGlobalSinkState
    BY <1>0, <1>1 DEF GetGlobalSinkState
  <1>2. CASE GetConnectionFails
    BY <1>0, <1>2 DEF GetConnectionFails
  <1>3. CASE CreateTableFails
    BY <1>0, <1>3 DEF CreateTableFails
  <1>4. ASSUME NEW n \in 1..VectorSize, Sink(n)
        PROVE  MaterializeInv'
    <2>1. UNCHANGED <<materialize_input, out, delivered, seen_canceled, outcome>>
      BY <1>4 DEF Sink
    <2>2. materialize_input => ~full'
      BY <1>0, <1>4 DEF Sink, Enqueue, FullAfter
    <2>3. materialize_input =>
             Len(delivered) = 0 /\ (Len(out) > 0 => seen_canceled)
      BY <1>0, <1>4 DEF Sink, DataTypes
    <2> QED
      BY <2>1, <2>2, <2>3
  <1>5. CASE SinkResume
    <2>1. UNCHANGED <<materialize_input, out, delivered, seen_canceled, outcome>>
      BY <1>5 DEF SinkResume
    <2>2. materialize_input => ~full'
      BY <1>0, <1>5 DEF SinkResume, Enqueue, FullAfter
    <2>3. materialize_input =>
             Len(delivered) = 0 /\ (Len(out) > 0 => seen_canceled)
      BY <1>0, <1>5 DEF SinkResume, DataTypes
    <2> QED
      BY <2>1, <2>2, <2>3
  <1>6. CASE SinkNotify
    BY <1>0, <1>6 DEF SinkNotify, NotifyConsumer
  <1>7. CASE SinkLaunchFails
    BY <1>0, <1>7 DEF SinkLaunchFails
  <1>8. CASE Finalize
    BY <1>0, <1>8 DEF Finalize
  <1>9. CASE FinalizeNotify
    BY <1>0, <1>9 DEF FinalizeNotify, NotifyConsumer
  <1>10. CASE FinalizeCheck
    <2>1. UNCHANGED <<materialize_input, full, out, delivered, seen_canceled>>
      BY <1>10 DEF FinalizeCheck, Joined
    <2>2. materialize_input => Len(out) = 0 \/ seen_canceled
      BY <1>0, <1>10 DEF FinalizeCheck, Joined, ControlInv, RowCounts, DataTypes
    <2>3. materialize_input /\ Len(delivered) > 0 =>
             ~Accepting' /\ outcome' # "aborted"
      BY <1>0, <1>10 DEF FinalizeCheck, ControlInv
    <2> QED
      BY <2>1, <2>2, <2>3
  <1>11. CASE GetDataInternal
    BY <1>0, <1>11 DEF GetDataInternal
  <1>12. CASE Destroy
    <2>1. UNCHANGED <<materialize_input, full, out, delivered, seen_canceled>>
      BY <1>12 DEF Destroy
    <2>2. materialize_input => Len(out) = 0 \/ seen_canceled
      BY <1>0, <1>12 DEF Destroy, ControlInv, RowCounts, DataTypes
    <2>3. materialize_input /\ Len(delivered) > 0 =>
             ~Accepting' /\ outcome' # "aborted"
      BY <1>0, <1>12 DEF Destroy, ControlInv
    <2> QED
      BY <2>1, <2>2, <2>3
  <1>13. CASE DestroyNotify
    BY <1>0, <1>13 DEF DestroyNotify, NotifyConsumer
  <1>14. CASE DestroyJoin
    BY <1>0, <1>14 DEF DestroyJoin, Joined
  <1>15. CASE AsyncInsert
    BY <1>0, <1>15 DEF AsyncInsert
  <1>16. CASE DriverPulls
    BY <1>0, <1>16 DEF DriverPulls
  <1>17. CASE DriverFails
    BY <1>0, <1>17 DEF DriverFails
  <1>18. CASE DriverCompletes
    BY <1>0, <1>18 DEF DriverCompletes
  <1>19. CASE GetNext
    <2>1. UNCHANGED <<materialize_input, delivered, producer, outcome>>
      BY <1>19 DEF GetNext
    <2>2. materialize_input => ~full'
      BY <1>0, <1>19 DEF GetNext, ReadChunk, BufferDrained
    <2>3. materialize_input /\ Len(out') > 0 /\ ~seen_canceled' =>
             producer \in FinalizeStates
      <3>1. CASE ~ConsumerPredicate
        BY <1>0, <1>19, <3>1 DEF GetNext
      <3>2. CASE ConsumerPredicate
        <4>1. seen_canceled' = canceled
          BY <1>19, <3>2 DEF GetNext
        <4>2. materialize_input => done
          BY <3>2 DEF ConsumerPredicate
        <4> QED
          BY <1>0, <1>19, <4>1, <4>2
             DEF GetNext, ControlInv, ControlTypes, ProducerStates
      <3> QED
        BY <3>1, <3>2
    <2> QED
      BY <2>1, <2>2, <2>3
  <1>20. CASE GetNextNotify
    BY <1>0, <1>20 DEF GetNextNotify, NotifyProducer
  <1>21. CASE GetNextReturn
    <2>1. /\ UNCHANGED <<materialize_input, full, producer, outcome>>
          /\ out' = <<>>
      BY <1>21 DEF GetNextReturn
    <2>2. CASE UNCHANGED delivered
      BY <2>1, <2>2
    <2>3. CASE delivered' = delivered \o out /\ ~seen_canceled
      <3>1. Len(delivered') = Len(delivered) + Len(out)
        BY <1>0, <2>3 DEF DataTypes
      <3>2. materialize_input /\ Len(out) > 0 =>
               ~Accepting /\ outcome # "aborted"
        BY <1>0, <2>3 DEF ControlInv
      <3>3. Len(delivered) \in Nat /\ Len(out) \in Nat
        BY <1>0 DEF DataTypes
      <3> QED
        BY <2>1, <3>1, <3>2, <3>3
    <2> QED
      BY <1>0, <1>21, <2>2, <2>3 DEF GetNextReturn, CanceledRead, FlagTypes
  <1>22. CASE StreamRelease
    BY <1>0, <1>22 DEF StreamRelease
  <1>23. CASE StreamReleaseNotify
    BY <1>0, <1>23 DEF StreamReleaseNotify, NotifyProducer
  <1>24. CASE SpuriousWakeup
    BY <1>0, <1>24 DEF SpuriousWakeup
  <1>25. CASE UNCHANGED vars
    BY <1>0, <1>25 DEF vars
  <1> QED
    BY <1>1, <1>2, <1>3, <1>4, <1>5, <1>6, <1>7, <1>8, <1>9, <1>10, <1>11,
       <1>12, <1>13, <1>14, <1>15, <1>16, <1>17, <1>18, <1>19, <1>20, <1>21,
       <1>22, <1>23, <1>24, <1>25
       DEF Next, ProducerNext, ConsumerNext, Terminated

\* CREATE TABLE AS stays on the table it created.
LEMMA CtasStep ==
    ASSUME InsertAssumption, TypeOK, ControlInv, CtasInv, [Next]_vars
    PROVE  CtasInv'
  <1> USE DEF CtasInv, config, flags, counts, buffer, adbc, array, driver,
              results, Live, Accepting, SinkStates, FinalizeStates,
              DestructorStates, PullingStates, GetNextStates
  <1>0. ControlTypes /\ ControlInv
    BY DEF TypeOK
  <1>1. CASE GetGlobalSinkState
    BY <1>0, <1>1 DEF GetGlobalSinkState
  <1>2. CASE GetConnectionFails
    BY <1>0, <1>2 DEF GetConnectionFails
  <1>3. CASE CreateTableFails
    BY <1>0, <1>3 DEF CreateTableFails
  <1>4. ASSUME NEW n \in 1..VectorSize, Sink(n)
        PROVE  CtasInv'
    BY <1>0, <1>4 DEF Sink, Enqueue
  <1>5. CASE SinkResume
    BY <1>0, <1>5 DEF SinkResume, Enqueue
  <1>6. CASE SinkNotify
    BY <1>0, <1>6 DEF SinkNotify, NotifyConsumer
  <1>7. CASE SinkLaunchFails
    BY <1>0, <1>7 DEF SinkLaunchFails
  <1>8. CASE Finalize
    BY <1>0, <1>8 DEF Finalize
  <1>9. CASE FinalizeNotify
    BY <1>0, <1>9 DEF FinalizeNotify, NotifyConsumer
  <1>10. CASE FinalizeCheck
    BY <1>0, <1>10 DEF FinalizeCheck, Joined, InsertSucceeded
  <1>11. CASE GetDataInternal
    BY <1>0, <1>11 DEF GetDataInternal
  <1>12. CASE Destroy
    BY <1>0, <1>12 DEF Destroy
  <1>13. CASE DestroyNotify
    BY <1>0, <1>13 DEF DestroyNotify, NotifyConsumer
  <1>14. CASE DestroyJoin
    BY <1>0, <1>14 DEF DestroyJoin, Joined
  <1>15. CASE AsyncInsert
    BY <1>0, <1>15 DEF AsyncInsert
  <1>16. CASE DriverPulls
    BY <1>0, <1>16 DEF DriverPulls
  <1>17. CASE DriverFails
    BY <1>0, <1>17 DEF DriverFails
  <1>18. CASE DriverCompletes
    BY <1>0, <1>18 DEF DriverCompletes
  <1>19. CASE GetNext
    BY <1>0, <1>19 DEF GetNext
  <1>20. CASE GetNextNotify
    BY <1>0, <1>20 DEF GetNextNotify, NotifyProducer
  <1>21. CASE GetNextReturn
    BY <1>0, <1>21 DEF GetNextReturn
  <1>22. CASE StreamRelease
    BY <1>0, <1>22 DEF StreamRelease
  <1>23. CASE StreamReleaseNotify
    BY <1>0, <1>23 DEF StreamReleaseNotify, NotifyProducer
  <1>24. CASE SpuriousWakeup
    BY <1>0, <1>24 DEF SpuriousWakeup
  <1>25. CASE UNCHANGED vars
    BY <1>0, <1>25 DEF vars
  <1> QED
    BY <1>1, <1>2, <1>3, <1>4, <1>5, <1>6, <1>7, <1>8, <1>9, <1>10, <1>11,
       <1>12, <1>13, <1>14, <1>15, <1>16, <1>17, <1>18, <1>19, <1>20, <1>21,
       <1>22, <1>23, <1>24, <1>25
       DEF Next, ProducerNext, ConsumerNext, Terminated

\* Chunk counts times the vector size.
LEMMA ChunkArithmetic ==
    ASSUME NEW a \in Int, NEW v \in Nat \ {0}
    PROVE  /\ (a + 1) * v = a * v + v
           /\ (a - 1) * v = a * v - v
           /\ a * v > 0 => (a - 1) * v >= 0
           /\ a >= 0 => a * v >= 0
           /\ \A b \in Int : a <= b => a * v <= b * v
  <1>1. (a + 1) * v = a * v + v /\ (a - 1) * v = a * v - v
    OBVIOUS
  <1>2. \A b \in Int : a <= b => a * v <= b * v
    OBVIOUS
  <1>3. a * v > 0 => (a - 1) * v >= 0
    OBVIOUS
  <1>4. a >= 0 => a * v >= 0
    OBVIOUS
  <1> QED
    BY <1>1, <1>2, <1>3, <1>4

\* A Sink appends only to a buffer with room for its chunk.
LEMMA EnqueueKeepsBound ==
    ASSUME InsertAssumption, TypeOK, RowCounts, ControlInv, BufferInv,
           NEW n \in 1..VectorSize, NEW first_chunk \in BOOLEAN,
           Enqueue(n, first_chunk), Accepting, Live' => Live,
           UNCHANGED <<scan_row, materialize_input, done>>
    PROVE  BufferInv'
  <1>0. /\ VectorSize \in Nat \ {0} /\ max_chunks \in Nat \ {0} /\ n \in Nat
        /\ active_chunks \in Int
        /\ scan_row \in Nat
        /\ collection \in Seq(Nat)
        /\ Len(collection) \in Nat
    BY DEF TypeOK, DataTypes, InsertAssumption
  <1>1. CASE ~ProducerPredicate
    BY <1>1 DEF Enqueue, counts, BufferInv, ActiveChunksCoverBuffer,
                BufferBounded, Live
  <1>2. CASE ProducerPredicate /\ canceled
    BY <1>2 DEF Enqueue, counts, BufferInv, ActiveChunksCoverBuffer,
                BufferBounded, Live
  <1>3. CASE ProducerPredicate /\ ~canceled
    <2>0. /\ collection' = collection \o Rows(n)
          /\ active_chunks' = active_chunks + 1
          /\ producer' = "sink_notify"
          /\ \E exhausted_memory \in BOOLEAN :
                full' = FullAfter(first_chunk, exhausted_memory)
      BY <1>3 DEF Enqueue
    <2>1. ~full' /\ ~materialize_input => active_chunks + 1 < max_chunks
      BY <1>0, <2>0 DEF FullAfter
    <2>2. Len(collection') = Len(collection) + n
      <3>1. Rows(n) \in Seq(Nat) /\ Len(Rows(n)) = n
        BY <1>0, RowsOfSink DEF TypeOK, DataTypes
      <3>2. Len(collection \o Rows(n)) = Len(collection) + Len(Rows(n))
        BY <1>0, <3>1
      <3> QED
        BY <2>0, <3>1, <3>2
    <2>3. (active_chunks + 1) * VectorSize
             = active_chunks * VectorSize + VectorSize
          /\ active_chunks * VectorSize \in Int
      BY <1>0, ChunkArithmetic
    <2>4. ActiveChunksCoverBuffer'
      <3>1. Len(collection) - scan_row <= active_chunks * VectorSize
        BY DEF BufferInv, ActiveChunksCoverBuffer
      <3>2. Len(collection) + n - scan_row <= (active_chunks + 1) * VectorSize
        BY <1>0, <2>3, <3>1
      <3>3. active_chunks' = active_chunks + 1 /\ scan_row' = scan_row
        BY <2>0
      <3> QED
        BY <1>0, <2>2, <3>2, <3>3 DEF ActiveChunksCoverBuffer
    <2>5. ~materialize_input /\ Live => ~full /\ ~done
      BY <1>3 DEF ProducerPredicate, ControlInv
    <2>6. ~materialize_input /\ Live => Len(collection) + n <= max_chunks * VectorSize
      <3> SUFFICES ASSUME ~materialize_input, Live
                   PROVE  Len(collection) + n <= max_chunks * VectorSize
        OBVIOUS
      <3>1. /\ scan_row = 0
            /\ collection # <<>> => active_chunks < max_chunks
            /\ Len(collection) - scan_row <= active_chunks * VectorSize
        BY <2>5 DEF BufferInv, ActiveChunksCoverBuffer
      <3>2. CASE collection = <<>>
        <4>1. 1 * VectorSize <= max_chunks * VectorSize
          BY <1>0, ChunkArithmetic
        <4>2. Len(collection) = 0 /\ 1 * VectorSize = VectorSize
              /\ max_chunks * VectorSize \in Int
          BY <1>0, <3>2
        <4> QED
          BY <1>0, <4>1, <4>2
      <3>3. CASE collection # <<>>
        <4>1. active_chunks + 1 <= max_chunks
          BY <1>0, <3>1, <3>3
        <4>2. (active_chunks + 1) * VectorSize <= max_chunks * VectorSize
          BY <1>0, <4>1, ChunkArithmetic
        <4>3. max_chunks * VectorSize \in Int
          BY <1>0
        <4> QED
          BY <1>0, <2>3, <3>1, <4>2, <4>3
      <3> QED
        BY <3>2, <3>3
    <2>7. BufferBounded'
      BY <2>2, <2>6 DEF BufferBounded, Live
    <2> QED
      BY <2>0, <2>1, <2>4, <2>5, <2>7 DEF BufferInv
  <1> QED
    BY <1>1, <1>2, <1>3

\* Every step keeps the buffer within its bound.
LEMMA BufferStep ==
    ASSUME InsertAssumption, TypeOK, RowsInv, ControlInv, BufferInv, [Next]_vars
    PROVE  BufferInv'
  <1> USE DEF config, flags, counts, buffer, adbc, array, driver,
              results, Live, Accepting, SinkStates, FinalizeStates,
              DestructorStates, PullingStates, GetNextStates
  <1>0. FlagTypes /\ ControlTypes /\ DataTypes /\ RowCounts
    BY DEF TypeOK, RowsInv
  <1>1. CASE GetGlobalSinkState
    BY <1>0, <1>1 DEF GetGlobalSinkState, BufferInv, ActiveChunksCoverBuffer,
           BufferBounded
  <1>2. CASE GetConnectionFails
    BY <1>0, <1>2 DEF GetConnectionFails, BufferInv, ActiveChunksCoverBuffer,
           BufferBounded
  <1>3. CASE CreateTableFails
    BY <1>0, <1>3 DEF CreateTableFails, BufferInv, ActiveChunksCoverBuffer,
           BufferBounded
  <1>4. ASSUME NEW n \in 1..VectorSize, Sink(n)
        PROVE  BufferInv'
    <2>1. /\ UNCHANGED <<scan_row, materialize_input, done>>
          /\ Enqueue(n, first_insert)
          /\ Accepting
      BY <1>4 DEF Sink
    <2>2. Live' => Live
      BY <1>0, <1>4 DEF Sink, ControlInv
    <2>3. first_insert \in BOOLEAN
      BY <1>0 DEF FlagTypes
    <2> QED
      BY <1>0, <2>1, <2>2, <2>3, EnqueueKeepsBound
  <1>5. CASE SinkResume
    <2>1. /\ UNCHANGED <<scan_row, materialize_input, done, consumer>>
          /\ Enqueue(sink_rows, FALSE)
          /\ Accepting
          /\ sink_rows \in 1..VectorSize
      BY <1>5 DEF SinkResume, BufferInv
    <2>2. Live' => Live
      BY <2>1
    <2> QED
      BY <1>0, <2>1, <2>2, EnqueueKeepsBound
  <1>6. CASE SinkNotify
    BY <1>0, <1>6 DEF SinkNotify, NotifyConsumer, BufferInv,
           ActiveChunksCoverBuffer, BufferBounded
  <1>7. CASE SinkLaunchFails
    BY <1>0, <1>7 DEF SinkLaunchFails, BufferInv, ActiveChunksCoverBuffer,
           BufferBounded
  <1>8. CASE Finalize
    BY <1>0, <1>8 DEF Finalize, BufferInv, ActiveChunksCoverBuffer,
           BufferBounded
  <1>9. CASE FinalizeNotify
    BY <1>0, <1>9 DEF FinalizeNotify, NotifyConsumer, BufferInv,
           ActiveChunksCoverBuffer, BufferBounded
  <1>10. CASE FinalizeCheck
    BY <1>0, <1>10 DEF FinalizeCheck, BufferInv, ActiveChunksCoverBuffer,
           BufferBounded
  <1>11. CASE GetDataInternal
    BY <1>0, <1>11 DEF GetDataInternal, BufferInv, ActiveChunksCoverBuffer,
           BufferBounded
  <1>12. CASE Destroy
    BY <1>0, <1>12 DEF Destroy, BufferInv, ActiveChunksCoverBuffer,
           BufferBounded
  <1>13. CASE DestroyNotify
    BY <1>0, <1>13 DEF DestroyNotify, NotifyConsumer, BufferInv,
           ActiveChunksCoverBuffer, BufferBounded
  <1>14. CASE DestroyJoin
    BY <1>0, <1>14 DEF DestroyJoin, BufferInv, ActiveChunksCoverBuffer,
           BufferBounded
  <1>15. CASE AsyncInsert
    BY <1>0, <1>15 DEF AsyncInsert, BufferInv, ActiveChunksCoverBuffer,
           BufferBounded
  <1>16. CASE DriverPulls
    BY <1>0, <1>16 DEF DriverPulls, BufferInv, ActiveChunksCoverBuffer,
           BufferBounded
  <1>17. CASE DriverFails
    BY <1>0, <1>17 DEF DriverFails, BufferInv, ActiveChunksCoverBuffer,
           BufferBounded
  <1>18. CASE DriverCompletes
    BY <1>0, <1>18 DEF DriverCompletes, BufferInv, ActiveChunksCoverBuffer,
           BufferBounded
  <1>19. CASE GetNext
    <2>0. /\ UNCHANGED <<producer, sink_rows, materialize_input, done>>
          /\ Live
      BY <1>19 DEF GetNext
    <2>1. CASE ~ConsumerPredicate
      BY <1>0, <1>19, <2>0, <2>1
         DEF GetNext, BufferInv, ActiveChunksCoverBuffer, BufferBounded
    <2>2. CASE ConsumerPredicate /\ ReadChunk
      <3>1. /\ scan_row' = scan_row + Len(NextChunk)
            /\ scan_row < Len(collection)
            /\ active_chunks' = active_chunks - 1
            /\ UNCHANGED <<collection, full>>
        BY <1>19, <2>2 DEF GetNext, ReadChunk
      <3>2. /\ Len(NextChunk) \in 1..VectorSize
            /\ Len(NextChunk) < VectorSize =>
                  scan_row + Len(NextChunk) = Len(collection)
        <4>1. collection \in Seq(Nat) /\ scan_row \in Nat
          BY <1>0 DEF DataTypes
        <4> QED
          BY <3>1, <4>1, ScanYieldsNextRows
      <3>3. ActiveChunksCoverBuffer'
        <4>1. /\ VectorSize \in Nat \ {0}
              /\ active_chunks \in Int
              /\ scan_row \in Nat
              /\ Len(collection) \in Nat
          BY <1>0 DEF DataTypes, InsertAssumption
        <4>2. Len(collection) - scan_row <= active_chunks * VectorSize
          BY DEF BufferInv, ActiveChunksCoverBuffer
        <4>3. /\ (active_chunks - 1) * VectorSize
                    = active_chunks * VectorSize - VectorSize
              /\ active_chunks * VectorSize > 0 =>
                    (active_chunks - 1) * VectorSize >= 0
          BY <4>1, ChunkArithmetic
        <4>4. active_chunks * VectorSize \in Int
          BY <4>1
        <4>5. Len(collection) - scan_row' <= (active_chunks - 1) * VectorSize
          BY <3>1, <3>2, <4>1, <4>2, <4>3, <4>4
        <4> QED
          BY <3>1, <4>5 DEF ActiveChunksCoverBuffer
      <3>4. BufferBounded'
        BY <2>0, <3>1 DEF BufferInv, BufferBounded
      <3>5. full \/ done
        BY <2>2 DEF ConsumerPredicate
      <3> QED
        BY <2>0, <3>1, <3>3, <3>4, <3>5 DEF BufferInv
    <2>3. CASE ConsumerPredicate /\ BufferDrained
      <3>1. /\ scan_row >= Len(collection)
            /\ UNCHANGED active_chunks
            /\ \/ full /\ collection' = <<>> /\ scan_row' = 0
               \/ ~full /\ UNCHANGED <<collection, scan_row>>
        BY <2>3 DEF BufferDrained
      <3>2. /\ VectorSize \in Nat \ {0} /\ max_chunks \in Nat \ {0}
            /\ active_chunks \in Int
            /\ scan_row \in Nat
            /\ Len(collection) \in Nat
        BY <1>0 DEF DataTypes, InsertAssumption
      <3>3. Len(collection') - scan_row' = Len(collection) - scan_row
            \/ Len(collection') - scan_row' = 0
        BY <3>1
      <3>4. ActiveChunksCoverBuffer'
        <4>1. Len(collection) - scan_row = 0
          BY <1>0, <3>1, <3>2 DEF RowCounts
        <4> QED
          BY <3>1, <3>3, <4>1 DEF BufferInv, ActiveChunksCoverBuffer
      <3>5. BufferBounded'
        <4>1. max_chunks * VectorSize >= 0
          BY <3>2, ChunkArithmetic
        <4> QED
          BY <2>0, <3>1, <4>1 DEF BufferInv, BufferBounded
      <3>6. full \/ done
        BY <2>3 DEF ConsumerPredicate
      <3> QED
        BY <2>0, <3>1, <3>4, <3>5, <3>6 DEF BufferInv
    <2> QED
      BY <1>19, <2>1, <2>2, <2>3 DEF GetNext
  <1>20. CASE GetNextNotify
    BY <1>0, <1>20 DEF GetNextNotify, NotifyProducer, BufferInv,
           ActiveChunksCoverBuffer, BufferBounded
  <1>21. CASE GetNextReturn
    BY <1>0, <1>21 DEF GetNextReturn, BufferInv, ActiveChunksCoverBuffer,
           BufferBounded
  <1>22. CASE StreamRelease
    BY <1>0, <1>22 DEF StreamRelease, BufferInv, ActiveChunksCoverBuffer,
           BufferBounded
  <1>23. CASE StreamReleaseNotify
    BY <1>0, <1>23 DEF StreamReleaseNotify, NotifyProducer, BufferInv,
           ActiveChunksCoverBuffer, BufferBounded
  <1>24. CASE SpuriousWakeup
    BY <1>0, <1>24 DEF SpuriousWakeup, BufferInv, ActiveChunksCoverBuffer,
           BufferBounded
  <1>25. CASE UNCHANGED vars
    BY <1>0, <1>25 DEF vars, BufferInv, ActiveChunksCoverBuffer, BufferBounded
  <1> QED
    BY <1>1, <1>2, <1>3, <1>4, <1>5, <1>6, <1>7, <1>8, <1>9, <1>10, <1>11,
       <1>12, <1>13, <1>14, <1>15, <1>16, <1>17, <1>18, <1>19, <1>20, <1>21,
       <1>22, <1>23, <1>24, <1>25
       DEF Next, ProducerNext, ConsumerNext, Terminated

\* The inductive invariant holds when the statement starts.
LEMMA IndInit == Init => IndInv
  <1> SUFFICES ASSUME Init PROVE IndInv
    OBVIOUS
  <1> USE DEF Init
  <1>1. TypeOK
    BY TypeInit
  <1>2. RowsInv
    <2>1. Len(delivered) = 0 /\ Len(out) = 0 /\ Len(collection) = 0
      OBVIOUS
    <2>2. DeliveredRows /\ ArrayRows /\ BufferRows
      BY <2>1 DEF DeliveredRows, ArrayRows, BufferRows
    <2>3. insert_count = 0 /\ scan_row = 0
      OBVIOUS
    <2> HIDE DEF Init
    <2>4. RowCounts
      BY <2>1, <2>3 DEF RowCounts
    <2> QED
      BY <2>2, <2>4 DEF RowsInv
  <1>3. ControlInv
    BY DEF ControlInv, Accepting, Live, SinkStates, FinalizeStates,
           DestructorStates
  <1>4. SealInv /\ ReadyInv /\ MaterializeInv
    BY DEF SealInv, ReadyInv, ReadyMeansComplete, MaterializeInv
  <1>5. BufferInv
    <2>1. /\ VectorSize \in Nat \ {0} /\ max_chunks \in Nat \ {0}
          /\ max_chunks * VectorSize >= 0
          /\ 0 * VectorSize = 0
      BY InsertAssumption, ChunkArithmetic DEF InsertAssumption
    <2> QED
      BY <2>1 DEF BufferInv, ActiveChunksCoverBuffer, BufferBounded
  <1>6. CtasInv
    BY DEF CtasInv, SinkStates
  <1> QED
    BY <1>1, <1>2, <1>3, <1>4, <1>5, <1>6 DEF IndInv

\* IndInv is inductive.
THEOREM Inductive == Spec => []IndInv
  <1>1. IndInv /\ [Next]_vars => IndInv'
    BY InsertAssumption, TypeStep, RowsStep, ControlStep, SealStep, ReadyStep,
       MaterializeStep, BufferStep, CtasStep
       DEF IndInv
  <1> QED
    BY <1>1, IndInit, PTL DEF Spec

\* Whatever the interleaving of Sink and get_next, the driver receives a
\* prefix of the input, in order, without loss or duplication.
THEOREM OrderPreserved == Spec => []RowsInOrder
  <1>1. IndInv => RowsInOrder
    BY DEF IndInv, RowsInv, DeliveredRows, RowCounts, RowsInOrder
  <1> QED
    BY <1>1, Inductive, PTL

\* A statement for which Finalize returns READY has delivered every row.
THEOREM SuccessIsComplete == Spec => []ReadyMeansComplete
  <1>1. IndInv => ReadyMeansComplete
    BY DEF IndInv, ReadyInv
  <1> QED
    BY <1>1, Inductive, PTL

\* An aborted or unfinished input never looks complete to the driver, even
\* when the unprotected read of canceled in get_next returns a stale value.
THEOREM EndOfStreamIsFinal == Spec => []EndOfStreamMeansFinalized
  <1>1. IndInv => EndOfStreamMeansFinalized
    BY DEF IndInv, SealInv, Accepting, EndOfStreamMeansFinalized
  <1> QED
    BY <1>1, Inductive, PTL

\* While the insert thread is alive the buffer holds at most max_chunks
\* vectors, although active_chunks is no exact count.
THEOREM BufferStaysBounded == Spec => []BufferBounded
  <1>1. IndInv => BufferBounded
    BY DEF IndInv, BufferInv
  <1> QED
    BY <1>1, Inductive, PTL

\* active_chunks never falls below the chunks left to scan.
THEOREM ChunkCountCovers == Spec => []ActiveChunksCoverBuffer
  <1>1. IndInv => ActiveChunksCoverBuffer
    BY DEF IndInv, BufferInv
  <1> QED
    BY <1>1, Inductive, PTL

\* A materialized input is delivered only after Finalize.
THEOREM MaterializedFirst == Spec => []MaterializedBeforeDelivery
  <1>1. ASSUME IndInv, delivered # <<>>
        PROVE  Len(delivered) > 0
    BY <1>1 DEF IndInv, TypeOK, DataTypes
  <1>2. IndInv => MaterializedBeforeDelivery
    BY <1>1 DEF IndInv, MaterializeInv, Accepting, MaterializedBeforeDelivery
  <1> QED
    BY <1>2, Inductive, PTL

\* CREATE TABLE AS never appends to a table it did not create.
THEOREM CtasOnlyOnCreatedTable == Spec => []CtasKeepsExistingTable
  <1>1. ASSUME IndInv, delivered # <<>>
        PROVE  consumer # "none"
    BY <1>1 DEF IndInv, TypeOK, DataTypes, RowsInv, RowCounts, ControlInv
  <1>2. IndInv => CtasKeepsExistingTable
    BY <1>1 DEF IndInv, CtasInv, CtasKeepsExistingTable
  <1> QED
    BY <1>2, Inductive, PTL

\* Every step of the operator is a step of BulkInsert, or changes nothing a
\* client of BulkInsert can see.
LEMMA BulkInsertStep ==
    ASSUME InsertAssumption, IndInv, [Next]_vars
    PROVE  [Abstract!Next]_(Abstract!vars)
  <1> USE DEF Live, Accepting, config, flags, counts, buffer, adbc, array,
              driver, results, SinkStates, FinalizeStates, DestructorStates,
              PullingStates, GetNextStates
  <1>0. /\ FlagTypes /\ ControlTypes /\ DataTypes /\ TypeOK
        /\ RowsInv /\ RowCounts /\ ControlInv /\ SealInv /\ MaterializeInv
        /\ BufferInv
    BY DEF IndInv, TypeOK, RowsInv
  <1>1. CASE GetGlobalSinkState
    <2>1. UNCHANGED <<materialize_input, insert_count, delivered, stream_ended>>
      BY <1>1 DEF GetGlobalSinkState
    <2>2. UNCHANGED phase
      BY <1>0, <1>1 DEF GetGlobalSinkState, phase, ControlInv
    <2> QED
      BY <2>1, <2>2 DEF Abstract!vars
  <1>2. CASE GetConnectionFails
    <2>1. UNCHANGED <<materialize_input, insert_count, delivered, stream_ended>>
      BY <1>2 DEF GetConnectionFails
    <2>2. phase \in {"open"} /\ phase' = "failed"
      BY <1>0, <1>2 DEF GetConnectionFails, phase, ControlInv
    <2> QED
      BY <2>1, <2>2 DEF Abstract!Next, Abstract!Fail
  <1>3. CASE CreateTableFails
    <2>1. UNCHANGED <<materialize_input, insert_count, delivered, stream_ended>>
      BY <1>3 DEF CreateTableFails
    <2>2. phase \in {"open"} /\ phase' = "failed"
      BY <1>0, <1>3 DEF CreateTableFails, phase, ControlInv
    <2> QED
      BY <2>1, <2>2 DEF Abstract!Next, Abstract!Fail
  <1>4. ASSUME NEW n \in 1..VectorSize, Sink(n)
        PROVE  [Abstract!Next]_(Abstract!vars)
    <2>1. UNCHANGED <<materialize_input, delivered, stream_ended>>
      BY <1>4 DEF Sink
    <2>2. phase = "open" /\ phase' = "open"
      BY <1>0, <1>4 DEF Sink, Enqueue, phase, ControlInv
    <2>3. insert_count' = insert_count \/ insert_count' = insert_count + n
      BY <1>4 DEF Sink, Enqueue
    <2>4. n \in Nat \ {0} /\ insert_count \in Nat
      BY <1>0 DEF InsertAssumption, DataTypes
    <2>5. CASE insert_count' = insert_count
      BY <2>1, <2>2, <2>5 DEF Abstract!vars
    <2>6. CASE insert_count' = insert_count + n
      BY <2>1, <2>2, <2>4, <2>6 DEF Abstract!Next, Abstract!Accept
    <2> QED
      BY <2>3, <2>5, <2>6
  <1>5. CASE SinkResume
    <2>1. UNCHANGED <<materialize_input, delivered, stream_ended>>
      BY <1>5 DEF SinkResume
    <2>2. phase = "open" /\ phase' = "open"
      BY <1>0, <1>5 DEF SinkResume, Enqueue, phase, ControlInv
    <2>3. insert_count' = insert_count \/ insert_count' = insert_count + sink_rows
      BY <1>5 DEF SinkResume, Enqueue
    <2>4. sink_rows \in Nat \ {0} /\ insert_count \in Nat
      BY <1>0, <1>5 DEF SinkResume, InsertAssumption, DataTypes, BufferInv
    <2>5. CASE insert_count' = insert_count
      BY <2>1, <2>2, <2>5 DEF Abstract!vars
    <2>6. CASE insert_count' = insert_count + sink_rows
      BY <2>1, <2>2, <2>4, <2>6 DEF Abstract!Next, Abstract!Accept
    <2> QED
      BY <2>3, <2>5, <2>6
  <1>6. CASE SinkNotify
    <2>1. UNCHANGED <<materialize_input, insert_count, delivered, stream_ended>>
      BY <1>6 DEF SinkNotify
    <2>2. UNCHANGED phase
      BY <1>0, <1>6 DEF SinkNotify, NotifyConsumer, phase, ControlInv
    <2> QED
      BY <2>1, <2>2 DEF Abstract!vars
  <1>7. CASE SinkLaunchFails
    <2>1. UNCHANGED <<materialize_input, insert_count, delivered, stream_ended>>
      BY <1>7 DEF SinkLaunchFails
    <2>2. phase \in {"open"} /\ phase' = "failed"
      BY <1>0, <1>7 DEF SinkLaunchFails, phase, ControlInv
    <2> QED
      BY <2>1, <2>2 DEF Abstract!Next, Abstract!Fail
  <1>8. CASE Finalize
    <2>1. UNCHANGED <<materialize_input, insert_count, delivered, stream_ended>>
      BY <1>8 DEF Finalize
    <2>2. phase \in {"open"} /\ phase' = "closed"
      BY <1>0, <1>8 DEF Finalize, phase, ControlInv
    <2> QED
      BY <2>1, <2>2 DEF Abstract!Next, Abstract!Close
  <1>9. CASE FinalizeNotify
    <2>1. UNCHANGED <<materialize_input, insert_count, delivered, stream_ended>>
      BY <1>9 DEF FinalizeNotify
    <2>2. UNCHANGED phase
      BY <1>0, <1>9 DEF FinalizeNotify, NotifyConsumer, phase, ControlInv
    <2> QED
      BY <2>1, <2>2 DEF Abstract!vars
  <1>10. CASE FinalizeCheck
    <2>1. UNCHANGED <<materialize_input, insert_count, delivered, stream_ended>>
      BY <1>10 DEF FinalizeCheck
    <2>2. phase = "closed"
      BY <1>0, <1>10 DEF FinalizeCheck, phase, ControlInv
    <2>3. CASE InsertSucceeded
      <3>1. phase' = "ready"
        BY <1>10, <2>3 DEF FinalizeCheck, phase
      <3>2. stream_ended \/ insert_count = 0
        BY <1>0, <1>10, <2>3 DEF FinalizeCheck, Joined, InsertSucceeded,
                               ControlInv, SealInv
      <3> QED
        BY <2>1, <2>2, <3>1, <3>2 DEF Abstract!Next, Abstract!Succeed
    <2>4. CASE ~InsertSucceeded
      <3>1. phase' = "failed"
        BY <1>10, <2>4 DEF FinalizeCheck, phase
      <3> QED
        BY <2>1, <2>2, <3>1 DEF Abstract!Next, Abstract!Fail
    <2> QED
      BY <2>3, <2>4
  <1>11. CASE GetDataInternal
    <2>1. UNCHANGED <<materialize_input, insert_count, delivered, stream_ended>>
      BY <1>11 DEF GetDataInternal
    <2>2. UNCHANGED phase
      BY <1>0, <1>11 DEF GetDataInternal, phase, ControlInv
    <2> QED
      BY <2>1, <2>2 DEF Abstract!vars
  <1>12. CASE Destroy
    <2>1. UNCHANGED <<materialize_input, insert_count, delivered, stream_ended>>
      BY <1>12 DEF Destroy
    <2>2. CASE outcome = "pending"
      <3>1. phase = "open" /\ phase' = "aborted"
        BY <1>0, <1>12, <2>2 DEF Destroy, phase, ControlInv
      <3> QED
        BY <2>1, <3>1 DEF Abstract!Next, Abstract!Abort
    <2>3. CASE outcome # "pending"
      <3>1. UNCHANGED phase
        BY <1>0, <1>12, <2>3 DEF Destroy, phase, ControlInv
      <3> QED
        BY <2>1, <3>1 DEF Abstract!vars
    <2> QED
      BY <2>2, <2>3
  <1>13. CASE DestroyNotify
    <2>1. UNCHANGED <<materialize_input, insert_count, delivered, stream_ended>>
      BY <1>13 DEF DestroyNotify
    <2>2. UNCHANGED phase
      BY <1>0, <1>13 DEF DestroyNotify, NotifyConsumer, phase, ControlInv
    <2> QED
      BY <2>1, <2>2 DEF Abstract!vars
  <1>14. CASE DestroyJoin
    <2>1. UNCHANGED <<materialize_input, insert_count, delivered, stream_ended>>
      BY <1>14 DEF DestroyJoin
    <2>2. phase \in {"ready", "failed", "aborted"} /\ phase' = "returned"
      BY <1>0, <1>14 DEF DestroyJoin, phase, ControlInv, ControlTypes
    <2> QED
      BY <2>1, <2>2 DEF Abstract!Next, Abstract!Return
  <1>15. CASE AsyncInsert
    <2>1. UNCHANGED <<materialize_input, insert_count, delivered, stream_ended>>
      BY <1>15 DEF AsyncInsert
    <2>2. UNCHANGED phase
      BY <1>0, <1>15 DEF AsyncInsert, phase, ControlInv
    <2> QED
      BY <2>1, <2>2 DEF Abstract!vars
  <1>16. CASE DriverPulls
    <2>1. UNCHANGED <<materialize_input, insert_count, delivered, stream_ended>>
      BY <1>16 DEF DriverPulls
    <2>2. UNCHANGED phase
      BY <1>0, <1>16 DEF DriverPulls, phase, ControlInv
    <2> QED
      BY <2>1, <2>2 DEF Abstract!vars
  <1>17. CASE DriverFails
    <2>1. UNCHANGED <<materialize_input, insert_count, delivered, stream_ended>>
      BY <1>17 DEF DriverFails
    <2>2. UNCHANGED phase
      BY <1>0, <1>17 DEF DriverFails, phase, ControlInv
    <2> QED
      BY <2>1, <2>2 DEF Abstract!vars
  <1>18. CASE DriverCompletes
    <2>1. UNCHANGED <<materialize_input, insert_count, delivered, stream_ended>>
      BY <1>18 DEF DriverCompletes
    <2>2. UNCHANGED phase
      BY <1>0, <1>18 DEF DriverCompletes, phase, ControlInv
    <2> QED
      BY <2>1, <2>2 DEF Abstract!vars
  <1>19. CASE GetNext
    <2>1. UNCHANGED <<materialize_input, insert_count, delivered, stream_ended>>
      BY <1>19 DEF GetNext
    <2>2. UNCHANGED phase
      BY <1>0, <1>19 DEF GetNext, phase, ControlInv
    <2> QED
      BY <2>1, <2>2 DEF Abstract!vars
  <1>20. CASE GetNextNotify
    <2>1. UNCHANGED <<materialize_input, insert_count, delivered, stream_ended>>
      BY <1>20 DEF GetNextNotify
    <2>2. UNCHANGED phase
      BY <1>0, <1>20 DEF GetNextNotify, NotifyProducer, phase, ControlInv
    <2> QED
      BY <2>1, <2>2 DEF Abstract!vars
  <1>21. CASE GetNextReturn
    <2>1. UNCHANGED <<materialize_input, insert_count>>
      BY <1>21 DEF GetNextReturn
    <2>2. phase' = phase /\ phase \in {"open", "closed", "aborted"}
      BY <1>0, <1>21 DEF GetNextReturn, phase, ControlInv, ControlTypes
    <2>3. CASE UNCHANGED <<delivered, stream_ended>>
      BY <2>1, <2>2, <2>3 DEF Abstract!vars
    <2>4. CASE /\ delivered' = delivered \o out
               /\ stream_ended' = out_released
               /\ ~seen_canceled
      <3>1. /\ delivered \in Seq(Nat) /\ Len(delivered) \in Nat
            /\ out \in Seq(Nat) /\ Len(out) \in Nat
            /\ insert_count \in Nat
        BY <1>0 DEF DataTypes
      <3>2. ~stream_ended
        BY <1>0, <1>21 DEF GetNextReturn, SealInv
      <3>3. CASE Len(out) = 0
        <4>1. delivered' = delivered
          BY <2>4, <3>1, <3>3
        <4>2. CASE out_released
          <5>1. phase = "closed"
            BY <1>0, <2>4, <4>2 DEF SealInv, phase, ControlInv
          <5>2. Len(delivered) = insert_count
            BY <1>0, <1>21, <3>1, <3>3, <4>2 DEF SealInv, RowCounts, DataTypes,
                                               GetNextReturn
          <5>3. stream_ended' = TRUE
            BY <2>4, <4>2
          <5> QED
            BY <2>1, <2>2, <4>1, <5>1, <5>2, <5>3
               DEF Abstract!Next, Abstract!Seal
        <4>3. CASE ~out_released
          <5>1. stream_ended' = stream_ended
            BY <1>0, <2>4, <3>2, <4>3 DEF FlagTypes
          <5> QED
            BY <2>1, <2>2, <4>1, <5>1 DEF Abstract!vars
        <4> QED
          BY <4>2, <4>3
      <3>4. CASE Len(out) > 0
        <4>1. stream_ended' = stream_ended
          BY <1>0, <2>4, <3>2, <3>4 DEF SealInv, FlagTypes
        <4>2. materialize_input => phase = "closed"
          BY <1>0, <2>4, <3>4 DEF MaterializeInv, phase, ControlInv
        <4>3. /\ Len(delivered') = Len(delivered) + Len(out)
              /\ delivered' \in Seq(Nat)
          BY <2>4, <3>1
        <4>4. Len(delivered') \in (Len(delivered) + 1)..insert_count
          BY <1>0, <1>21, <3>1, <3>4, <4>3 DEF RowCounts, GetNextReturn, DataTypes
        <4>5. DeliveredRows'
          BY <1>0, RowsStep DEF RowsInv
        <4>6. delivered' = [i \in 1..Len(delivered') |-> i]
          BY <4>3, <4>5 DEF DeliveredRows
        <4> QED
          BY <2>1, <2>2, <4>1, <4>2, <4>4, <4>6
             DEF Abstract!Next, Abstract!Deliver
      <3> QED
        BY <3>1, <3>3, <3>4
    <2> QED
      BY <1>0, <1>21, <2>3, <2>4 DEF GetNextReturn, CanceledRead, FlagTypes
  <1>22. CASE StreamRelease
    <2>1. UNCHANGED <<materialize_input, insert_count, delivered, stream_ended>>
      BY <1>22 DEF StreamRelease
    <2>2. UNCHANGED phase
      BY <1>0, <1>22 DEF StreamRelease, phase, ControlInv
    <2> QED
      BY <2>1, <2>2 DEF Abstract!vars
  <1>23. CASE StreamReleaseNotify
    <2>1. UNCHANGED <<materialize_input, insert_count, delivered, stream_ended>>
      BY <1>23 DEF StreamReleaseNotify
    <2>2. UNCHANGED phase
      BY <1>0, <1>23 DEF StreamReleaseNotify, NotifyProducer, phase, ControlInv
    <2> QED
      BY <2>1, <2>2 DEF Abstract!vars
  <1>24. CASE SpuriousWakeup
    <2>1. UNCHANGED <<materialize_input, insert_count, delivered, stream_ended>>
      BY <1>24 DEF SpuriousWakeup
    <2>2. UNCHANGED phase
      BY <1>0, <1>24 DEF SpuriousWakeup, phase, ControlInv
    <2> QED
      BY <2>1, <2>2 DEF Abstract!vars
  <1>25. CASE UNCHANGED vars
    <2>1. UNCHANGED <<materialize_input, insert_count, delivered, stream_ended>>
      BY <1>25 DEF vars
    <2>2. UNCHANGED phase
      BY <1>0, <1>25 DEF vars, phase, ControlInv
    <2> QED
      BY <2>1, <2>2 DEF Abstract!vars
  <1> QED
    BY <1>1, <1>2, <1>3, <1>4, <1>5, <1>6, <1>7, <1>8, <1>9, <1>10, <1>11,
       <1>12, <1>13, <1>14, <1>15, <1>16, <1>17, <1>18, <1>19, <1>20, <1>21,
       <1>22, <1>23, <1>24, <1>25
       DEF Next, ProducerNext, ConsumerNext, Terminated

\* The operator, with its two threads, its buffer and its failures, implements
\* BulkInsert.
THEOREM Refinement == Spec => ImplementsBulkInsert
  <1>1. Init => Abstract!Init
    BY DEF Init, Abstract!Init, phase, FinalizeStates
  <1>2. IndInv /\ [Next]_vars => [Abstract!Next]_(Abstract!vars)
    BY InsertAssumption, BulkInsertStep
  <1> QED
    BY <1>1, <1>2, Inductive, PTL
       DEF Spec, ImplementsBulkInsert, Abstract!Spec

-----------------------------------------------------------------------------
\* Progress.  Liveness itself is left to TLC; what it rests on is proved: no
\* wakeup is lost, somebody can always go on, and nobody goes on for ever.

\* The insert thread ends only after it has set done, and before its start
\* nothing can have filled the buffer.
WakeupInv ==
    /\ NoLostWakeup
    /\ consumer \in {"release_notify", "exited"} => done
    /\ consumer = "none" => ~full

\* The rows accepted, and those of a Sink that waits, are rows of the input.
InputInv ==
    /\ insert_count <= MaxRows
    /\ producer \in {"sink_wait", "sink_ready"} =>
          insert_count + sink_rows <= MaxRows

ProgressInv == IndInv /\ WakeupInv /\ InputInv

\* Every step keeps a sleeping thread within reach of a notification.
LEMMA WakeupStep ==
    ASSUME TypeOK, ControlInv, WakeupInv, [Next]_vars
    PROVE  WakeupInv'
  <1> USE DEF WakeupInv, NoLostWakeup, config, flags, counts, buffer, adbc,
              array, driver, results
  <1>0. FlagTypes /\ ControlTypes
    BY DEF TypeOK
  <1>1. CASE GetGlobalSinkState
    BY <1>1 DEF GetGlobalSinkState
  <1>2. CASE GetConnectionFails
    BY <1>2 DEF GetConnectionFails
  <1>3. CASE CreateTableFails
    BY <1>3 DEF CreateTableFails
  <1>4. ASSUME NEW n \in 1..VectorSize, Sink(n)
        PROVE  WakeupInv'
    <2>1. consumer' # "none" /\ (consumer' \in {"release_notify", "exited"} => consumer' = consumer)
          /\ (consumer' = "next_wait" => consumer = "next_wait")
      BY <1>4 DEF Sink, ControlInv, Accepting
    <2>2. CASE ~ProducerPredicate
      BY <1>4, <2>1, <2>2 DEF Sink, Enqueue, ProducerPredicate
    <2>3. CASE ProducerPredicate
      BY <1>4, <2>1, <2>3 DEF Sink, Enqueue, ProducerPredicate
    <2> QED
      BY <2>2, <2>3
  <1>5. CASE SinkResume
    <2>1. consumer' # "none"
      BY <1>5 DEF SinkResume, ControlInv, Accepting, SinkStates
    <2>2. CASE ~ProducerPredicate
      BY <1>5, <2>1, <2>2 DEF SinkResume, Enqueue, ProducerPredicate
    <2>3. CASE ProducerPredicate
      BY <1>5, <2>1, <2>3 DEF SinkResume, Enqueue, ProducerPredicate
    <2> QED
      BY <2>2, <2>3
  <1>6. CASE SinkNotify
    BY <1>6 DEF SinkNotify, NotifyConsumer
  <1>7. CASE SinkLaunchFails
    BY <1>7 DEF SinkLaunchFails
  <1>8. CASE Finalize
    BY <1>8 DEF Finalize
  <1>9. CASE FinalizeNotify
    BY <1>9 DEF FinalizeNotify, NotifyConsumer
  <1>10. CASE FinalizeCheck
    BY <1>10 DEF FinalizeCheck
  <1>11. CASE GetDataInternal
    BY <1>11 DEF GetDataInternal
  <1>12. CASE Destroy
    BY <1>12 DEF Destroy
  <1>13. CASE DestroyNotify
    BY <1>13 DEF DestroyNotify, NotifyConsumer
  <1>14. CASE DestroyJoin
    BY <1>14 DEF DestroyJoin
  <1>15. CASE AsyncInsert
    BY <1>15 DEF AsyncInsert
  <1>16. CASE DriverPulls
    BY <1>16 DEF DriverPulls
  <1>17. CASE DriverFails
    BY <1>17 DEF DriverFails
  <1>18. CASE DriverCompletes
    BY <1>18 DEF DriverCompletes
  <1>19. CASE GetNext
    BY <1>0, <1>19 DEF GetNext, ReadChunk, BufferDrained, ConsumerPredicate,
       FlagTypes
  <1>20. CASE GetNextNotify
    BY <1>20 DEF GetNextNotify, NotifyProducer
  <1>21. CASE GetNextReturn
    BY <1>21 DEF GetNextReturn
  <1>22. CASE StreamRelease
    BY <1>22 DEF StreamRelease
  <1>23. CASE StreamReleaseNotify
    BY <1>23 DEF StreamReleaseNotify, NotifyProducer
  <1>24. CASE SpuriousWakeup
    BY <1>24 DEF SpuriousWakeup
  <1>25. CASE UNCHANGED vars
    BY <1>25 DEF vars
  <1> QED
    BY <1>1, <1>2, <1>3, <1>4, <1>5, <1>6, <1>7, <1>8, <1>9, <1>10, <1>11,
       <1>12, <1>13, <1>14, <1>15, <1>16, <1>17, <1>18, <1>19, <1>20, <1>21,
       <1>22, <1>23, <1>24, <1>25
       DEF Next, ProducerNext, ConsumerNext, Terminated

\* Only the guard of Sink lets rows in, and a Sink that waits keeps its claim.
LEMMA InputStep ==
    ASSUME InsertAssumption, TypeOK, InputInv, [Next]_vars
    PROVE  InputInv'
  <1> USE DEF InputInv, config, flags, counts, buffer, adbc, array, driver,
              results
  <1>0. insert_count \in Nat /\ sink_rows \in Nat /\ MaxRows \in Nat
    BY DEF TypeOK, DataTypes, InsertAssumption
  <1>1. ASSUME NEW n \in 1..VectorSize, Sink(n)
        PROVE  InputInv'
    <2>1. n \in Nat
      BY DEF InsertAssumption
    <2> QED
      BY <1>0, <1>1, <2>1 DEF Sink, Enqueue
  <1>2. CASE SinkResume
    BY <1>0, <1>2 DEF SinkResume, Enqueue
  <1>3. CASE \/ GetGlobalSinkState \/ GetConnectionFails \/ CreateTableFails
             \/ SinkNotify \/ SinkLaunchFails \/ Finalize \/ FinalizeNotify
             \/ FinalizeCheck \/ GetDataInternal \/ Destroy \/ DestroyNotify
             \/ DestroyJoin
    BY <1>3 DEF GetGlobalSinkState, GetConnectionFails, CreateTableFails,
       SinkNotify, SinkLaunchFails, Finalize, FinalizeNotify, FinalizeCheck,
       GetDataInternal, Destroy, DestroyNotify, DestroyJoin
  <1>4. CASE ConsumerNext \/ SpuriousWakeup
    <2>1. /\ UNCHANGED <<insert_count, sink_rows>>
          /\ producer' \in {"sink_wait", "sink_ready"} =>
                producer \in {"sink_wait", "sink_ready"}
      BY <1>4 DEF ConsumerNext, AsyncInsert, DriverPulls, DriverFails,
         DriverCompletes, GetNext, GetNextNotify, GetNextReturn, StreamRelease,
         StreamReleaseNotify, SpuriousWakeup, NotifyProducer
    <2> QED
      BY <2>1
  <1>5. CASE UNCHANGED vars
    BY <1>5 DEF vars
  <1> QED
    BY <1>1, <1>2, <1>3, <1>4, <1>5 DEF Next, ProducerNext, Terminated

\* ProgressInv is inductive.
THEOREM ProgressInductive == Spec => []ProgressInv
  <1>1. Init => WakeupInv /\ InputInv
    <2>1. MaxRows \in Nat
      BY InsertAssumption DEF InsertAssumption
    <2> QED
      BY <2>1 DEF Init, WakeupInv, NoLostWakeup, InputInv
  <1>2. IndInv /\ WakeupInv /\ InputInv /\ [Next]_vars =>
          WakeupInv' /\ InputInv'
    BY InsertAssumption, WakeupStep, InputStep DEF IndInv
  <1> QED
    BY <1>1, <1>2, Inductive, PTL DEF Spec, ProgressInv

\* No notification is lost between the unlock of insert_mutex and the
\* notify_one that follows it.
THEOREM WakeupsArrive == Spec => []NoLostWakeup
  <1>1. ProgressInv => NoLostWakeup
    BY DEF ProgressInv, WakeupInv
  <1> QED
    BY <1>1, ProgressInductive, PTL

\* Producer and consumer never wait for each other.
THEOREM NoMutualWait == Spec => []NobodyStuck
  <1>1. ASSUME ProgressInv, producer # "destroyed", ~ProducerRuns,
               ~ConsumerRuns
        PROVE  FALSE
    <2>1. ControlInv /\ NoLostWakeup
          /\ (consumer \in {"release_notify", "exited"} => done)
      BY <1>1 DEF ProgressInv, IndInv, WakeupInv
    <2>2. consumer \in {"none", "next_wait", "exited"}
      BY <1>1 DEF ConsumerRuns
    <2>3. CASE producer = "sink_wait"
      BY <2>1, <2>2, <2>3 DEF ControlInv, NoLostWakeup, Accepting, SinkStates
    <2>4. CASE producer \in {"finalize_join", "destroy_join"} /\ ~Joined
      BY <2>1, <2>2, <2>4 DEF ControlInv, NoLostWakeup, FinalizeStates, Joined
    <2> QED
      BY <1>1, <2>3, <2>4 DEF ProducerRuns
  <1>2. ProgressInv => NobodyStuck
    BY <1>1 DEF NobodyStuck
  <1> QED
    BY <1>2, ProgressInductive, PTL

\* The parts of StepsLeft.
RowsToCome == MaxRows - insert_count
RowsToScan == Len(collection) - scan_row
ToEmpty == One(full)
ToEnd == One(EndUntold)
ToReport == One(reported = -1)
ConsumerLeft == ConsumerSteps[consumer]
ProducerLeft == ProducerSteps[producer]
StepsAdded ==
    /\ RowsToCome \in Nat
    /\ RowsToScan \in Nat
    /\ ToEmpty \in Nat /\ ToEnd \in Nat /\ ToReport \in Nat
    /\ ConsumerLeft \in Nat
    /\ ProducerLeft \in Nat
    /\ StepsLeft = 21 * RowsToCome + 5 * (RowsToScan + ToEmpty + ToEnd)
                     + ConsumerLeft + ProducerLeft + ToReport

\* In a state of ProgressInv nothing StepsLeft adds up is negative.
LEMMA PartsOfStepsLeft == ProgressInv => StepsAdded
  <1> SUFFICES ASSUME ProgressInv PROVE StepsAdded
    OBVIOUS
  <1>1. TypeOK /\ scan_row <= Len(collection) /\ insert_count <= MaxRows
    BY DEF ProgressInv, IndInv, RowsInv, RowCounts, InputInv
  <1>2. RowsToCome \in Nat
    BY <1>1, InsertAssumption
       DEF TypeOK, DataTypes, InsertAssumption, RowsToCome
  <1>3. RowsToScan \in Nat
    BY <1>1 DEF TypeOK, DataTypes, RowsToScan
  <1>4. ToEmpty \in Nat /\ ToEnd \in Nat /\ ToReport \in Nat
    BY DEF One, ToEmpty, ToEnd, ToReport
  <1>5. ConsumerLeft \in Nat
    BY <1>1 DEF TypeOK, ControlTypes, ConsumerStates, PullingStates,
       GetNextStates, ConsumerSteps, ConsumerLeft
  <1>6. ProducerLeft \in Nat
    BY <1>1 DEF TypeOK, ControlTypes, ProducerStates, SinkStates,
       FinalizeStates, DestructorStates, ProducerSteps, ProducerLeft
  <1>7. StepsLeft = 21 * RowsToCome + 5 * (RowsToScan + ToEmpty + ToEnd)
                     + ConsumerLeft + ProducerLeft + ToReport
    BY DEF StepsLeft, RowsToCome, RowsToScan, ToEmpty, ToEnd, ConsumerLeft,
       ProducerLeft, ToReport
  <1> QED
    BY <1>2, <1>3, <1>4, <1>5, <1>6, <1>7 DEF StepsAdded

\* The same of the state after a step.
LEMMA PartsOfStepsLeftPrimed == ProgressInv' => StepsAdded'
  BY PartsOfStepsLeft, PTL

\* Where the two threads are, as numbers.
LEMMA PlacesOfThreads ==
    /\ ProducerSteps["start"] = 13 /\ ProducerSteps["running"] = 12
    /\ ProducerSteps["sink_wait"] = 10 /\ ProducerSteps["sink_ready"] = 11
    /\ ProducerSteps["sink_notify"] = 14
    /\ ProducerSteps["finalize_notify"] = 8
    /\ ProducerSteps["finalize_join"] = 6 /\ ProducerSteps["finalized"] = 5
    /\ ProducerSteps["unwinding"] = 4 /\ ProducerSteps["destroy_notify"] = 3
    /\ ProducerSteps["destroy_join"] = 1 /\ ProducerSteps["destroyed"] = 0
    /\ ConsumerSteps["none"] = 0 /\ ConsumerSteps["setup"] = 7
    /\ ConsumerSteps["driver"] = 6 /\ ConsumerSteps["next_ready"] = 5
    /\ ConsumerSteps["next_wait"] = 4 /\ ConsumerSteps["next_notify"] = 9
    /\ ConsumerSteps["next_return"] = 7 /\ ConsumerSteps["release"] = 3
    /\ ConsumerSteps["release_notify"] = 2 /\ ConsumerSteps["exited"] = 0
  BY DEF ProducerSteps, ConsumerSteps

\* A step that leaves the buffer alone and moves a thread nearer to its end
\* lowers StepsLeft.
LEMMA ThreadsMoveOn ==
    ASSUME ProgressInv, ProgressInv',
           UNCHANGED <<insert_count, collection, scan_row, full>>,
           EndUntold' => EndUntold,
           ConsumerLeft' + ProducerLeft' + ToReport'
             < ConsumerLeft + ProducerLeft + ToReport
    PROVE  StepsLeft' < StepsLeft
  <1>1. /\ RowsToCome' = RowsToCome
        /\ RowsToScan' = RowsToScan
        /\ ToEmpty' = ToEmpty
    BY DEF RowsToCome, RowsToScan, ToEmpty, One
  <1>2. ToEnd' <= ToEnd
    BY DEF ToEnd, One
  <1> QED
    BY <1>1, <1>2, PartsOfStepsLeft, PartsOfStepsLeftPrimed DEF StepsAdded

\* The rows a Sink appends no longer are to come and wait to be scanned.
LEMMA AppendMovesRows ==
    ASSUME ProgressInv, NEW n \in Nat,
           insert_count' = insert_count + n,
           collection' = collection \o Rows(n),
           scan_row' = scan_row
    PROVE  RowsToCome' = RowsToCome - n /\ RowsToScan' = RowsToScan + n
  <1>1. /\ insert_count \in Nat /\ collection \in Seq(Nat) /\ scan_row \in Nat
        /\ MaxRows \in Nat
    BY InsertAssumption
       DEF ProgressInv, IndInv, TypeOK, DataTypes, InsertAssumption
  <1>2. RowsToCome' = RowsToCome - n
    BY <1>1 DEF RowsToCome
  <1>3. Rows(n) \in Seq(Nat) /\ Len(Rows(n)) = n
    BY <1>1, RowsOfSink
  <1>4. Len(collection') = Len(collection) + n
    BY <1>1, <1>3, LengthOfConcat
  <1> QED
    BY <1>1, <1>2, <1>4 DEF RowsToScan

\* A Sink that appends pays for its chunk: a row that no longer is to come
\* counts more than the same row to be scanned, a buffer to be emptied and an
\* insert thread just launched.
LEMMA AppendedRowsCount ==
    ASSUME ProgressInv, ProgressInv', NEW n \in Nat, n >= 1,
           RowsToCome' = RowsToCome - n,
           RowsToScan' = RowsToScan + n,
           reported' = reported,
           EndUntold' => EndUntold,
           ConsumerLeft' + ProducerLeft' <= ConsumerLeft + ProducerLeft + 9
    PROVE  StepsLeft' < StepsLeft
  <1>1. ToEmpty' <= ToEmpty + 1 /\ ToReport' = ToReport /\ ToEnd' <= ToEnd
    BY DEF ToEmpty, ToReport, ToEnd, One
  <1> QED
    BY <1>1, PartsOfStepsLeft, PartsOfStepsLeftPrimed DEF StepsAdded

\* get_next never takes back what it has handed on.
LEMMA GetNextMovesOn ==
    ASSUME ProgressInv, ProgressInv', GetNext
    PROVE  StepsLeft' < StepsLeft
  <1> USE DEF config, flags, counts, buffer, adbc, array, driver, results
  <1>0. /\ TypeOK /\ SealInv /\ scan_row <= Len(collection)
        /\ collection \in Seq(Nat) /\ scan_row \in Nat
    BY DEF ProgressInv, IndInv, RowsInv, RowCounts, TypeOK, DataTypes
  <1>1. EndUntold
    BY <1>0 DEF GetNext, SealInv, EndUntold, PullingStates, GetNextStates
  <1>2. CASE ~ConsumerPredicate
    <2>1. UNCHANGED <<insert_count, collection, scan_row, full, producer, reported>>
      BY <1>2 DEF GetNext
    <2>2. ConsumerLeft = 5 /\ ConsumerLeft' = 4
      BY <1>2, PlacesOfThreads DEF GetNext, ConsumerLeft
    <2>3. ProducerLeft' = ProducerLeft /\ ToReport' = ToReport
      BY <2>1 DEF ProducerLeft, ToReport, One
    <2>4. ConsumerLeft' + ProducerLeft' + ToReport'
             < ConsumerLeft + ProducerLeft + ToReport
      BY <2>2, <2>3, PartsOfStepsLeft DEF StepsAdded
    <2> QED
      BY <1>1, <2>1, <2>4, ThreadsMoveOn
  <1>3. CASE ConsumerPredicate
    <2>1. /\ ConsumerLeft = 5 /\ ConsumerLeft' = 9
          /\ ProducerLeft' = ProducerLeft /\ ToReport' = ToReport
          /\ RowsToCome' = RowsToCome
      BY <1>3, PlacesOfThreads
         DEF GetNext, ConsumerLeft, ProducerLeft, ToReport, RowsToCome, One
    <2>2. CASE ReadChunk
      <3>1. RowsToScan' <= RowsToScan - 1
        BY <1>0, <2>2, InsertAssumption, ScanYieldsNextRows
           DEF ReadChunk, RowsToScan
      <3>2. ToEmpty' = ToEmpty /\ ToEnd' <= ToEnd
        BY <1>1, <2>2 DEF ReadChunk, ToEmpty, ToEnd, One
      <3> QED
        BY <2>1, <3>1, <3>2, PartsOfStepsLeft, PartsOfStepsLeftPrimed
           DEF StepsAdded
    <2>3. CASE BufferDrained
      <3>1. RowsToScan = 0 /\ RowsToScan' = 0
        BY <1>0, <2>3 DEF BufferDrained, RowsToScan
      <3>2. ToEmpty' + ToEnd' < ToEmpty + ToEnd
        BY <1>0, <1>1, <1>3, <2>3
           DEF BufferDrained, ConsumerPredicate, EndUntold, ToEmpty, ToEnd, One,
               TypeOK, FlagTypes
      <3> QED
        BY <2>1, <3>1, <3>2, PartsOfStepsLeft, PartsOfStepsLeftPrimed
           DEF StepsAdded
    <2> QED
      BY <1>3, <2>2, <2>3 DEF GetNext
  <1> QED
    BY <1>2, <1>3

\* Every step but a spurious wakeup lowers StepsLeft.
LEMMA StepsLeftFalls ==
    ASSUME ProgressInv, ProgressInv', Next, ~SpuriousWakeup, ~Terminated
    PROVE  StepsLeft' < StepsLeft
  <1> USE DEF config, flags, counts, buffer, adbc, array, driver, results
  <1> DEFINE Quiet == UNCHANGED <<insert_count, collection, scan_row, full>>
             Nearer == ConsumerLeft' + ProducerLeft' + ToReport'
                         < ConsumerLeft + ProducerLeft + ToReport
  <1>0. /\ ConsumerLeft \in Nat /\ ProducerLeft \in Nat /\ ToReport \in Nat
        /\ TypeOK /\ ControlInv /\ SealInv /\ WakeupInv
        /\ producer \in {"sink_wait", "sink_ready"} => sink_rows \in 1..VectorSize
        /\ VectorSize \in Nat
    BY PartsOfStepsLeft, InsertAssumption
       DEF StepsAdded, ProgressInv, IndInv, BufferInv, InsertAssumption
  <1>a. ASSUME Quiet, Nearer, EndUntold' => EndUntold
        PROVE  StepsLeft' < StepsLeft
    BY <1>a, ThreadsMoveOn
  <1>1. CASE GetGlobalSinkState
    <2>1. Quiet /\ (EndUntold' => EndUntold)
      BY <1>0, <1>1 DEF GetGlobalSinkState, EndUntold, PullingStates, GetNextStates, SealInv
    <2>2. Nearer
      BY <1>0, <1>1, PlacesOfThreads
         DEF GetGlobalSinkState, ConsumerLeft, ProducerLeft, ToReport, One
    <2> QED
      BY <1>a, <2>1, <2>2
  <1>2. CASE GetConnectionFails
    <2>1. Quiet /\ (EndUntold' => EndUntold)
      BY <1>0, <1>2 DEF GetConnectionFails, EndUntold, PullingStates, GetNextStates, SealInv
    <2>2. Nearer
      BY <1>0, <1>2, PlacesOfThreads
         DEF GetConnectionFails, ConsumerLeft, ProducerLeft, ToReport, One
    <2> QED
      BY <1>a, <2>1, <2>2
  <1>3. CASE CreateTableFails
    <2>1. Quiet /\ (EndUntold' => EndUntold)
      BY <1>0, <1>3 DEF CreateTableFails, EndUntold, PullingStates, GetNextStates, SealInv
    <2>2. Nearer
      BY <1>0, <1>3, PlacesOfThreads
         DEF CreateTableFails, ConsumerLeft, ProducerLeft, ToReport, One
    <2> QED
      BY <1>a, <2>1, <2>2
  <1>4. CASE SinkNotify
    <2>1. Quiet /\ (EndUntold' => EndUntold)
      BY <1>0, <1>4 DEF SinkNotify, NotifyConsumer, EndUntold, PullingStates, GetNextStates, SealInv
    <2>2. Nearer
      BY <1>0, <1>4, PlacesOfThreads
         DEF SinkNotify, NotifyConsumer, ConsumerLeft, ProducerLeft, ToReport, One
    <2> QED
      BY <1>a, <2>1, <2>2
  <1>5. CASE SinkLaunchFails
    <2>1. Quiet /\ (EndUntold' => EndUntold)
      BY <1>0, <1>5 DEF SinkLaunchFails, EndUntold, PullingStates, GetNextStates, SealInv
    <2>2. Nearer
      BY <1>0, <1>5, PlacesOfThreads
         DEF SinkLaunchFails, ConsumerLeft, ProducerLeft, ToReport, One
    <2> QED
      BY <1>a, <2>1, <2>2
  <1>6. CASE Finalize
    <2>1. Quiet /\ (EndUntold' => EndUntold)
      BY <1>0, <1>6 DEF Finalize, EndUntold, PullingStates, GetNextStates, SealInv
    <2>2. Nearer
      BY <1>0, <1>6, PlacesOfThreads
         DEF Finalize, ConsumerLeft, ProducerLeft, ToReport, One
    <2> QED
      BY <1>a, <2>1, <2>2
  <1>7. CASE FinalizeNotify
    <2>1. Quiet /\ (EndUntold' => EndUntold)
      BY <1>0, <1>7 DEF FinalizeNotify, NotifyConsumer, EndUntold, PullingStates, GetNextStates, SealInv
    <2>2. Nearer
      BY <1>0, <1>7, PlacesOfThreads
         DEF FinalizeNotify, NotifyConsumer, ConsumerLeft, ProducerLeft, ToReport, One
    <2> QED
      BY <1>a, <2>1, <2>2
  <1>8. CASE FinalizeCheck
    <2>1. Quiet /\ (EndUntold' => EndUntold)
      BY <1>0, <1>8 DEF FinalizeCheck, EndUntold, PullingStates, GetNextStates, SealInv
    <2>2. Nearer
      BY <1>0, <1>8, PlacesOfThreads
         DEF FinalizeCheck, ConsumerLeft, ProducerLeft, ToReport, One
    <2> QED
      BY <1>a, <2>1, <2>2
  <1>9. CASE GetDataInternal
    <2>1. Quiet /\ (EndUntold' => EndUntold)
      BY <1>0, <1>9 DEF GetDataInternal, EndUntold, PullingStates, GetNextStates, SealInv
    <2>2. reported = -1 /\ reported' # -1
      BY <1>0, <1>9 DEF GetDataInternal, TypeOK, DataTypes
    <2>3. /\ ToReport = 1 /\ ToReport' = 0
          /\ ConsumerLeft' = ConsumerLeft /\ ProducerLeft' = ProducerLeft
      BY <1>9, <2>2 DEF GetDataInternal, ConsumerLeft, ProducerLeft, ToReport, One
    <2>4. Nearer
      BY <1>0, <2>3
    <2> QED
      BY <1>a, <2>1, <2>4
  <1>10. CASE Destroy
    <2>1. Quiet /\ (EndUntold' => EndUntold)
      BY <1>0, <1>10 DEF Destroy, EndUntold, PullingStates, GetNextStates, SealInv
    <2>2. Nearer
      BY <1>0, <1>10, PlacesOfThreads
         DEF Destroy, ConsumerLeft, ProducerLeft, ToReport, One
    <2> QED
      BY <1>a, <2>1, <2>2
  <1>11. CASE DestroyNotify
    <2>1. Quiet /\ (EndUntold' => EndUntold)
      BY <1>0, <1>11 DEF DestroyNotify, NotifyConsumer, EndUntold, PullingStates, GetNextStates, SealInv
    <2>2. Nearer
      BY <1>0, <1>11, PlacesOfThreads
         DEF DestroyNotify, NotifyConsumer, ConsumerLeft, ProducerLeft, ToReport, One
    <2> QED
      BY <1>a, <2>1, <2>2
  <1>12. CASE DestroyJoin
    <2>1. Quiet /\ (EndUntold' => EndUntold)
      BY <1>0, <1>12 DEF DestroyJoin, EndUntold, PullingStates, GetNextStates, SealInv
    <2>2. Nearer
      BY <1>0, <1>12, PlacesOfThreads
         DEF DestroyJoin, ConsumerLeft, ProducerLeft, ToReport, One
    <2> QED
      BY <1>a, <2>1, <2>2
  <1>13. CASE AsyncInsert
    <2>1. Quiet /\ (EndUntold' => EndUntold)
      BY <1>0, <1>13 DEF AsyncInsert, EndUntold, PullingStates, GetNextStates, SealInv
    <2>2. Nearer
      BY <1>0, <1>13, PlacesOfThreads
         DEF AsyncInsert, ConsumerLeft, ProducerLeft, ToReport, One
    <2> QED
      BY <1>a, <2>1, <2>2
  <1>14. CASE DriverPulls
    <2>1. Quiet /\ (EndUntold' => EndUntold)
      BY <1>0, <1>14 DEF DriverPulls, EndUntold, PullingStates, GetNextStates, SealInv
    <2>2. Nearer
      BY <1>0, <1>14, PlacesOfThreads
         DEF DriverPulls, ConsumerLeft, ProducerLeft, ToReport, One
    <2> QED
      BY <1>a, <2>1, <2>2
  <1>15. CASE DriverFails
    <2>1. Quiet /\ (EndUntold' => EndUntold)
      BY <1>0, <1>15 DEF DriverFails, EndUntold, PullingStates, GetNextStates, SealInv
    <2>2. Nearer
      BY <1>0, <1>15, PlacesOfThreads
         DEF DriverFails, ConsumerLeft, ProducerLeft, ToReport, One
    <2> QED
      BY <1>a, <2>1, <2>2
  <1>16. CASE DriverCompletes
    <2>1. Quiet /\ (EndUntold' => EndUntold)
      BY <1>0, <1>16 DEF DriverCompletes, EndUntold, PullingStates, GetNextStates, SealInv
    <2>2. Nearer
      BY <1>0, <1>16, PlacesOfThreads
         DEF DriverCompletes, ConsumerLeft, ProducerLeft, ToReport, One
    <2> QED
      BY <1>a, <2>1, <2>2
  <1>17. CASE GetNextNotify
    <2>1. Quiet /\ (EndUntold' => EndUntold)
      BY <1>0, <1>17 DEF GetNextNotify, NotifyProducer, EndUntold, PullingStates, GetNextStates, SealInv
    <2>2. Nearer
      BY <1>0, <1>17, PlacesOfThreads
         DEF GetNextNotify, NotifyProducer, ConsumerLeft, ProducerLeft, ToReport, One
    <2> QED
      BY <1>a, <2>1, <2>2
  <1>18. CASE GetNextReturn
    <2>1. /\ Quiet /\ UNCHANGED <<producer, reported>>
          /\ consumer = "next_return" /\ consumer' \in {"release", "driver"}
          /\ consumer' = "driver" => stream_ended' = out_released
      BY <1>18 DEF GetNextReturn
    <2>2. EndUntold' => EndUntold
      BY <1>0, <2>1 DEF EndUntold, PullingStates, GetNextStates, SealInv
    <2>3. ASSUME consumer' = "release" PROVE Nearer
      <3>1. /\ ConsumerLeft = 7 /\ ConsumerLeft' = 3
            /\ ProducerLeft' = ProducerLeft /\ ToReport' = ToReport
        BY <2>1, <2>3, PlacesOfThreads
           DEF ConsumerLeft, ProducerLeft, ToReport, One
      <3> QED
        BY <1>0, <3>1
    <2>4. ASSUME consumer' = "driver" PROVE Nearer
      <3>1. /\ ConsumerLeft = 7 /\ ConsumerLeft' = 6
            /\ ProducerLeft' = ProducerLeft /\ ToReport' = ToReport
        BY <2>1, <2>4, PlacesOfThreads
           DEF ConsumerLeft, ProducerLeft, ToReport, One
      <3> QED
        BY <1>0, <3>1
    <2> QED
      BY <1>a, <2>1, <2>2, <2>3, <2>4
  <1>19. CASE StreamRelease
    <2>1. Quiet /\ (EndUntold' => EndUntold)
      BY <1>0, <1>19 DEF StreamRelease, EndUntold, PullingStates, GetNextStates, SealInv
    <2>2. Nearer
      BY <1>0, <1>19, PlacesOfThreads
         DEF StreamRelease, ConsumerLeft, ProducerLeft, ToReport, One
    <2> QED
      BY <1>a, <2>1, <2>2
  <1>20. CASE StreamReleaseNotify
    <2>1. Quiet /\ (EndUntold' => EndUntold)
      BY <1>0, <1>20 DEF StreamReleaseNotify, NotifyProducer, EndUntold, PullingStates, GetNextStates, SealInv
    <2>2. Nearer
      BY <1>0, <1>20, PlacesOfThreads
         DEF StreamReleaseNotify, NotifyProducer, ConsumerLeft, ProducerLeft, ToReport, One
    <2> QED
      BY <1>a, <2>1, <2>2
  <1>21. ASSUME NEW n \in 1..VectorSize, Sink(n)
        PROVE  StepsLeft' < StepsLeft
    <2>1. /\ n \in Nat /\ n >= 1 /\ producer = "running" /\ ~canceled
          /\ UNCHANGED <<scan_row, reported, out_released, stream_ended>>
          /\ consumer' = IF first_insert THEN "setup" ELSE consumer
          /\ Enqueue(n, first_insert)
          /\ first_insert => consumer = "none" /\ ~full
      BY <1>0, <1>21
         DEF Sink, ControlInv, WakeupInv, Accepting, DestructorStates
    <2>2. EndUntold' => EndUntold
      BY <2>1 DEF EndUntold, PullingStates
    <2>3. CASE ~ProducerPredicate
      <3>1. Quiet /\ producer' = "sink_wait" /\ consumer' = consumer
        BY <2>1, <2>3 DEF Enqueue, ProducerPredicate
      <3>2. Nearer
        BY <1>0, <2>1, <3>1, PlacesOfThreads
           DEF ConsumerLeft, ProducerLeft, ToReport, One
      <3> QED
        BY <1>a, <2>2, <3>1, <3>2
    <2>4. CASE ProducerPredicate
      <3>1. /\ collection' = collection \o Rows(n)
            /\ insert_count' = insert_count + n
        BY <2>1, <2>4 DEF Enqueue
      <3>2. RowsToCome' = RowsToCome - n /\ RowsToScan' = RowsToScan + n
        BY <2>1, <3>1, AppendMovesRows
      <3>3. ConsumerLeft' + ProducerLeft' <= ConsumerLeft + ProducerLeft + 9
        <4>1. producer' = "sink_notify"
          BY <2>1, <2>4 DEF Enqueue
        <4>2. ConsumerLeft' = ConsumerLeft \/ (ConsumerLeft = 0 /\ ConsumerLeft' = 7)
          BY <2>1, PlacesOfThreads DEF ConsumerLeft
        <4>3. ProducerLeft' = 14 /\ ProducerLeft = 12
          BY <2>1, <4>1, PlacesOfThreads DEF ProducerLeft
        <4> QED
          BY <1>0, <4>2, <4>3
      <3> QED
        BY <2>1, <2>2, <3>2, <3>3, AppendedRowsCount
    <2> QED
      BY <2>3, <2>4
  <1>22. CASE SinkResume
    <2>1. /\ sink_rows \in Nat /\ sink_rows >= 1 /\ producer = "sink_ready"
          /\ ~canceled
          /\ UNCHANGED <<scan_row, reported, out_released, stream_ended, consumer>>
          /\ Enqueue(sink_rows, FALSE)
      <3>1. producer = "sink_ready" /\ sink_rows \in 1..VectorSize
        BY <1>0, <1>22 DEF SinkResume
      <3>2. sink_rows \in Nat /\ sink_rows >= 1
        BY <1>0, <3>1
      <3> QED
        BY <1>0, <1>22, <3>1, <3>2 DEF SinkResume, ControlInv, DestructorStates
    <2>2. EndUntold' => EndUntold
      BY <2>1 DEF EndUntold
    <2>3. CASE ~ProducerPredicate
      <3>1. Quiet /\ producer' = "sink_wait"
        BY <2>1, <2>3 DEF Enqueue, ProducerPredicate
      <3>2. Nearer
        BY <1>0, <2>1, <3>1, PlacesOfThreads
           DEF ConsumerLeft, ProducerLeft, ToReport, One
      <3> QED
        BY <1>a, <2>2, <3>1, <3>2
    <2>4. CASE ProducerPredicate
      <3>1. /\ collection' = collection \o Rows(sink_rows)
            /\ insert_count' = insert_count + sink_rows
        BY <2>1, <2>4 DEF Enqueue
      <3>2. /\ RowsToCome' = RowsToCome - sink_rows
            /\ RowsToScan' = RowsToScan + sink_rows
        BY <2>1, <3>1, AppendMovesRows
      <3>3. ConsumerLeft' + ProducerLeft' <= ConsumerLeft + ProducerLeft + 9
        <4>1. producer' = "sink_notify"
          BY <2>1, <2>4 DEF Enqueue
        <4>2. ConsumerLeft' = ConsumerLeft
          BY <2>1 DEF ConsumerLeft
        <4>3. ProducerLeft' = 14 /\ ProducerLeft = 11
          BY <2>1, <4>1, PlacesOfThreads DEF ProducerLeft
        <4> QED
          BY <1>0, <4>2, <4>3
      <3> QED
        BY <2>1, <2>2, <3>2, <3>3, AppendedRowsCount
    <2> QED
      BY <2>3, <2>4
  <1>23. CASE GetNext
    BY <1>23, GetNextMovesOn
  <1> QED
    BY <1>1, <1>2, <1>3, <1>4, <1>5, <1>6, <1>7, <1>8, <1>9, <1>10, <1>11, <1>12, <1>13, <1>14, <1>15, <1>16, <1>17, <1>18, <1>19, <1>20, <1>21, <1>22, <1>23
       DEF Next, ProducerNext, ConsumerNext

\* A statement takes at most as many steps as StepsLeft says, apart from
\* spurious wakeups: get_next never spins and no thread is woken in vain.
THEOREM StepsBounded == Spec => StepsRunOut
  <1>1. ASSUME ProgressInv, ProgressInv', [Next]_vars
        PROVE  [~SpuriousWakeup => StepsLeft' \in Nat /\ StepsLeft' < StepsLeft]_vars
    <2>1. StepsLeft' \in Nat
      BY <1>1, PartsOfStepsLeftPrimed DEF StepsAdded
    <2>2. CASE Next /\ ~SpuriousWakeup /\ ~Terminated
      BY <1>1, <2>1, <2>2, StepsLeftFalls
    <2> QED
      BY <1>1, <2>2 DEF Terminated
  <1> QED
    BY <1>1, ProgressInductive, PTL DEF Spec, StepsRunOut
=============================================================================
