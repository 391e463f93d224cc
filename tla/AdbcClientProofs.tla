-------------------------- MODULE AdbcClientProofs --------------------------
(***************************************************************************)
(* Proofs about AdbcClient for any number of operations, executions,       *)
(* statements and streams and for any driver: the extension keeps the      *)
(* contract of adbc.h, and what follows from it and from the order of its  *)
(* calls.                                                                  *)
(***************************************************************************)
EXTENDS AdbcClient, DriverManagerProofs

\* The calls of an operation, by what it holds when it makes them.
Constructing == {"DatabaseNew", "SetUri", "SetLoadFlags", "DatabaseInit",
                 "ConnectionNew", "ConnectionInit"}
BeforeStatement == {"GetStatistics", "ReadStatistics", "IngestNew", "GetAutocommit",
                    "GetCatalog", "GetCatalogAgain", "GetObjects", "ReadObjects"}
Making == {"StatementNew", "SetSqlQuery", "DropStatement", "Assign"}
WithStatement == {"ExecuteSchema", "SchemaQuery", "ReadSchema", "bound",
                  "ProduceStream", "scanning", "AdbcExecute", "IngestMode",
                  "IngestSchema", "IngestTable", "BindStream", "IngestRows"}
Connected == BeforeStatement \union Making \union WithStatement \union {"unwind", "idle"}
Reading == {"ReadStatistics", "ReadObjects", "ReadSchema", "scanning"}

ClientTypeOK ==
  /\ pc \in Constructing \union Connected \union {"close", "closed"}
  /\ op \in Operation
  /\ made \in Statements \union {"none"} /\ statement \in Statements \union {"none"}
  /\ text \in [Statements -> Queries \union {"none"}]

\* How far the connection is constructed.
ConnectionInv ==
  /\ pc \in {"closed", "DatabaseNew"} => db.data = "null"
  /\ pc \in {"SetUri", "SetLoadFlags", "DatabaseInit"} => db.data = "temp"
  /\ pc \in {"ConnectionNew", "ConnectionInit"} => db.driver
  /\ pc \in {"closed", "DatabaseNew", "SetUri", "SetLoadFlags", "DatabaseInit",
             "ConnectionNew"} => Unmade(conn)
  /\ pc = "ConnectionInit" => conn.data = "temp"
  /\ pc \in Connected => conn.driver

\* A statement that the driver has made and that was not released.
Live(s) == stmt[s].data = "driver" /\ stmt[s].driver

\* Which statements there are: the one the operation has kept, and the one it
\* is making.  Neither was released before.
StatementInv ==
  /\ made # "none" <=> pc \in {"SetSqlQuery", "DropStatement", "Assign"}
  /\ made # "none" => made # statement
  /\ made # "none" => ~Refused(stmt[made])
  /\ statement # "none" => ~Refused(stmt[statement])
  /\ pc \in {"SetSqlQuery", "Assign"} => Live(made)
  /\ pc \in WithStatement => statement # "none"
  /\ pc \in WithStatement \union Making /\ statement # "none"
       => Live(statement)
  /\ pc \in Constructing \union BeforeStatement \union {"idle", "close", "closed"}
       => statement = "none"
  /\ \A s \in Statements : Live(s) => s \in {statement, made}

\* Which streams are open: at most one, where the operation reads it.
StreamInv ==
  /\ pc \notin Reading => \A x \in Streams : ~IsOpen(x)
  /\ \A x, y \in Streams : IsOpen(x) /\ IsOpen(y) => x = y
  /\ pc \in {"ReadStatistics", "ReadObjects"} =>
       \A x \in Streams : IsOpen(x) => stream[x].from = "connection"
  /\ pc \in {"ReadSchema", "scanning"} =>
       \A x \in Streams : IsOpen(x) => stream[x].from = statement /\ stream[x].valid
  /\ pc = "scanning" => \E x \in Streams : IsOpen(x)

\* What the operation does next when its statement is made.
OperationInv ==
  /\ pc \in Constructing => op.kind \in OperationKinds
  /\ pc = "IngestNew" => op.kind = "ingest"
  /\ pc \in Constructing \union BeforeStatement => op.then # "ProduceStream"
  /\ op.then = "ProduceStream" => op.kind = "table_scan"
  /\ op.then = "ProduceStream" /\ pc \in Making => statement # "none"
  /\ pc \in {"ProduceStream", "scanning"} => op.kind \in {"read_adbc", "table_scan"}

\* The query of the statement that is kept.
TextInv ==
  /\ op.kind # "table_scan" => op.query_text = "all"
  /\ op.then = "ProduceStream" => op.query_text = op.columns
  /\ pc = "Assign" => text[made] = op.query_text
  /\ op.kind = "read_adbc" /\ statement # "none" => text[statement] = "all"
  /\ op.kind = "table_scan" /\ pc \in {"ProduceStream", "scanning"}
       => text[statement] = op.columns

\* The command was run exactly when adbc_execute() has noted it.
EffectsInv == op.effects = IF op.finished THEN 1 ELSE 0

ClientInv ==
  /\ ClientTypeOK
  /\ ConnectionInv
  /\ StatementInv
  /\ StreamInv
  /\ OperationInv
  /\ TextInv
  /\ EffectsInv
  /\ TransactionMeansAutocommit

USE DEF Constructing, BeforeStatement, Making, WithStatement, Connected, Reading, Goto,
        Check, Refused, Unmade, Live

----------------------------------------------------------------------------
(***************************************************************************)
(* What the calls of the extension change, as far as ClientInv tells.      *)
(***************************************************************************)
LEMMA CallEffect ==
  ASSUME NEW s, NEW f, NEW o, StatementCall(s, f) \/ ConnectionGetOption(o)
  PROVE  UNCHANGED <<db, conn, stmt, stream>>
  BY DEF StatementCall, ConnectionGetOption, Answer

\* A statement is made exactly when AdbcStatementNew says so.
LEMMA NewEffect ==
  ASSUME IndInv, conn.driver, NEW s \in Statements, StatementNew(s)
  PROVE  /\ UNCHANGED <<db, conn, stream>>
         /\ stmt'[s].data = IF ret'.status = "OK" THEN "driver" ELSE "null"
         /\ stmt'[s].driver
         /\ \A t \in Statements \ {s} : stmt'[t] = stmt[t]
  <1>1. stmt[s] \in [data : {"null", "driver"}, driver : BOOLEAN] /\ DOMAIN stmt = Statements
    BY DEF IndInv, TypeOK
  <1>2. UNCHANGED <<db, conn, stream>>
    BY DEF StatementNew
  <1>3. CASE ret'.status = "OK"
    <2>1. stmt' = [stmt EXCEPT ![s] = [data |-> "driver", driver |-> TRUE]]
      BY <1>3 DEF StatementNew
    <2> QED
      BY <1>1, <1>2, <1>3, <2>1
  <1>4. CASE ret'.status # "OK"
    <2>1. stmt' = [stmt EXCEPT ![s] = [data |-> "null", driver |-> TRUE]]
      BY <1>4 DEF StatementNew
    <2>2. stmt'[s].data = "null" /\ stmt'[s].driver
      BY <1>1, <2>1
    <2>3. \A t \in Statements \ {s} : stmt'[t] = stmt[t]
      BY <1>1, <2>1
    <2> QED
      BY <1>2, <1>4, <2>2, <2>3
  <1> QED
    BY <1>3, <1>4

\* AdbcStatementRelease ends one statement.
LEMMA ReleaseEffect ==
  ASSUME IndInv, NEW s \in Statements, Live(s), StatementRelease(s)
  PROVE  /\ UNCHANGED <<db, conn>>
         /\ Unmade(stmt'[s])
         /\ \A t \in Statements \ {s} : stmt'[t] = stmt[t]
         /\ \A x \in Streams : stream'[x].from = stream[x].from
  <1>2. /\ \E data \in {"null", "driver"} :
             stmt' = [stmt EXCEPT ![s] = [data |-> data, driver |-> FALSE]]
        /\ stream' = Invalidated(s)
        /\ UNCHANGED <<db, conn>>
    BY DEF StatementRelease
  <1>3. \A x \in Streams : stream'[x].from = stream[x].from
    BY <1>2, InvalidatedTyped DEF IndInv
  <1> QED
    BY <1>2, <1>3 DEF IndInv, TypeOK

\* AdbcStatementExecuteQuery without a stream opens none.
LEMMA UpdateEffect ==
  ASSUME IndInv, NEW s \in Statements, Live(s), StatementUpdate(s)
  PROVE  /\ UNCHANGED <<db, conn, stmt>>
         /\ \A x \in Streams : stream'[x].from = stream[x].from
  <1>1. stmt[s].driver
    OBVIOUS
  <1>2. stream' = Invalidated(s) /\ UNCHANGED <<db, conn, stmt>>
    BY <1>1 DEF StatementUpdate
  <1> QED
    BY <1>2, InvalidatedTyped DEF IndInv

\* An execution opens its stream exactly when it succeeds.
LEMMA ExecuteEffect ==
  ASSUME IndInv, NEW s \in Statements, Live(s), NEW x \in Streams,
         StatementExecuteQuery(s, x)
  PROVE  /\ UNCHANGED <<db, conn, stmt>>
         /\ \A y \in Streams : y # x \/ ret'.status # "OK" =>
                                  stream'[y].from = stream[y].from
         /\ ret'.status = "OK" => stream'[x].from = s /\ stream'[x].valid
  <1>1. stmt[s].driver
    OBVIOUS
  <1>2. /\ stream' = IF ret'.status = "OK"
                     THEN [Invalidated(s) EXCEPT ![x] = Opened(s)]
                     ELSE Invalidated(s)
        /\ UNCHANGED <<db, conn, stmt>>
    BY <1>1 DEF StatementExecuteQuery
  <1> DEFINE old == Invalidated(s)
  <1>3. DOMAIN old = Streams /\ \A y \in Streams : old[y].from = stream[y].from
    BY InvalidatedTyped DEF IndInv
  <1>4. stream' = IF ret'.status = "OK" THEN [old EXCEPT ![x] = Opened(s)] ELSE old
    BY <1>2
  <1>5. Opened(s).from = s /\ Opened(s).valid
    BY DEF Opened
  <1> HIDE DEF old
  <1> QED
    BY <1>2, <1>3, <1>4, <1>5

\* A query on the connection opens a stream when it succeeds.
LEMMA QueryEffect ==
  ASSUME IndInv, conn.driver, NEW f, NEW x \in Streams, ConnectionQuery(f, x)
  PROVE  /\ UNCHANGED <<db, conn, stmt>>
         /\ \A y \in Streams : y # x \/ ret'.status # "OK" => stream'[y] = stream[y]
         /\ ret'.status = "OK" => stream'[x].from = "connection"
  <1>1. /\ stream' = IF ret'.status = "OK"
                     THEN [stream EXCEPT ![x] = Opened("connection")]
                     ELSE stream
        /\ UNCHANGED <<db, conn, stmt>>
    BY DEF ConnectionQuery
  <1>2. Opened("connection").from = "connection"
    BY DEF Opened
  <1> QED
    BY <1>1, <1>2 DEF IndInv, TypeOK

\* The release of a stream ends that stream.
LEMMA StreamReleaseEffect ==
  ASSUME IndInv, NEW x \in Streams, StreamRelease(x)
  PROVE  /\ UNCHANGED <<db, conn, stmt>>
         /\ IsOpen(x)
         /\ stream'[x].from = "none"
         /\ \A y \in Streams \ {x} : stream'[y] = stream[y]
  BY DEF IndInv, TypeOK, StreamRelease, NoStream, IsOpen

----------------------------------------------------------------------------
(***************************************************************************)
(* Steps that call nothing: the manager's variables do not change.         *)
(***************************************************************************)
LEMMA NewOperationFields ==
  ASSUME NEW kind \in OperationKinds, NEW columns \in Queries
  PROVE  LET new == NewOperation(kind, columns)
         IN  /\ new \in Operation
             /\ new.kind = kind
             /\ new.query_text = "all"
             /\ new.then # "ProduceStream"
             /\ new.effects = 0 /\ ~new.finished
  BY BoundsAssumption DEF NewOperation, Operation, Queries

\* What an operation calls first on its connection.
LEMMA FirstCalls ==
  ASSUME NEW kind \in OperationKinds
  PROVE  /\ FirstCall(kind) \in {"StatementNew", "GetStatistics", "IngestNew",
                                 "GetAutocommit", "GetCatalog", "GetObjects"}
         /\ FirstCall(kind) = "IngestNew" => kind = "ingest"
  BY DEF FirstCall, OperationKinds, OnPool

\* A new operation: nothing is left of the one before it.
LEMMA BeginStep ==
  ASSUME IndInv, ClientInv, BeginWithNewConnection \/ BeginWithIdleConnection
  PROVE  UNCHANGED managerVars /\ ClientInv'
  <1>0. UNCHANGED managerVars
    BY DEF BeginWithNewConnection, BeginWithIdleConnection, Begin
  <1>1. PICK kind \in OperationKinds, columns \in Queries :
          /\ op' = NewOperation(kind, columns)
          /\ \/ pc = "closed" /\ pc' = "DatabaseNew"
             \/ pc = "idle" /\ pc' = FirstCall(kind)
    BY DEF BeginWithNewConnection, BeginWithIdleConnection, Begin, OperationKinds
  <1>2. /\ op' \in Operation /\ op'.kind = kind /\ op'.query_text = "all"
        /\ op'.then # "ProduceStream" /\ op'.effects = 0 /\ ~op'.finished
    BY <1>1, NewOperationFields
  <1>3. /\ FirstCall(kind) \in {"StatementNew", "GetStatistics", "IngestNew",
                                "GetAutocommit", "GetCatalog", "GetObjects"}
        /\ FirstCall(kind) = "IngestNew" => kind = "ingest"
    BY FirstCalls
  <1>4. UNCHANGED <<db, conn, stmt, stream, made, statement, text, transactions>>
    BY <1>0
       DEF managerVars, BeginWithNewConnection, BeginWithIdleConnection, Begin
  <1>5. ClientTypeOK'
    BY <1>1, <1>2, <1>3, <1>4 DEF ClientInv, ClientTypeOK
  <1>6. ConnectionInv' /\ StatementInv'
    BY <1>1, <1>3, <1>4 DEF ClientInv, ConnectionInv, StatementInv
  <1>7. StreamInv'
    BY <1>1, <1>3, <1>4 DEF ClientInv, StreamInv, IsOpen
  <1>8. OperationInv' /\ TextInv'
    BY <1>1, <1>2, <1>3, <1>4 DEF ClientInv, OperationInv, TextInv, StatementInv
  <1>9. EffectsInv' /\ TransactionMeansAutocommit'
    BY <1>2, <1>4 DEF ClientInv, EffectsInv, TransactionMeansAutocommit
  <1> QED
    BY <1>0, <1>5, <1>6, <1>7, <1>8, <1>9 DEF ClientInv

\* The end of an operation, and a bound one that is dropped.
LEMMA EndStep ==
  ASSUME IndInv, ClientInv, ReturnConnection \/ Closed \/ Detach \/ DropBindData
  PROVE  UNCHANGED managerVars /\ ClientInv'
  <1>0. UNCHANGED managerVars
    BY DEF ReturnConnection, Closed, Detach, DropBindData
  <1>1. /\ \/ pc = "unwind" /\ statement = "none" /\ pc' \in {"close", "idle"}
           \/ pc = "close" /\ Unmade(conn) /\ db.data = "null" /\ pc' = "closed"
           \/ pc = "idle" /\ pc' = "close"
           \/ pc = "bound" /\ pc' = "unwind"
        /\ UNCHANGED <<made, statement, text, transactions>>
    BY DEF ReturnConnection, Closed, Detach, DropBindData
  <1>2. op' = op \/ \E status \in {"done", "asked"} : op' = [op EXCEPT !.status = status]
    BY DEF ReturnConnection, Closed, Detach, DropBindData, Finished
  <1>3. op' \in Operation /\ UNCHANGED <<op.kind, op.columns, op.query_text, op.then,
                                         op.effects, op.finished>>
    BY <1>2 DEF ClientInv, ClientTypeOK, Operation
  <1>4. UNCHANGED <<db, conn, stmt, stream>>
    BY <1>0 DEF managerVars
  <1>5. ClientTypeOK'
    BY <1>1, <1>3 DEF ClientInv, ClientTypeOK
  <1>6. ConnectionInv' /\ StatementInv'
    BY <1>1, <1>4 DEF ClientInv, ConnectionInv, StatementInv
  <1>7. StreamInv'
    BY <1>1, <1>4 DEF ClientInv, StreamInv, IsOpen
  <1>8. OperationInv' /\ TextInv'
    BY <1>1, <1>3 DEF ClientInv, OperationInv, TextInv
  <1>9. EffectsInv' /\ TransactionMeansAutocommit'
    BY <1>1, <1>3 DEF ClientInv, EffectsInv, TransactionMeansAutocommit
  <1> QED
    BY <1>0, <1>5, <1>6, <1>7, <1>8, <1>9 DEF ClientInv

\* DuckDB executes the bound data: a table scan asks for a statement of its own
\* columns, read_adbc and adbc_execute() use the one they have.
LEMMA BoundStep ==
  ASSUME IndInv, ClientInv, ExecuteScan \/ ExecuteCommand
  PROVE  UNCHANGED managerVars /\ ClientInv'
  <1>0. UNCHANGED managerVars
    BY DEF ExecuteScan, ExecuteCommand
  <1>1. /\ pc = "bound"
        /\ op.executions < MaxExecutions
        /\ \/ /\ op.kind = "table_scan" /\ pc' = "StatementNew"
              /\ op' = [op EXCEPT !.executions = @ + 1, !.query_text = op.columns,
                                  !.then = "ProduceStream"]
           \/ /\ op.kind = "read_adbc" /\ pc' = "ProduceStream"
              /\ op' = [op EXCEPT !.executions = @ + 1]
           \/ /\ op.kind = "adbc_execute" /\ pc' = "AdbcExecute"
              /\ op' = [op EXCEPT !.executions = @ + 1]
        /\ UNCHANGED <<made, statement, text, transactions>>
    BY DEF ExecuteScan, ExecuteCommand, ApplyProjectionPushdown
  <1>2. op.executions + 1 \in 0 .. MaxExecutions
    BY <1>1, BoundsAssumption DEF ClientInv, ClientTypeOK, Operation
  <1>3. op' \in Operation
    BY <1>1, <1>2 DEF ClientInv, ClientTypeOK, Operation
  <1>4. /\ UNCHANGED <<op.kind, op.columns, op.effects, op.finished>>
        /\ IF op.kind = "table_scan"
           THEN op'.query_text = op.columns /\ op'.then = "ProduceStream"
           ELSE UNCHANGED <<op.query_text, op.then>>
    BY <1>1 DEF ClientInv, ClientTypeOK, Operation
  <1>5. UNCHANGED <<db, conn, stmt, stream>>
    BY <1>0 DEF managerVars
  <1>6. ClientTypeOK'
    BY <1>1, <1>3 DEF ClientInv, ClientTypeOK
  <1>7. ConnectionInv' /\ StatementInv'
    BY <1>1, <1>5 DEF ClientInv, ConnectionInv, StatementInv
  <1>8. StreamInv'
    BY <1>1, <1>5 DEF ClientInv, StreamInv, IsOpen
  <1>9. OperationInv' /\ TextInv'
    BY <1>1, <1>4 DEF ClientInv, OperationInv, TextInv, StatementInv
  <1>10. EffectsInv' /\ TransactionMeansAutocommit'
    BY <1>1, <1>4 DEF ClientInv, EffectsInv, TransactionMeansAutocommit
  <1> QED
    BY <1>0, <1>6, <1>7, <1>8, <1>9, <1>10 DEF ClientInv

\* A transaction starts when the answer was NOT_FOUND or fits and is "true".
LEMMA TransactionStep ==
  ASSUME IndInv, ClientInv, StartTransaction \/ EndTransaction
  PROVE  UNCHANGED managerVars /\ ClientInv'
  <1>0. UNCHANGED managerVars
    BY DEF StartTransaction, EndTransaction
  <1>1. TransactionMeansAutocommit'
    <2>1. CASE StartTransaction
      <3>1. AutocommitEnabled(op.answer) => op.answer \in {"NOT_FOUND", "true"}
        BY DEF AutocommitEnabled, Buffer
      <3> QED
        BY <2>1, <3>1 DEF StartTransaction, ClientInv, TransactionMeansAutocommit
    <2>2. CASE EndTransaction
      BY <2>2 DEF EndTransaction, ClientInv, TransactionMeansAutocommit
    <2> QED
      BY <2>1, <2>2
  <1>2. op' \in Operation /\ UNCHANGED <<op.kind, op.columns, op.query_text, op.then,
                                         op.effects, op.finished>>
    BY DEF StartTransaction, EndTransaction, ClientInv, ClientTypeOK, Operation
  <1>3. UNCHANGED <<db, conn, stmt, stream, pc, made, statement, text>>
    BY <1>0 DEF managerVars, StartTransaction, EndTransaction
  <1>4. ClientTypeOK' /\ ConnectionInv' /\ StatementInv' /\ EffectsInv'
    BY <1>2, <1>3 DEF ClientInv, ClientTypeOK, ConnectionInv, StatementInv, EffectsInv
  <1>5. StreamInv'
    BY <1>3 DEF ClientInv, StreamInv, IsOpen
  <1>6. OperationInv' /\ TextInv'
    BY <1>2, <1>3 DEF ClientInv, OperationInv, TextInv
  <1> QED
    BY <1>0, <1>1, <1>4, <1>5, <1>6 DEF ClientInv

----------------------------------------------------------------------------
(***************************************************************************)
(* The life of the AdbcConnection                                          *)
(***************************************************************************)
\* The calls of the constructor: where they lead, and that a handle that is
\* used was initialized.
LEMMA DatabaseConstructed ==
  ASSUME IndInv, ClientInv,
         \/ pc = "DatabaseNew" /\ DatabaseNew /\ Check("SetUri", "close")
         \/ pc = "SetUri" /\ DatabaseSetOption(Uri) /\ Check("SetLoadFlags", "close")
         \/ pc = "SetLoadFlags" /\ DatabaseConfigure /\ Check("DatabaseInit", "close")
         \/ pc = "DatabaseInit" /\ DatabaseInit /\ Check("ConnectionNew", "close")
  PROVE  /\ Next
         /\ UNCHANGED <<conn, stmt, stream>>
         /\ pc' \in Constructing \union {"close"}
         /\ ConnectionInv'
  <1>1. db.driver \in BOOLEAN /\ (db.data = "temp" => ~db.driver) /\ Unmade(conn)
    BY DEF IndInv, TypeOK, Handle, HandleInv, HandlesMatchHeap, ClientInv, ConnectionInv
  <1>2. CASE pc = "DatabaseNew" /\ DatabaseNew /\ Check("SetUri", "close")
    <2>1. Next
      BY <1>2 DEF ClientInv, ConnectionInv, Next, ClientDatabase
    <2>2. /\ db' = [Zero EXCEPT !.data = "temp"] /\ ret'.status = "OK"
          /\ UNCHANGED <<conn, stmt, stream>>
      BY <1>2 DEF DatabaseNew, Returns
    <2>3. db'.data = "temp" /\ pc' = "SetUri"
      BY <1>2, <2>2 DEF Zero
    <2> QED
      BY <1>1, <2>1, <2>2, <2>3 DEF ConnectionInv
  <1>3. CASE pc = "SetUri" /\ DatabaseSetOption(Uri) /\ Check("SetLoadFlags", "close")
    <2>1. Next
      BY <1>3, UriAssumption DEF Next, ClientDatabaseOptions
    <2>2. db.data = "temp" /\ ~db.driver
      BY <1>1, <1>3 DEF ClientInv, ConnectionInv
    <2>3. /\ db' = [db EXCEPT !.options = @ \union {Uri}]
          /\ Returns(<<"Database", SetSlot(Uri.kind)>>, "OK")
          /\ UNCHANGED <<conn, stmt, stream>>
      BY <1>3, <2>2 DEF DatabaseSetOption
    <2>4. db'.data = "temp" /\ pc' = "SetLoadFlags"
      <3>1. db'.data = db.data
        BY <2>3 DEF IndInv, TypeOK, Handle
      <3> QED
        BY <1>3, <2>2, <2>3, <3>1 DEF Returns
    <2> QED
      BY <1>1, <2>1, <2>3, <2>4 DEF ConnectionInv
  <1>4. CASE pc = "SetLoadFlags" /\ DatabaseConfigure /\ Check("DatabaseInit", "close")
    <2>1. db.data = "temp" /\ ~db.driver
      BY <1>1, <1>4 DEF ClientInv, ConnectionInv
    <2>2. Next
      BY <1>4, <2>1 DEF Next, ClientDatabaseOptions
    <2>3. UNCHANGED <<db, conn, stmt, stream>> /\ pc' = "DatabaseInit"
      BY <1>4, <2>1 DEF DatabaseConfigure, Answer, Returns
    <2> QED
      BY <1>1, <2>1, <2>2, <2>3 DEF ConnectionInv
  <1>5. CASE pc = "DatabaseInit" /\ DatabaseInit /\ Check("ConnectionNew", "close")
    <2>1. db.data = "temp" /\ ~db.driver
      BY <1>1, <1>5 DEF ClientInv, ConnectionInv
    <2>2. Next
      BY <1>5, <2>1 DEF Next, ClientDatabase
    <2>3. UNCHANGED <<conn, stmt, stream>>
      BY <1>5, <2>1
         DEF DatabaseInit, DatabaseInitNotLoaded, DatabaseInitNewFails,
             DatabaseInitRejected, SomeOptionRejected, DatabaseInitReached
    <2>4. ret'.status = "OK" => db'.driver
      <3>1. DatabaseInitNotLoaded \/ DatabaseInitNewFails => ret'.status # "OK"
        BY DEF DatabaseInitNotLoaded, DatabaseInitNewFails, Returns
      <3>2. DatabaseInitRejected => ret'.status # "OK"
        BY DEF DatabaseInitRejected, SomeOptionRejected, Returns
      <3>3. DatabaseInitReached => db'.driver
        <4> SUFFICES ASSUME DatabaseInitReached PROVE db'.driver
          OBVIOUS
        <4>1. PICK options :
                db' = [data |-> "driver", driver |-> TRUE, options |-> options]
          BY DEF DatabaseInitReached
        <4> QED
          BY <4>1
      <3> QED
        BY <1>5, <2>1, <3>1, <3>2, <3>3 DEF DatabaseInit
    <2> QED
      BY <1>1, <1>5, <2>2, <2>3, <2>4 DEF ConnectionInv
  <1> QED
    BY <1>2, <1>3, <1>4, <1>5

\* The second half of AdbcConnection's constructor.
LEMMA ConnectionConstructed ==
  ASSUME IndInv, ClientInv,
         \/ pc = "ConnectionNew" /\ ConnectionNew /\ Check("ConnectionInit", "close")
         \/ pc = "ConnectionInit" /\ ConnectionInit /\ Check(FirstCall(op.kind), "close")
  PROVE  /\ Next
         /\ UNCHANGED <<db, stmt, stream>>
         /\ pc' \in {"ConnectionInit", "close", "StatementNew", "GetStatistics",
                     "IngestNew", "GetAutocommit", "GetCatalog", "GetObjects"}
         /\ pc' = "IngestNew" => op.kind = "ingest"
         /\ ConnectionInv'
  <1>1. CASE pc = "ConnectionNew" /\ ConnectionNew /\ Check("ConnectionInit", "close")
    <2>1. Next
      BY <1>1 DEF ClientInv, ConnectionInv, Next, ClientConnection
    <2>2. /\ conn' = [Zero EXCEPT !.data = "temp"] /\ ret'.status = "OK"
          /\ UNCHANGED <<db, stmt, stream>>
      BY <1>1 DEF ConnectionNew, Returns
    <2>3. conn'.data = "temp" /\ pc' = "ConnectionInit"
      BY <1>1, <2>2 DEF Zero
    <2> QED
      BY <1>1, <2>1, <2>2, <2>3 DEF ClientInv, ConnectionInv
  <1>2. CASE pc = "ConnectionInit" /\ ConnectionInit
             /\ Check(FirstCall(op.kind), "close")
    <2>1. conn.data = "temp" /\ db.driver /\ ~conn.driver
      BY <1>2 DEF IndInv, TypeOK, Handle, HandleInv, HandlesMatchHeap, ClientInv,
                  ConnectionInv
    <2>2. Next
      BY <1>2, <2>1 DEF Next, ClientConnection
    <2>3. UNCHANGED <<db, stmt, stream>>
      BY <1>2, <2>1
         DEF ConnectionInit, ConnectionInitNewFails, ConnectionInitRejected,
             ConnectionInitReached
    <2>4. ret'.status = "OK" => conn'.driver
      BY <1>2, <2>1
         DEF ConnectionInit, ConnectionInitNewFails, ConnectionInitRejected,
             ConnectionInitReached, Returns
    <2>5. /\ FirstCall(op.kind) \in {"StatementNew", "GetStatistics", "IngestNew",
                                     "GetAutocommit", "GetCatalog", "GetObjects"}
          /\ FirstCall(op.kind) = "IngestNew" => op.kind = "ingest"
      BY <1>2, FirstCalls DEF ClientInv, OperationInv
    <2> QED
      BY <1>2, <2>2, <2>3, <2>4, <2>5 DEF ConnectionInv
  <1> QED
    BY <1>1, <1>2

\* The constructor of AdbcConnection, call by call.
LEMMA ConstructStep ==
  ASSUME IndInv, ClientInv, Construct
  PROVE  [Next]_managerVars /\ ClientInv'
  <1>1. /\ Next
        /\ UNCHANGED <<stmt, stream>>
        /\ pc \in Constructing
        /\ pc' \in Constructing \union
                   {"close", "StatementNew", "GetStatistics", "IngestNew",
                    "GetAutocommit", "GetCatalog", "GetObjects"}
        /\ pc' = "IngestNew" => op.kind = "ingest"
        /\ ConnectionInv'
    BY DatabaseConstructed, ConnectionConstructed DEF Construct
  <1>2. UNCHANGED <<op, made, statement, text, transactions>>
    BY DEF Construct
  <1>3. ClientTypeOK' /\ StatementInv'
    BY <1>1, <1>2 DEF ClientInv, ClientTypeOK, StatementInv
  <1>4. StreamInv'
    BY <1>1, <1>2 DEF ClientInv, StreamInv, IsOpen
  <1>5. OperationInv' /\ TextInv' /\ EffectsInv' /\ TransactionMeansAutocommit'
    BY <1>1, <1>2
       DEF ClientInv, OperationInv, TextInv, EffectsInv, TransactionMeansAutocommit
  <1> QED
    BY <1>1, <1>3, <1>4, <1>5 DEF ClientInv

\* ~AdbcConnection: by then the operation has no statement and no stream.
LEMMA CloseStep ==
  ASSUME IndInv, ClientInv, CloseConnection \/ CloseDatabase
  PROVE  [Next]_managerVars /\ ClientInv'
  <1>1. /\ pc = "close" /\ UNCHANGED <<pc, op, made, statement, text, transactions>>
    BY DEF CloseConnection, CloseDatabase, operationVars
  <1>2. UNCHANGED <<stmt, stream>>
    BY DEF CloseConnection, CloseDatabase, ConnectionRelease, DatabaseRelease, Answer
  <1>3. Next
    <2>1. CASE CloseConnection
      <3>1. \A s \in Statements : Unmade(stmt[s])
        BY <1>1, StatementsAssumption DEF ClientInv, StatementInv, IndInv, TypeOK
      <3>2. \A x \in Streams : ~IsOpen(x)
        BY <1>1 DEF ClientInv, StreamInv
      <3> QED
        BY <2>1, <3>1, <3>2 DEF CloseConnection, Next, ClientConnection
    <2>2. CASE CloseDatabase
      BY <2>2
         DEF CloseDatabase, Next, ClientDatabase, IndInv, TypeOK, Handle, HandleInv,
             HandlesMatchHeap
    <2> QED
      BY <2>1, <2>2
  <1>4. ClientTypeOK' /\ ConnectionInv' /\ StatementInv'
    BY <1>1, <1>2 DEF ClientInv, ClientTypeOK, ConnectionInv, StatementInv
  <1>5. StreamInv'
    BY <1>1, <1>2 DEF ClientInv, StreamInv, IsOpen
  <1>6. OperationInv' /\ TextInv' /\ EffectsInv' /\ TransactionMeansAutocommit'
    BY <1>1
       DEF ClientInv, OperationInv, TextInv, EffectsInv, TransactionMeansAutocommit
  <1> QED
    BY <1>3, <1>4, <1>5, <1>6 DEF ClientInv

----------------------------------------------------------------------------
(***************************************************************************)
(* Statements                                                              *)
(***************************************************************************)
\* Outside of Reading a live statement may be released: it has no stream.
LEMMA ReleaseAllowed ==
  ASSUME ClientInv, NEW s \in Statements, pc \notin Reading, Live(s), StatementRelease(s)
  PROVE  Next
  <1>1. \A x \in Streams : stream[x].from # s
    BY StatementsAssumption DEF ClientInv, StreamInv, IsOpen
  <1> QED
    BY <1>1 DEF Next, ClientStatement, Usable

\* A statement is the driver's or null: there is no TempStatement.
LEMMA StatementData ==
  ASSUME IndInv, NEW s \in Statements
  PROVE  stmt[s].data \in {"null", "driver"}
  BY DEF IndInv, TypeOK

\* The handle that an operation gives up, if it still has a statement.
LEMMA GivenUp ==
  ASSUME IndInv, ClientInv, NEW s \in Statements, pc \notin Reading, ~Refused(stmt[s]),
         IF stmt[s].data # "null" THEN StatementRelease(s) ELSE UNCHANGED managerVars
  PROVE  /\ [Next]_managerVars
         /\ UNCHANGED <<db, conn>>
         /\ Unmade(stmt'[s])
         /\ \A t \in Statements \ {s} : stmt'[t] = stmt[t]
         /\ \A x \in Streams : stream'[x].from = "none"
  <1>1. \A x \in Streams : stream[x].from = "none"
    BY DEF ClientInv, StreamInv, IsOpen
  <1>2. CASE Live(s)
    BY <1>1, <1>2, ReleaseAllowed, ReleaseEffect
  <1>3. CASE stmt[s].data = "null"
    BY <1>1, <1>3 DEF managerVars
  <1> QED
    BY <1>2, <1>3, StatementData DEF IndInv, TypeOK

\* The destructor of the statement, on the way out.
LEMMA ReleaseStatementStep ==
  ASSUME IndInv, ClientInv, ReleaseStatement
  PROVE  [Next]_managerVars /\ ClientInv'
  <1>1. /\ pc = "unwind" /\ statement \in Statements /\ statement' = "none"
        /\ UNCHANGED <<pc, op, made, text, transactions>>
    BY DEF ReleaseStatement, ClientInv, ClientTypeOK
  <1>2. /\ [Next]_managerVars
        /\ UNCHANGED <<db, conn>>
        /\ Unmade(stmt'[statement])
        /\ \A t \in Statements \ {statement} : stmt'[t] = stmt[t]
        /\ \A x \in Streams : stream'[x].from = "none"
    BY <1>1, GivenUp, StatementsAssumption DEF ReleaseStatement, ClientInv, StatementInv
  <1>3. ClientTypeOK' /\ ConnectionInv'
    BY <1>1, <1>2 DEF ClientInv, ClientTypeOK, ConnectionInv
  <1>4. StatementInv'
    BY <1>1, <1>2 DEF ClientInv, StatementInv
  <1>5. StreamInv'
    BY <1>1, <1>2 DEF StreamInv, IsOpen
  <1>6. OperationInv' /\ TextInv' /\ EffectsInv' /\ TransactionMeansAutocommit'
    BY <1>1
       DEF ClientInv, OperationInv, TextInv, EffectsInv, TransactionMeansAutocommit
  <1> QED
    BY <1>2, <1>3, <1>4, <1>5, <1>6 DEF ClientInv

\* A handle that holds no statement is given to AdbcStatementNew.
LEMMA MakeStatementNewStep ==
  ASSUME IndInv, ClientInv, MakeStatementNew
  PROVE  [Next]_managerVars /\ ClientInv'
  <1>1. PICK s \in Statements \ {statement} : StatementNew(s) /\ made' = s
    BY DEF MakeStatementNew
  <1>2. /\ pc = "StatementNew" /\ UNCHANGED <<op, statement, text, transactions>>
        /\ pc' = IF ret'.status = "OK" THEN "SetSqlQuery" ELSE "DropStatement"
    BY DEF MakeStatementNew
  <1>3. made = "none" /\ Unmade(stmt[s]) /\ conn.driver
    BY <1>1, <1>2, StatementData, StatementsAssumption
       DEF ClientInv, StatementInv, ConnectionInv
  <1>4. Next
    BY <1>1, <1>3 DEF Next, ClientStatement
  <1>5. /\ UNCHANGED <<db, conn, stream>>
        /\ stmt'[s].data = IF ret'.status = "OK" THEN "driver" ELSE "null"
        /\ stmt'[s].driver
        /\ \A t \in Statements \ {s} : stmt'[t] = stmt[t]
    BY <1>1, <1>3, NewEffect
  <1>6. ClientTypeOK' /\ ConnectionInv'
    BY <1>1, <1>2, <1>5 DEF ClientInv, ClientTypeOK, ConnectionInv
  <1>7. StatementInv'
    BY <1>1, <1>2, <1>3, <1>5, StatementsAssumption
       DEF ClientInv, ClientTypeOK, StatementInv
  <1>8. StreamInv'
    BY <1>2, <1>5 DEF ClientInv, StreamInv, IsOpen
  <1>9. OperationInv' /\ TextInv' /\ EffectsInv' /\ TransactionMeansAutocommit'
    BY <1>2
       DEF ClientInv, OperationInv, TextInv, EffectsInv, TransactionMeansAutocommit
  <1> QED
    BY <1>4, <1>6, <1>7, <1>8, <1>9 DEF ClientInv

\* MakeStatement gives the statement its query.
LEMMA SetSqlQueryStep ==
  ASSUME IndInv, ClientInv, SetSqlQuery
  PROVE  [Next]_managerVars /\ ClientInv'
  <1>1. /\ pc = "SetSqlQuery" /\ StatementCall(made, "SetSqlQuery")
        /\ text' = [text EXCEPT ![made] = op.query_text]
        /\ pc' = IF ret'.status = "OK" THEN "Assign" ELSE "DropStatement"
        /\ UNCHANGED <<op, made, statement, transactions>>
    BY DEF SetSqlQuery
  <1>2. made \in Statements /\ made # statement /\ Live(made)
    BY <1>1 DEF ClientInv, ClientTypeOK, StatementInv
  <1>3. Next
    BY <1>1, <1>2 DEF Next, ClientStatement, Usable, StatementCalls
  <1>4. UNCHANGED <<db, conn, stmt, stream>>
    BY <1>1, CallEffect
  <1>5. op.query_text \in Queries
    BY DEF ClientInv, ClientTypeOK, Operation
  <1>6. /\ text'[made] = op.query_text
        /\ \A s \in Statements \ {made} : text'[s] = text[s]
        /\ text' \in [Statements -> Queries \union {"none"}]
    BY <1>1, <1>2, <1>5 DEF ClientInv, ClientTypeOK
  <1>7. ClientTypeOK' /\ ConnectionInv' /\ StatementInv'
    BY <1>1, <1>4, <1>6 DEF ClientInv, ClientTypeOK, ConnectionInv, StatementInv
  <1>8. StreamInv'
    BY <1>1, <1>4 DEF ClientInv, StreamInv, IsOpen
  <1>9. OperationInv' /\ EffectsInv' /\ TransactionMeansAutocommit'
    BY <1>1 DEF ClientInv, OperationInv, EffectsInv, TransactionMeansAutocommit
  <1>10. TextInv'
    BY <1>1, <1>2, <1>6 DEF ClientInv, ClientTypeOK, TextInv
  <1> QED
    BY <1>3, <1>7, <1>8, <1>9, <1>10 DEF ClientInv

\* The exception takes the local handle with it.  Only the execution of a bound
\* table scan goes on, with the statement it has.
LEMMA DropStatementStep ==
  ASSUME IndInv, ClientInv, DropStatement
  PROVE  [Next]_managerVars /\ ClientInv'
  <1>1. /\ pc = "DropStatement" /\ made' = "none"
        /\ pc' = IF op.then = "ProduceStream" THEN "bound" ELSE "unwind"
        /\ UNCHANGED <<op, statement, text, transactions>>
    BY DEF DropStatement, Failed
  <1>2. made \in Statements /\ made # statement /\ ~Refused(stmt[made])
    BY <1>1 DEF ClientInv, ClientTypeOK, StatementInv
  <1>3. /\ [Next]_managerVars
        /\ UNCHANGED <<db, conn>>
        /\ Unmade(stmt'[made])
        /\ \A t \in Statements \ {made} : stmt'[t] = stmt[t]
        /\ \A x \in Streams : stream'[x].from = "none"
    BY <1>1, <1>2, GivenUp DEF DropStatement
  <1>4. ClientTypeOK' /\ ConnectionInv'
    BY <1>1, <1>3 DEF ClientInv, ClientTypeOK, ConnectionInv
  <1>5. StatementInv'
    BY <1>1, <1>2, <1>3 DEF ClientInv, ClientTypeOK, OperationInv, StatementInv
  <1>6. StreamInv'
    BY <1>1, <1>3 DEF StreamInv, IsOpen
  <1>7. OperationInv' /\ TextInv' /\ EffectsInv' /\ TransactionMeansAutocommit'
    BY <1>1
       DEF ClientInv, OperationInv, TextInv, EffectsInv, TransactionMeansAutocommit
  <1> QED
    BY <1>3, <1>4, <1>5, <1>6, <1>7 DEF ClientInv

\* The new statement replaces the old one, which is released.
LEMMA AssignStep ==
  ASSUME IndInv, ClientInv, Assign
  PROVE  [Next]_managerVars /\ ClientInv'
  <1>1. /\ pc = "Assign" /\ statement' = made /\ made' = "none" /\ pc' = op.then
        /\ UNCHANGED <<op, text, transactions>>
    BY DEF Assign
  <1>2. made \in Statements /\ made # statement /\ Live(made)
    BY <1>1 DEF ClientInv, ClientTypeOK, StatementInv
  <1>3. op.then \in {"ExecuteSchema", "bound", "ProduceStream"}
    BY DEF ClientInv, ClientTypeOK, Operation
  <1>4. /\ [Next]_managerVars
        /\ UNCHANGED <<db, conn>>
        /\ stmt'[made] = stmt[made]
        /\ \A t \in Statements \ {made} : Unmade(stmt'[t])
        /\ \A x \in Streams : stream'[x].from = "none"
    <2>1. \A t \in Statements \ {statement, made} : Unmade(stmt[t])
      BY StatementData DEF ClientInv, StatementInv
    <2>2. CASE statement = "none"
      <3>1. UNCHANGED managerVars
        BY <2>2 DEF Assign
      <3>2. \A x \in Streams : stream[x].from = "none"
        BY <1>1 DEF ClientInv, StreamInv, IsOpen
      <3> QED
        BY <2>1, <2>2, <3>1, <3>2, StatementsAssumption DEF managerVars
    <2>3. CASE statement # "none"
      <3>1. statement \in Statements /\ ~Refused(stmt[statement])
        BY <2>3 DEF ClientInv, ClientTypeOK, StatementInv
      <3>2. IF stmt[statement].data # "null" THEN StatementRelease(statement)
                                             ELSE UNCHANGED managerVars
        BY <2>3 DEF Assign
      <3> QED
        BY <1>1, <1>2, <2>1, <3>1, <3>2, GivenUp
    <2> QED
      BY <2>2, <2>3
  <1>5. ClientTypeOK' /\ ConnectionInv'
    BY <1>1, <1>2, <1>3, <1>4 DEF ClientInv, ClientTypeOK, ConnectionInv
  <1>6. StatementInv'
    BY <1>1, <1>2, <1>3, <1>4, StatementsAssumption DEF StatementInv
  <1>7. StreamInv'
    BY <1>1, <1>3, <1>4 DEF StreamInv, IsOpen
  <1>8. OperationInv' /\ TextInv' /\ EffectsInv' /\ TransactionMeansAutocommit'
    BY <1>1, <1>3
       DEF ClientInv, OperationInv, TextInv, EffectsInv, TransactionMeansAutocommit
  <1> QED
    BY <1>4, <1>5, <1>6, <1>7, <1>8 DEF ClientInv

----------------------------------------------------------------------------
(***************************************************************************)
(* Streams                                                                 *)
(***************************************************************************)
\* The stream that a call on the connection returns.
LEMMA MetadataOpened ==
  ASSUME IndInv, ClientInv, pc \in {"GetStatistics", "GetObjects"},
         NEW f \in ConnectionQueries, NEW x \in Streams, ConnectionQuery(f, x),
         pc' = IF ret'.status = "OK"
               THEN IF pc = "GetStatistics" THEN "ReadStatistics" ELSE "ReadObjects"
               ELSE IF ret'.status = "NOT_IMPLEMENTED" /\ pc = "GetStatistics"
                    THEN "StatementNew" ELSE "unwind",
         UNCHANGED <<op, made, statement, text, transactions>>
  PROVE  [Next]_managerVars /\ ClientInv'
  <1>1. conn.driver /\ \A y \in Streams : ~IsOpen(y)
    BY DEF ClientInv, ConnectionInv, StreamInv
  <1>2. Next
    BY <1>1 DEF Next, ClientMetadata
  <1>3. /\ UNCHANGED <<db, conn, stmt>>
        /\ \A y \in Streams : y # x \/ ret'.status # "OK" => stream'[y] = stream[y]
        /\ ret'.status = "OK" => stream'[x].from = "connection"
    BY <1>1, QueryEffect
  <1>4. ClientTypeOK' /\ ConnectionInv' /\ StatementInv'
    BY <1>3 DEF ClientInv, ClientTypeOK, ConnectionInv, StatementInv
  <1>5. StreamInv'
    BY <1>1, <1>3 DEF StreamInv, IsOpen
  <1>6. OperationInv' /\ TextInv' /\ EffectsInv' /\ TransactionMeansAutocommit'
    BY DEF ClientInv, OperationInv, TextInv, EffectsInv, TransactionMeansAutocommit
  <1> QED
    BY <1>2, <1>4, <1>5, <1>6 DEF ClientInv

\* The stream of the kept statement, for its schema or for a scan.
LEMMA ResultOpened ==
  ASSUME IndInv, ClientInv, SchemaQuery \/ ProduceStream
  PROVE  [Next]_managerVars /\ ClientInv'
  <1>1. PICK x \in Streams : StatementExecuteQuery(statement, x)
    BY DEF SchemaQuery, ProduceStream
  <1>2. /\ \/ /\ pc = "SchemaQuery"
              /\ pc' = IF ret'.status = "OK" THEN "ReadSchema" ELSE "unwind"
           \/ /\ pc = "ProduceStream"
              /\ pc' = IF ret'.status = "OK" THEN "scanning" ELSE "bound"
        /\ UNCHANGED <<op, made, statement, text, transactions>>
    BY DEF SchemaQuery, ProduceStream
  <1>3. statement \in Statements /\ Live(statement)
    BY <1>2 DEF ClientInv, ClientTypeOK, StatementInv
  <1>4. \A y \in Streams : ~IsOpen(y)
    BY <1>2 DEF ClientInv, StreamInv
  <1>5. Next
    BY <1>1, <1>3, <1>4 DEF Next, ClientStatement, Usable
  <1>6. /\ UNCHANGED <<db, conn, stmt>>
        /\ \A y \in Streams : y # x \/ ret'.status # "OK" =>
                                 stream'[y].from = stream[y].from
        /\ ret'.status = "OK" => stream'[x].from = statement /\ stream'[x].valid
    BY <1>1, <1>3, ExecuteEffect
  <1>7. ClientTypeOK' /\ ConnectionInv' /\ StatementInv'
    BY <1>2, <1>6 DEF ClientInv, ClientTypeOK, ConnectionInv, StatementInv
  <1>8. StreamInv'
    BY <1>2, <1>3, <1>4, <1>6, StatementsAssumption DEF StreamInv, IsOpen
  <1>9. OperationInv' /\ TextInv' /\ EffectsInv' /\ TransactionMeansAutocommit'
    BY <1>2
       DEF ClientInv, OperationInv, TextInv, EffectsInv, TransactionMeansAutocommit
  <1> QED
    BY <1>5, <1>7, <1>8, <1>9 DEF ClientInv

\* The only open stream is released.
LEMMA StreamEnded ==
  ASSUME IndInv, ClientInv, pc \in Reading, NEW x \in Streams, StreamRelease(x),
         \/ pc = "ReadStatistics" /\ pc' = "StatementNew"
         \/ pc = "ReadObjects" /\ pc' = "unwind"
         \/ pc = "ReadSchema" /\ pc' \in {"unwind", "StatementNew"}
         \/ pc = "scanning" /\ pc' = "bound",
         op' = op \/ (pc = "ReadSchema" /\ op' = [op EXCEPT !.then = "bound"]),
         UNCHANGED <<made, statement, text, transactions>>
  PROVE  [Next]_managerVars /\ ClientInv'
  <1>1. Next
    BY DEF Next, ClientStream
  <1>2. /\ UNCHANGED <<db, conn, stmt>>
        /\ IsOpen(x)
        /\ stream'[x].from = "none"
        /\ \A y \in Streams \ {x} : stream'[y] = stream[y]
    BY StreamReleaseEffect
  <1>3. /\ op' \in Operation
        /\ UNCHANGED <<op.kind, op.columns, op.query_text, op.effects, op.finished>>
        /\ op'.then = op.then \/ op'.then = "bound"
    BY DEF ClientInv, ClientTypeOK, Operation
  <1>4. ClientTypeOK' /\ ConnectionInv' /\ StatementInv'
    BY <1>2, <1>3 DEF ClientInv, ClientTypeOK, ConnectionInv, StatementInv
  <1>5. StreamInv'
    BY <1>2 DEF ClientInv, StreamInv, IsOpen
  <1>6. OperationInv' /\ TextInv' /\ EffectsInv' /\ TransactionMeansAutocommit'
    BY <1>3
       DEF ClientInv, StatementInv, OperationInv, TextInv, EffectsInv,
           TransactionMeansAutocommit
  <1> QED
    BY <1>1, <1>4, <1>5, <1>6 DEF ClientInv

\* GetTableCardinality and the stream of its statistics.
LEMMA StatisticsStep ==
  ASSUME IndInv, ClientInv, GetStatistics \/ ReadStatistics
  PROVE  [Next]_managerVars /\ ClientInv'
  <1>1. CASE GetStatistics
    <2>1. pc' = IF ret'.status = "OK" THEN "ReadStatistics"
                ELSE IF ret'.status = "NOT_IMPLEMENTED" THEN "StatementNew" ELSE "unwind"
      BY <1>1 DEF GetStatistics
    <2> QED
      BY <1>1, <2>1, MetadataOpened DEF GetStatistics, ConnectionQueries
  <1>2. CASE ReadStatistics
    BY <1>2, StreamEnded DEF ReadStatistics
  <1> QED
    BY <1>1, <1>2

\* The stream that was opened for its schema is released.
LEMMA ReadSchemaStep ==
  ASSUME IndInv, ClientInv, ReadSchema
  PROVE  [Next]_managerVars /\ ClientInv'
  BY StreamEnded DEF ReadSchema

\* The scan is over, or has failed.
LEMMA EndScanStep ==
  ASSUME IndInv, ClientInv, EndScan
  PROVE  [Next]_managerVars /\ ClientInv'
  BY StreamEnded DEF EndScan

\* GetObjects and its stream.
LEMMA GetObjectsStep ==
  ASSUME IndInv, ClientInv, GetObjects
  PROVE  [Next]_managerVars /\ ClientInv'
  BY MetadataOpened, StreamEnded DEF GetObjects, ConnectionQueries

----------------------------------------------------------------------------
(***************************************************************************)
(* Calls that change no handle                                             *)
(***************************************************************************)
\* Such a call by an operation that keeps its statements and closed its streams.
LEMMA PlainCall ==
  ASSUME ClientInv, UNCHANGED <<db, conn, stmt>>,
         \A x \in Streams : stream'[x].from = stream[x].from,
         UNCHANGED <<made, statement, text, transactions>>,
         op' \in Operation, EffectsInv',
         UNCHANGED <<op.kind, op.columns, op.query_text, op.then>>,
         \/ pc \in {"GetAutocommit", "GetCatalog"} /\ pc' \in {"unwind", "GetCatalogAgain"}
         \/ pc = "GetCatalogAgain" /\ pc' = "unwind"
         \/ /\ pc \in WithStatement \ {"ReadSchema", "scanning"}
            /\ pc' \in {"SchemaQuery", "bound", "unwind", "AdbcExecute", "IngestSchema",
                        "IngestTable", "BindStream", "IngestRows"}
  PROVE  ClientInv'
  <1>1. ClientTypeOK' /\ ConnectionInv'
    BY DEF ClientInv, ClientTypeOK, ConnectionInv
  <1>2. StatementInv'
    BY DEF ClientInv, StatementInv
  <1>3. StreamInv'
    BY DEF ClientInv, StreamInv, IsOpen
  <1>4. OperationInv' /\ TextInv' /\ TransactionMeansAutocommit'
    BY DEF ClientInv, OperationInv, TextInv, TransactionMeansAutocommit
  <1> QED
    BY <1>1, <1>2, <1>3, <1>4 DEF ClientInv

\* A statement that is kept may be used.
LEMMA KeptStatement ==
  ASSUME ClientInv, pc \in WithStatement
  PROVE  statement \in Statements /\ Live(statement) /\ Usable(statement)
  BY DEF ClientInv, ClientTypeOK, StatementInv, Usable

\* The driver decides about every option of a connection it owns, so asking for
\* one is the same call as asking for another of that type.
LEMMA GetOptionAllowed ==
  ASSUME IndInv, ClientInv, pc \in Connected,
         ConnectionGetOption(CurrentCatalog) \/ ConnectionGetOption(AutocommitOption)
  PROVE  Next
  <1>1. conn.driver /\ conn.data # "null"
    BY DEF ClientInv, ConnectionInv, IndInv, HandleInv, HandlesMatchHeap
  <1>2. CurrentCatalog.kind = Uri.kind /\ AutocommitOption.kind = Uri.kind
    BY DEF CurrentCatalog, AutocommitOption, Uri
  <1>3. ConnectionGetOption(Uri)
    BY <1>1, <1>2 DEF ConnectionGetOption
  <1> QED
    BY <1>1, <1>3, UriAssumption DEF Next, ClientConnectionOptions

\* The schema without running the query, if the driver can.
LEMMA ExecuteSchemaStep ==
  ASSUME IndInv, ClientInv, ExecuteSchema
  PROVE  [Next]_managerVars /\ ClientInv'
  <1>1. /\ pc = "ExecuteSchema" /\ StatementCall(statement, "ExecuteSchema")
        /\ UNCHANGED <<op, made, statement, text, transactions>>
    BY DEF ExecuteSchema
  <1>2. pc' \in {"SchemaQuery", "bound", "unwind"}
    BY DEF ExecuteSchema
  <1>3. Next
    BY <1>1, KeptStatement DEF Next, ClientStatement, StatementCalls
  <1>4. UNCHANGED <<db, conn, stmt, stream>>
    BY <1>1, CallEffect
  <1>5. op' \in Operation /\ EffectsInv'
    BY <1>1 DEF ClientInv, ClientTypeOK, EffectsInv
  <1> QED
    BY <1>1, <1>2, <1>3, <1>4, <1>5, PlainCall

\* The current catalog, asked for once or twice.
LEMMA GetCatalogStep ==
  ASSUME IndInv, ClientInv, GetCatalog
  PROVE  [Next]_managerVars /\ ClientInv'
  <1>1. /\ ConnectionGetOption(CurrentCatalog)
        /\ UNCHANGED <<op, made, statement, text, transactions>>
        /\ \/ pc = "GetCatalog" /\ pc' \in {"unwind", "GetCatalogAgain"}
           \/ pc = "GetCatalogAgain" /\ pc' = "unwind"
    BY DEF GetCatalog
  <1>2. Next
    BY <1>1, GetOptionAllowed
  <1>3. UNCHANGED <<db, conn, stmt, stream>>
    BY <1>1, CallEffect
  <1>4. op' \in Operation /\ EffectsInv'
    BY <1>1 DEF ClientInv, ClientTypeOK, EffectsInv
  <1> QED
    BY <1>1, <1>2, <1>3, <1>4, PlainCall

\* The question before a transaction is started.
LEMMA GetAutocommitStep ==
  ASSUME IndInv, ClientInv, GetAutocommit
  PROVE  [Next]_managerVars /\ ClientInv'
  <1>1. /\ ConnectionGetOption(AutocommitOption)
        /\ UNCHANGED <<made, statement, text, transactions>>
        /\ pc = "GetAutocommit" /\ pc' = "unwind"
    BY DEF GetAutocommit
  <1>2. PICK answer \in {"none", "NOT_FOUND"} \union Values :
          op' = [op EXCEPT !.answer = answer]
    BY DEF GetAutocommit
  <1>3. Next
    BY <1>1, GetOptionAllowed
  <1>4. UNCHANGED <<db, conn, stmt, stream>>
    BY <1>1, CallEffect
  <1>5. /\ op' \in Operation
        /\ UNCHANGED <<op.kind, op.columns, op.query_text, op.then, op.effects,
                       op.finished>>
    BY <1>2 DEF ClientInv, ClientTypeOK, Operation
  <1>6. EffectsInv'
    BY <1>5 DEF ClientInv, EffectsInv
  <1> QED
    BY <1>1, <1>3, <1>4, <1>5, <1>6, PlainCall

\* The command runs only while `finished' is not set, and sets it.
LEMMA AdbcExecuteStep ==
  ASSUME IndInv, ClientInv, AdbcExecuteFunction
  PROVE  [Next]_managerVars /\ ClientInv'
  <1>1. pc = "AdbcExecute" /\ UNCHANGED <<made, statement, text, transactions>>
    BY DEF AdbcExecuteFunction
  <1>2. CASE AlreadyFinished /\ pc' = "bound" /\ UNCHANGED op /\ UNCHANGED managerVars
    <2>1. op' \in Operation /\ EffectsInv'
      BY <1>2 DEF ClientInv, ClientTypeOK, EffectsInv
    <2>2. UNCHANGED <<db, conn, stmt, stream>>
      BY <1>2 DEF managerVars
    <2> QED
      BY <1>1, <1>2, <2>1, <2>2, PlainCall
  <1>3. CASE /\ ~AlreadyFinished
             /\ StatementUpdate(statement)
             /\ pc' = IF ret'.status = "OK" THEN "AdbcExecute" ELSE "bound"
             /\ op' = IF ret'.status # "OK" THEN op
                      ELSE [op EXCEPT !.effects = @ + 1, !.finished = TRUE]
    <2>1. Next
      BY <1>1, <1>3, KeptStatement DEF Next, ClientStatement
    <2>2. /\ UNCHANGED <<db, conn, stmt>>
          /\ \A x \in Streams : stream'[x].from = stream[x].from
      BY <1>1, <1>3, KeptStatement, UpdateEffect
    <2>3. op.effects = 0 /\ op.effects + 1 \in Nat /\ ~op.finished
      BY <1>3 DEF AlreadyFinished, ClientInv, EffectsInv
    <2>4. op' \in Operation
      BY <1>3, <2>3 DEF ClientInv, ClientTypeOK, Operation
    <2>5. /\ UNCHANGED <<op.kind, op.columns, op.query_text, op.then>>
          /\ IF ret'.status # "OK" THEN UNCHANGED <<op.effects, op.finished>>
                                   ELSE op'.effects = 1 /\ op'.finished
      BY <1>3, <2>3 DEF ClientInv, ClientTypeOK, Operation
    <2>6. EffectsInv'
      BY <2>3, <2>5 DEF EffectsInv
    <2> QED
      BY <1>1, <1>3, <2>1, <2>2, <2>4, <2>5, <2>6, PlainCall
  <1> QED
    BY <1>2, <1>3 DEF AdbcExecuteFunction

\* The statement of an INSERT.
LEMMA IngestNewStep ==
  ASSUME IndInv, ClientInv, pc = "IngestNew", NEW s \in Statements, StatementNew(s),
         statement' = s,
         IF ret'.status = "OK" THEN pc' \in {"IngestMode", "IngestSchema", "IngestTable"}
                               ELSE pc' = "unwind",
         UNCHANGED <<op, made, text, transactions>>
  PROVE  [Next]_managerVars /\ ClientInv'
  <1>1. /\ made = "none" /\ statement = "none" /\ conn.driver
        /\ Unmade(stmt[s])
    BY StatementData, StatementsAssumption DEF ClientInv, StatementInv, ConnectionInv
  <1>2. Next
    BY <1>1 DEF Next, ClientStatement
  <1>3. /\ UNCHANGED <<db, conn, stream>>
        /\ stmt'[s].data = IF ret'.status = "OK" THEN "driver" ELSE "null"
        /\ stmt'[s].driver
        /\ \A t \in Statements \ {s} : stmt'[t] = stmt[t]
    BY <1>1, NewEffect
  <1>4. ClientTypeOK' /\ ConnectionInv'
    BY <1>3 DEF ClientInv, ClientTypeOK, ConnectionInv
  <1>5. StatementInv'
    BY <1>1, <1>3, StatementsAssumption DEF ClientInv, StatementInv
  <1>6. StreamInv'
    BY <1>3 DEF ClientInv, StreamInv, IsOpen
  <1>7. OperationInv' /\ TextInv' /\ EffectsInv' /\ TransactionMeansAutocommit'
    BY DEF ClientInv, OperationInv, TextInv, EffectsInv, TransactionMeansAutocommit
  <1> QED
    BY <1>2, <1>4, <1>5, <1>6, <1>7 DEF ClientInv

\* An INSERT, call by call.
LEMMA IngestStep ==
  ASSUME IndInv, ClientInv, Ingest
  PROVE  [Next]_managerVars /\ ClientInv'
  <1>0. UNCHANGED <<op, made, text, transactions>>
    BY DEF Ingest
  <1>1. CASE /\ pc = "IngestNew"
             /\ \E s \in Statements : StatementNew(s) /\ statement' = s
             /\ \E next \in {"IngestMode", "IngestSchema", "IngestTable"} :
                  Check(next, "unwind")
    BY <1>0, <1>1, IngestNewStep
  <1>2. CASE /\ UNCHANGED statement
             /\ pc \in {"IngestMode", "IngestSchema", "IngestTable", "BindStream"}
             /\ \E f \in {"SetOption", "BindStream"} : StatementCall(statement, f)
             /\ pc' \in {"IngestSchema", "IngestTable", "BindStream", "IngestRows",
                         "unwind"}
    <2>1. PICK f \in {"SetOption", "BindStream"} : StatementCall(statement, f)
      BY <1>2
    <2>2. UNCHANGED <<db, conn, stmt, stream>>
      BY <2>1, CallEffect
    <2>3. "SetOption" \in StatementSetters
      BY DEF StatementSetters, Kinds, SetSlot
    <2>4. Next
      BY <1>2, <2>1, <2>3, KeptStatement
         DEF Next, ClientStatement, ClientStatementOptions, StatementCalls
    <2>5. op' \in Operation /\ EffectsInv'
      BY <1>0 DEF ClientInv, ClientTypeOK, EffectsInv
    <2> QED
      BY <1>0, <1>2, <2>2, <2>4, <2>5, PlainCall
  <1>3. CASE /\ UNCHANGED statement /\ pc = "IngestRows" /\ StatementUpdate(statement)
             /\ pc' = "unwind"
    <2>1. Next
      BY <1>3, KeptStatement DEF Next, ClientStatement
    <2>2. /\ UNCHANGED <<db, conn, stmt>>
          /\ \A x \in Streams : stream'[x].from = stream[x].from
      BY <1>3, KeptStatement, UpdateEffect
    <2>3. op' \in Operation /\ EffectsInv'
      BY <1>0 DEF ClientInv, ClientTypeOK, EffectsInv
    <2> QED
      BY <1>0, <1>3, <2>1, <2>2, <2>3, PlainCall
  <1> QED
    BY <1>1, <1>2, <1>3 DEF Ingest

----------------------------------------------------------------------------
(***************************************************************************)
(* The extension implements the client that keeps the contract             *)
(***************************************************************************)
LEMMA ClientInvInit == ClientInit => IndInv /\ ClientInv
  <1> SUFFICES ASSUME ClientInit PROVE IndInv /\ ClientInv
    OBVIOUS
  <1>1. IndInv
    BY IndInit DEF ClientInit
  <1>2. /\ pc = "closed" /\ made = "none" /\ statement = "none" /\ transactions = {}
        /\ op = [NewOperation("none", "all") EXCEPT !.status = "done"]
        /\ db = Zero /\ conn = Zero
        /\ stmt = [s \in Statements |-> [data |-> "null", driver |-> FALSE]]
        /\ stream = [x \in Streams |-> NoStream]
        /\ text = [s \in Statements |-> "none"]
    BY DEF ClientInit, ManagerInit
  <1>3. /\ op \in Operation /\ op.kind = "none" /\ op.query_text = "all"
        /\ op.then = "bound" /\ op.effects = 0 /\ ~op.finished
    <2> DEFINE old == NewOperation("none", "all")
    <2>1. /\ old \in Operation /\ old.kind = "none" /\ old.query_text = "all"
          /\ old.then = "bound" /\ old.effects = 0 /\ ~old.finished
      BY BoundsAssumption DEF NewOperation, Operation, Queries, Scans
    <2>2. op = [old EXCEPT !.status = "done"]
      BY <1>2
    <2> HIDE DEF old
    <2> QED
      BY <2>1, <2>2 DEF Operation
  <1>4. ClientTypeOK
    BY <1>2, <1>3 DEF ClientTypeOK
  <1>5. ConnectionInv /\ StatementInv
    BY <1>2 DEF ConnectionInv, StatementInv, Zero
  <1>6. StreamInv
    BY <1>2 DEF StreamInv, IsOpen, NoStream
  <1>7. OperationInv /\ TextInv /\ EffectsInv /\ TransactionMeansAutocommit
    BY <1>2, <1>3 DEF OperationInv, TextInv, EffectsInv, TransactionMeansAutocommit
  <1> QED
    BY <1>1, <1>4, <1>5, <1>6, <1>7 DEF ClientInv

\* Every step of the extension is a call that the contract allows, or none, and
\* keeps ClientInv.
LEMMA ClientStep ==
  IndInv /\ ClientInv /\ [ClientNext]_clientVars => [Next]_managerVars /\ ClientInv'
  <1> SUFFICES ASSUME IndInv, ClientInv, [ClientNext]_clientVars
               PROVE  [Next]_managerVars /\ ClientInv'
    OBVIOUS
  <1>1. CASE UNCHANGED clientVars
    <2>1. UNCHANGED managerVars /\ UNCHANGED operationVars
      BY <1>1 DEF clientVars
    <2>2. UNCHANGED <<db, conn, stmt, stream, pc, op, made, statement, text, transactions>>
      BY <2>1 DEF managerVars, operationVars
    <2>3. ClientTypeOK' /\ ConnectionInv' /\ StatementInv'
      BY <2>2 DEF ClientInv, ClientTypeOK, ConnectionInv, StatementInv
    <2>4. StreamInv'
      BY <2>2 DEF ClientInv, StreamInv, IsOpen
    <2>5. OperationInv' /\ TextInv' /\ EffectsInv' /\ TransactionMeansAutocommit'
      BY <2>2
         DEF ClientInv, OperationInv, TextInv, EffectsInv, TransactionMeansAutocommit
    <2> QED
      BY <2>1, <2>3, <2>4, <2>5 DEF ClientInv
  <1>2. CASE \/ BeginWithNewConnection \/ BeginWithIdleConnection \/ Construct
             \/ ReleaseStatement \/ ReturnConnection \/ CloseConnection
             \/ CloseDatabase \/ Closed \/ Detach
    BY <1>2, BeginStep, ConstructStep, ReleaseStatementStep, EndStep, CloseStep
  <1>3. CASE MakeStatementNew \/ SetSqlQuery \/ DropStatement \/ Assign
    BY <1>3, MakeStatementNewStep, SetSqlQueryStep, DropStatementStep, AssignStep
  <1>4. CASE \/ GetStatistics \/ ReadStatistics \/ ExecuteSchema \/ SchemaQuery
             \/ ReadSchema \/ DropBindData \/ ExecuteScan \/ ProduceStream \/ EndScan
             \/ ExecuteCommand \/ AdbcExecuteFunction
    BY <1>4, StatisticsStep, ExecuteSchemaStep, ResultOpened, ReadSchemaStep, EndStep,
       BoundStep, EndScanStep, AdbcExecuteStep
  <1>5. CASE \/ Ingest \/ GetCatalog \/ GetObjects \/ GetAutocommit
             \/ StartTransaction \/ EndTransaction
    BY <1>5, IngestStep, GetCatalogStep, GetObjectsStep, GetAutocommitStep,
       TransactionStep
  <1> QED
    BY <1>1, <1>2, <1>3, <1>4, <1>5 DEF ClientNext, Ended

\* The invariant of the extension's calls, together with the manager's.
THEOREM ClientInductive == ClientSpec => [](IndInv /\ ClientInv)
  <1>1. IndInv /\ ClientInv /\ [ClientNext]_clientVars => IndInv' /\ ClientInv'
    BY ClientStep, IndStep
  <1> QED
    BY <1>1, ClientInvInit, PTL DEF ClientSpec

\* Refinement, for every driver: each call that an operation of the extension
\* makes, also after any call before it has failed, is one that adbc.h allows in
\* that state (KeepsContract is Spec of DriverManager).
THEOREM ExtensionKeepsContract == ClientSpec => KeepsContract
  <1>1. ClientInit => ManagerInit
    BY DEF ClientInit
  <1> QED
    BY <1>1, ClientStep, ClientInductive, PTL DEF ClientSpec, KeepsContract, Spec

\* What the contract gives: no call of the extension reaches a freed driver or a
\* missing function; private_data and private_driver of its handles agree with
\* what is allocated, a handle the driver refused to release excepted, and on
\* that one the extension makes no further call.
THEOREM ExtensionNeverDangles ==
  ClientSpec => [](HandlesMatchHeap /\ HandlesReachDriver /\ LoadedTableComplete)
  BY ExtensionKeepsContract, HandlesAndHeapAgree, DriverOutlivesHandles, TableIsComplete,
     PTL
     DEF KeepsContract

\* Streams end before statements, statements before connections, connections
\* before databases and drivers, on every path through the extension.
THEOREM ChildrenEndFirst == ClientSpec => []ParentsOutliveChildren
  <1> SUFFICES ASSUME IndInv, ClientInv PROVE ParentsOutliveChildren
    BY ClientInductive, PTL
  <1>1. ASSUME NEW x \in Streams, stream[x].from \in Statements
        PROVE  stream[x].valid /\ stream[x].from \in heap
    <2>1. IsOpen(x)
      BY <1>1, StatementsAssumption DEF IsOpen
    <2>2. pc \in {"ReadSchema", "scanning"}
      BY <1>1, <2>1, StatementsAssumption DEF ClientInv, StreamInv, Allocations
    <2>3. stream[x].from = statement /\ stream[x].valid
      BY <2>1, <2>2 DEF ClientInv, StreamInv
    <2> QED
      BY <1>1, <2>2, <2>3
         DEF ClientInv, StatementInv, IndInv, HandleInv, HandlesMatchHeap
  <1>2. \A x \in Streams : stream[x].from = "connection" => "connection" \in heap
    BY DEF IsOpen, IndInv, HandleInv, Owned, HandlesMatchHeap
  <1>3. heap \intersect Statements # {} => "connection" \in heap
    BY DEF IndInv, HandleInv, Owned, HandlesMatchHeap
  <1>4. "connection" \in heap => {"database", "driver", "AdbcDriver"} \subseteq heap
    BY DEF IndInv, HandleInv, Owned, HandlesMatchHeap, DriverAllocated
  <1> QED
    BY <1>1, <1>2, <1>3, <1>4 DEF ParentsOutliveChildren

\* A connection that goes back to the pool, or is closed, takes nothing of the
\* operation with it, whether the operation succeeded or threw.
THEOREM OperationsCleanUp == ClientSpec => []NothingLeftBehind
  <1> SUFFICES ASSUME IndInv, ClientInv PROVE NothingLeftBehind
    BY ClientInductive, PTL
  <1>1. pc \in {"idle", "closed"} => heap \intersect Statements = {}
    <2> SUFFICES ASSUME pc \in {"idle", "closed"}, NEW s \in Statements, s \in heap
                 PROVE  FALSE
      OBVIOUS
    <2>1. made = "none" /\ statement = "none"
      BY DEF ClientInv, StatementInv
    <2>2. s \in {statement, made}
      BY DEF ClientInv, StatementInv, IndInv, HandleInv, HandlesMatchHeap
    <2> QED
      BY <2>1, <2>2, StatementsAssumption
  <1>2. pc \in {"idle", "closed"} => \A x \in Streams : ~IsOpen(x)
    BY DEF ClientInv, StreamInv
  <1>3. pc = "idle" => conn.driver /\ db.driver
    BY DEF ClientInv, ConnectionInv, IndInv, HandleInv, Owned
  <1>4. pc = "closed" => heap \subseteq {"TempDatabase", "refused"}
    <2> SUFFICES ASSUME pc = "closed" PROVE heap \subseteq {"TempDatabase", "refused"}
      OBVIOUS
    <2>1. db.data = "null" /\ Unmade(conn)
      BY DEF ClientInv, ConnectionInv
    <2>2. ~db.driver /\ ~conn.driver
      BY <2>1 DEF IndInv, TypeOK, Handle, HandleInv, HandlesMatchHeap
    <2>3. /\ "database" \notin heap /\ "driver" \notin heap /\ "AdbcDriver" \notin heap
          /\ "connection" \notin heap /\ "TempConnection" \notin heap
      BY <2>1, <2>2 DEF IndInv, HandleInv, HandlesMatchHeap, DriverAllocated
    <2> QED
      BY <1>1, <2>3 DEF IndInv, TypeOK, Allocations
  <1> QED
    BY <1>1, <1>2, <1>3, <1>4 DEF NothingLeftBehind

\* A scan reads the result of the statement that was made last, with the query
\* for the columns of this execution.
THEOREM ScanReadsLatestQuery == ClientSpec => []StreamIsOfLatestQuery
  <1> SUFFICES ASSUME ClientInv, pc = "scanning"
               PROVE  \E x \in Streams :
                        /\ stream[x].from = statement /\ stream[x].valid
                        /\ text[statement] = (IF op.kind = "table_scan" THEN op.columns
                                                                        ELSE "all")
    BY ClientInductive, PTL DEF StreamIsOfLatestQuery
  <1>1. PICK x \in Streams : stream[x].from = statement /\ stream[x].valid
    BY DEF ClientInv, StreamInv
  <1>2. text[statement] = (IF op.kind = "table_scan" THEN op.columns ELSE "all")
    BY DEF ClientInv, OperationInv, StatementInv, TextInv
  <1> QED
    BY <1>1, <1>2

\* adbc_execute() runs its command at most once successfully, however often
\* DuckDB executes the bound data.
THEOREM CommandIsNotRepeated == ClientSpec => []CommandRunsOnce
  <1>1. ClientInv => CommandRunsOnce
    BY DEF ClientInv, EffectsInv, CommandRunsOnce
  <1> QED
    BY <1>1, ClientInductive, PTL

\* A transaction is started only on a connection whose driver answered "true"
\* or does not know the option.
THEOREM TransactionsNeedAutocommit == ClientSpec => []TransactionMeansAutocommit
  <1>1. ClientInv => TransactionMeansAutocommit
    BY DEF ClientInv
  <1> QED
    BY <1>1, ClientInductive, PTL
=============================================================================
