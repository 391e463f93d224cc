----------------------------- MODULE AdbcClient -----------------------------
(***************************************************************************)
(* The extension as a client of the driver manager: the calls its          *)
(* operations make on one AdbcConnection, with what they do when a call    *)
(* fails.  The operations are                                              *)
(*   read_adbc     AdbcArrowStreamFactory over a connection of its own     *)
(*   table_scan    AdbcTableEntry::GetScanFunction and the scan            *)
(*   bind_table    GetOrCreateTableEntryInternal: bind, take the schema    *)
(*   adbc_execute  AdbcExecuteFunction                                     *)
(*   ingest        AsyncInsert, and the CREATE TABLE of CreateTable and of *)
(*                 GetGlobalSinkState                                      *)
(*   transaction   AdbcTransactionManager::StartTransaction                *)
(*   catalog_name  AdbcCatalog::FetchCatalogName                           *)
(*   objects       AdbcCatalog::ForEachCatalog                             *)
(* One operation at a time uses the connection, which is what              *)
(* ExclusiveLease of ConnectionPool establishes.  An AdbcConnection is     *)
(* made for the operation, or taken from the pool (pc = "idle"); afterwards*)
(* it goes back or is closed.                                              *)
(*                                                                         *)
(* DuckDB is external: it may execute bound data several times (a prepared *)
(* statement), and ends an execution, with its stream, before it destroys  *)
(* the bound data.                                                         *)
(***************************************************************************)
EXTENDS DriverManager

CONSTANTS MaxOperations,   \* bound: operations started in one behaviour
          MaxExecutions    \* bound: executions of the same bound data

ASSUME BoundsAssumption == MaxOperations \in Nat /\ MaxExecutions \in Nat

VARIABLES pc,            \* where the operation is: the call it makes next
          op,            \* its own state, see Operation
          made,          \* MakeStatement's local handle, or "none"
          statement,     \* the handle of the factory, of the bind data, ...
          text,          \* the query of each statement
          ephemeral,     \* AdbcPooledConnection::ephemeral
          transactions,  \* open transactions: [id, answer]
          operations     \* operations started

operationVars == <<pc, op, made, statement, text, ephemeral, transactions, operations>>
clientVars == <<managerVars, operationVars>>

Uri == [kind |-> "string", key |-> "uri"]

\* The option that every operation sets on its database.
ASSUME UriAssumption == Uri \in Options

AutocommitOption == [kind |-> "string", key |-> "autocommit"]
CurrentCatalog == [kind |-> "string", key |-> "catalog"]

Scans == {"read_adbc", "table_scan", "bind_table"}
OnPool == {"table_scan", "bind_table", "ingest", "transaction", "catalog_name", "objects"}
OperationKinds == OnPool \union {"read_adbc", "adbc_execute"}

\* Query texts: everything (SELECT * FROM table, or the text given to
\* read_adbc), or the columns that DuckDB's plan needs.
Queries == {"all", "columns"}

\* Values of the autocommit option with their length; "on, deferred" stands for
\* any that is longer than the buffer of MAX_OPTION_LEN bytes.
Values == {"true", "false", "on, deferred"}
ValueLength(v) == CASE v = "true" -> 4 [] v = "false" -> 5 [] v = "on, deferred" -> 12
MaxOptionLen == 6

\* columns: what DuckDB asks the scan for; query_text: of the factory; then:
\* what follows a new statement; finished, effects: adbc_execute()'s flag and how
\* often the database ran the command; answer: to the autocommit question.
Operation ==
  [kind : OperationKinds \union {"none"}, columns : Queries, query_text : Queries,
   then : {"ExecuteSchema", "bound", "ProduceStream"},
   executions : 0 .. MaxExecutions, finished : BOOLEAN, effects : Nat,
   answer : {"none", "NOT_FOUND"} \union Values, status : {"running", "asked", "done"}]

NewOperation(kind, columns) ==
  [kind |-> kind, columns |-> columns, query_text |-> "all",
   then |-> IF kind \in Scans THEN "ExecuteSchema" ELSE "bound",
   executions |-> 0, finished |-> FALSE, effects |-> 0,
   answer |-> "none", status |-> "running"]

ClientInit ==
  /\ ManagerInit
  /\ pc = "closed"
  /\ op = [NewOperation("none", "all") EXCEPT !.status = "done"]
  /\ made = "none" /\ statement = "none"
  /\ text = [s \in Statements |-> "none"]
  /\ ephemeral = FALSE
  /\ transactions = {}
  /\ operations = 0

\* The first call of an operation on its connection.
FirstCall(kind) ==
  CASE kind \in {"read_adbc", "bind_table", "adbc_execute"} -> "StatementNew"
    [] kind = "table_scan"   -> "GetStatistics"
    [] kind = "ingest"       -> "IngestNew"
    [] kind = "transaction"  -> "GetAutocommit"
    [] kind = "catalog_name" -> "GetCatalog"
    [] kind = "objects"      -> "GetObjects"

Goto(label) == pc' = label

\* CHECK_ADBC: go on, or throw.
Check(next, thrown) == Goto(IF ret'.status = "OK" THEN next ELSE thrown)

----------------------------------------------------------------------------
(***************************************************************************)
(* The AdbcConnection of an operation                                      *)
(***************************************************************************)
Begin(kind, columns) ==
  /\ op.status = "done" /\ operations < MaxOperations
  /\ operations' = operations + 1
  /\ op' = NewOperation(kind, columns)
  /\ UNCHANGED <<made, statement, text, transactions>>
  /\ UNCHANGED managerVars

\* A connection of its own (read_adbc, adbc_execute), or a new one of the pool,
\* which is ephemeral when the pool is at its limit.
BeginWithNewConnection ==
  /\ pc = "closed"
  /\ \E kind \in OperationKinds, columns \in Queries :
       /\ Begin(kind, columns)
       /\ ephemeral' \in (IF kind \in OnPool THEN BOOLEAN ELSE {TRUE})
  /\ Goto("DatabaseNew")

BeginWithIdleConnection ==
  /\ pc = "idle"
  /\ \E kind \in OnPool, columns \in Queries :
       /\ Begin(kind, columns)
       /\ Goto(FirstCall(kind))
  /\ UNCHANGED ephemeral

\* AdbcConnection::AdbcConnection, call by call.
Construct ==
  /\ \/ pc = "DatabaseNew" /\ DatabaseNew /\ Check("SetUri", "close")
     \/ pc = "SetUri" /\ DatabaseSetOption(Uri) /\ Check("SetLoadFlags", "close")
     \/ pc = "SetLoadFlags" /\ DatabaseConfigure /\ Check("DatabaseInit", "close")
     \/ pc = "DatabaseInit" /\ DatabaseInit /\ Check("ConnectionNew", "close")
     \/ pc = "ConnectionNew" /\ ConnectionNew /\ Check("ConnectionInit", "close")
     \/ pc = "ConnectionInit" /\ ConnectionInit /\ Check(FirstCall(op.kind), "close")
  /\ UNCHANGED <<op, made, statement, text, ephemeral, transactions, operations>>

Finished == op' = [op EXCEPT !.status = IF op.answer = "none" THEN "done" ELSE "asked"]

\* The operation's objects are destroyed: its statement first; then a pooled
\* connection goes back to the pool and an ephemeral one is closed.
ReleaseStatement ==
  /\ pc = "unwind" /\ statement # "none"
  /\ IF stmt[statement].data # "null" THEN StatementRelease(statement)
                                     ELSE UNCHANGED managerVars
  /\ statement' = "none"
  /\ UNCHANGED <<pc, op, made, text, ephemeral, transactions, operations>>

ReturnConnection ==
  /\ pc = "unwind" /\ statement = "none"
  /\ IF ephemeral THEN Goto("close") /\ UNCHANGED op ELSE Goto("idle") /\ Finished
  /\ UNCHANGED managerVars
  /\ UNCHANGED <<made, statement, text, ephemeral, transactions, operations>>

\* ~AdbcConnection destroys its members in reverse order, connection before
\* database; Releaser skips a handle without private_data, and ignores what
\* Release returns: it is called once whether or not the driver refuses.
CloseConnection ==
  /\ pc = "close" /\ ~Unmade(conn)
  /\ ConnectionRelease
  /\ UNCHANGED operationVars

CloseDatabaseFirst ==
  /\ pc = "close" /\ db.data # "null"
  /\ DatabaseRelease
  /\ UNCHANGED operationVars
CloseDatabase ==
  /\ pc = "close" /\ Unmade(conn) /\ db.data # "null"
  /\ DatabaseRelease
  /\ UNCHANGED operationVars

Closed ==
  /\ pc = "close" /\ Unmade(conn) /\ db.data = "null"
  /\ Goto("closed")
  /\ Finished
  /\ UNCHANGED managerVars
  /\ UNCHANGED <<made, statement, text, ephemeral, transactions, operations>>

\* DETACH destroys the pool with its idle connection.
Detach ==
  /\ pc = "idle" /\ op.status = "done"
  /\ Goto("close")
  /\ UNCHANGED managerVars
  /\ UNCHANGED <<op, made, statement, text, ephemeral, transactions, operations>>

----------------------------------------------------------------------------
(***************************************************************************)
(* AdbcConnection::MakeStatement and its assignment to the handle          *)
(***************************************************************************)
Failed == IF op.then = "ProduceStream" THEN "bound" ELSE "unwind"

MakeStatementNew ==
  /\ pc = "StatementNew"
  /\ \E s \in Statements \ {statement} :
       /\ StatementNew(s)
       /\ made' = s
  /\ Check("SetSqlQuery", "DropStatement")
  /\ UNCHANGED <<op, statement, text, ephemeral, transactions, operations>>

SetSqlQuery ==
  /\ pc = "SetSqlQuery"
  /\ StatementCall(made, "SetSqlQuery")
  /\ text' = [text EXCEPT ![made] = op.query_text]
  /\ Check("Assign", "DropStatement")
  /\ UNCHANGED <<op, made, statement, ephemeral, transactions, operations>>

\* The local handle goes away with the exception.
StatementAbandoned ==
  /\ pc = "DropStatement"
  /\ UNCHANGED managerVars
  /\ made' = "none"
  /\ Goto(Failed)
  /\ UNCHANGED <<op, statement, text, ephemeral, transactions, operations>>
DropUnmadeStatement ==
  /\ pc = "DropStatement"
  /\ StatementRelease(made)
  /\ made' = "none"
  /\ Goto(Failed)
  /\ UNCHANGED <<op, statement, text, ephemeral, transactions, operations>>
DropStatement ==
  /\ pc = "DropStatement"
  /\ IF stmt[made].data # "null" THEN StatementRelease(made) ELSE UNCHANGED managerVars
  /\ made' = "none"
  /\ Goto(Failed)
  /\ UNCHANGED <<op, statement, text, ephemeral, transactions, operations>>

\* Handle::operator= releases the old statement and takes the new one over.
Assign ==
  /\ pc = "Assign"
  /\ IF statement # "none" /\ stmt[statement].data # "null"
     THEN StatementRelease(statement) ELSE UNCHANGED managerVars
  /\ statement' = made
  /\ made' = "none"
  /\ Goto(op.then)
  /\ UNCHANGED <<op, text, ephemeral, transactions, operations>>

----------------------------------------------------------------------------
(***************************************************************************)
(* Scans                                                                   *)
(***************************************************************************)
\* GetTableCardinality: without statistics there is no estimate.
GetStatistics ==
  /\ pc = "GetStatistics"
  /\ \E x \in Streams : ~IsOpen(x) /\ ConnectionQuery("GetStatistics", x)
  /\ Goto(CASE ret'.status = "NOT_IMPLEMENTED" -> "StatementNew"
            [] ret'.status = "OK" -> "ReadStatistics"
            [] OTHER -> "unwind")
  /\ UNCHANGED <<op, made, statement, text, ephemeral, transactions, operations>>

ReadStatistics ==
  /\ pc = "ReadStatistics"
  /\ \E x \in Streams : StreamRelease(x)
  /\ Goto("StatementNew")
  /\ UNCHANGED <<op, made, statement, text, ephemeral, transactions, operations>>

\* AdbcArrowStreamFactory::GetSchema: a driver without ExecuteSchema runs the
\* query for its schema, and the statement is replaced.
ExecuteSchema ==
  /\ pc = "ExecuteSchema"
  /\ StatementCall(statement, "ExecuteSchema")
  /\ Goto(CASE ret'.status = "NOT_IMPLEMENTED" -> "SchemaQuery"
            [] ret'.status = "OK" -> "bound"
            [] OTHER -> "unwind")
  /\ UNCHANGED <<op, made, statement, text, ephemeral, transactions, operations>>

SchemaQuery ==
  /\ pc = "SchemaQuery"
  /\ \E x \in Streams : ~IsOpen(x) /\ StatementExecuteQuery(statement, x)
  /\ Check("ReadSchema", "unwind")
  /\ UNCHANGED <<op, made, statement, text, ephemeral, transactions, operations>>

\* get_schema, which may fail, and the end of the local stream handle.
ReadSchema ==
  /\ pc = "ReadSchema"
  /\ \E x \in Streams : StreamRelease(x)
  /\ \/ Goto("unwind") /\ UNCHANGED op
     \/ Goto("StatementNew") /\ op' = [op EXCEPT !.then = "bound"]
  /\ UNCHANGED <<made, statement, text, ephemeral, transactions, operations>>

\* The bind data is complete.  bind_table only reads the schema from it;
\* otherwise DuckDB executes it, perhaps again, or drops it.
DropBindData ==
  /\ pc = "bound"
  /\ Goto("unwind")
  /\ UNCHANGED managerVars
  /\ UNCHANGED <<op, made, statement, text, ephemeral, transactions, operations>>

\* ApplyProjectionPushdown: a table scan gets a new statement for the columns
\* it needs; read_adbc keeps its query.
PushdownWithoutReset ==
  op' = [op EXCEPT !.executions = @ + 1, !.query_text = op.columns,
                   !.then = "ProduceStream"] /\ Goto("ProduceStream")
ApplyProjectionPushdown ==
  op' = [op EXCEPT !.executions = @ + 1, !.query_text = op.columns,
                   !.then = "ProduceStream"] /\ Goto("StatementNew")

ExecuteScan ==
  /\ pc = "bound" /\ op.kind \in {"read_adbc", "table_scan"}
  /\ op.executions < MaxExecutions
  /\ IF op.kind = "table_scan"
     THEN ApplyProjectionPushdown
     ELSE Goto("ProduceStream") /\ op' = [op EXCEPT !.executions = @ + 1]
  /\ UNCHANGED managerVars
  /\ UNCHANGED <<made, statement, text, ephemeral, transactions, operations>>

ProduceStream ==
  /\ pc = "ProduceStream"
  /\ \E x \in Streams : ~IsOpen(x) /\ StatementExecuteQuery(statement, x)
  /\ Check("scanning", "bound")
  /\ UNCHANGED <<op, made, statement, text, ephemeral, transactions, operations>>

\* DuckDB reads the stream, to its end or not, and releases it.
EndScan ==
  /\ pc = "scanning"
  /\ \E x \in Streams : StreamRelease(x)
  /\ Goto("bound")
  /\ UNCHANGED <<op, made, statement, text, ephemeral, transactions, operations>>

----------------------------------------------------------------------------
(***************************************************************************)
(* adbc_execute()                                                          *)
(***************************************************************************)
ExecuteCommand ==
  /\ pc = "bound" /\ op.kind = "adbc_execute"
  /\ op.executions < MaxExecutions
  /\ op' = [op EXCEPT !.executions = @ + 1]
  /\ Goto("AdbcExecute")
  /\ UNCHANGED managerVars
  /\ UNCHANGED <<made, statement, text, ephemeral, transactions, operations>>

\* DuckDB calls the function until it returns no row.
NeverFinished == FALSE
AlreadyFinished == op.finished

AdbcExecuteFunction ==
  /\ pc = "AdbcExecute"
  /\ \/ /\ AlreadyFinished
        /\ Goto("bound")
        /\ UNCHANGED op /\ UNCHANGED managerVars
     \/ /\ ~AlreadyFinished
        /\ StatementUpdate(statement)
        /\ Check("AdbcExecute", "bound")
        /\ op' = IF ret'.status # "OK" THEN op
                 ELSE [op EXCEPT !.effects = @ + 1, !.finished = TRUE]
  /\ UNCHANGED <<made, statement, text, ephemeral, transactions, operations>>

----------------------------------------------------------------------------
(***************************************************************************)
(* Bulk ingestion: append mode (AsyncInsert only), schema (if there is     *)
(* one), table, stream, execution.                                         *)
(***************************************************************************)
Ingest ==
  /\ \/ /\ pc = "IngestNew"
        /\ \E s \in Statements : StatementNew(s) /\ statement' = s
        /\ \E next \in {"IngestMode", "IngestSchema", "IngestTable"} : Check(next, "unwind")
     \/ /\ UNCHANGED statement
        /\ \/ /\ pc = "IngestMode"
              /\ StatementCall(statement, "SetOption")
              /\ \E next \in {"IngestSchema", "IngestTable"} : Check(next, "unwind")
           \/ /\ pc = "IngestSchema"
              /\ StatementCall(statement, "SetOption") /\ Check("IngestTable", "unwind")
           \/ /\ pc = "IngestTable"
              /\ StatementCall(statement, "SetOption") /\ Check("BindStream", "unwind")
           \/ /\ pc = "BindStream"
              /\ StatementCall(statement, "BindStream") /\ Check("IngestRows", "unwind")
           \/ /\ pc = "IngestRows"
              /\ StatementUpdate(statement) /\ Goto("unwind")
  /\ UNCHANGED <<op, made, text, ephemeral, transactions, operations>>

----------------------------------------------------------------------------
(***************************************************************************)
(* Metadata and transactions                                               *)
(***************************************************************************)
\* FetchCatalogName: a name that does not fit into the stack buffer is asked
\* for again.
GetCatalog ==
  /\ \/ /\ pc = "GetCatalog"
        /\ ConnectionGetOption(CurrentCatalog)
        /\ \E next \in {"unwind", "GetCatalogAgain"} : Check(next, "unwind")
     \/ /\ pc = "GetCatalogAgain"
        /\ ConnectionGetOption(CurrentCatalog)
        /\ Goto("unwind")
  /\ UNCHANGED <<op, made, statement, text, ephemeral, transactions, operations>>

\* ForEachCatalog: the stream ends before the connection goes back.
GetObjects ==
  /\ \/ /\ pc = "GetObjects"
        /\ \E x \in Streams : ~IsOpen(x) /\ ConnectionQuery("GetObjects", x)
        /\ Check("ReadObjects", "unwind")
     \/ /\ pc = "ReadObjects"
        /\ \E x \in Streams : StreamRelease(x)
        /\ Goto("unwind")
  /\ UNCHANGED <<op, made, statement, text, ephemeral, transactions, operations>>

\* StartTransaction asks for the autocommit option; the connection goes back
\* before the answer is looked at.
GetAutocommit ==
  /\ pc = "GetAutocommit"
  /\ ConnectionGetOption(AutocommitOption)
  /\ \E value \in Values :
       op' = [op EXCEPT !.answer = CASE ret'.status = "OK" -> value
                                     [] ret'.status = "NOT_FOUND" -> "NOT_FOUND"
                                     [] OTHER -> "none"]
  /\ Goto("unwind")
  /\ UNCHANGED <<made, statement, text, ephemeral, transactions, operations>>

\* What is in option_value: a driver writes only a value that fits.
Buffer(value) == IF ValueLength(value) + 1 <= MaxOptionLen THEN value ELSE ""

AutocommitUnlessDisabled(answer) ==
  \/ answer = "NOT_FOUND"
  \/ answer \in Values /\ Buffer(answer) # "false"
AutocommitEnabled(answer) ==
  \/ answer = "NOT_FOUND"
  \/ answer \in Values /\ Buffer(answer) = "true"

StartTransaction ==
  /\ op.status = "asked"
  /\ transactions' = IF AutocommitEnabled(op.answer)
                     THEN transactions \union {[id |-> operations, answer |-> op.answer]}
                     ELSE transactions
  /\ op' = [op EXCEPT !.status = "done"]
  /\ UNCHANGED managerVars
  /\ UNCHANGED <<pc, made, statement, text, ephemeral, operations>>

\* CommitTransaction, RollbackTransaction.
EndTransaction ==
  /\ op.status = "done"
  /\ \E t \in transactions : transactions' = transactions \ {t}
  /\ UNCHANGED managerVars
  /\ UNCHANGED <<pc, op, made, statement, text, ephemeral, operations>>

----------------------------------------------------------------------------
\* Nothing is left to do: the bound on operations is reached.
Ended ==
  /\ pc = "closed" /\ op.status = "done" /\ operations = MaxOperations
  /\ transactions = {}
  /\ UNCHANGED clientVars

ClientNext ==
  \/ BeginWithNewConnection \/ BeginWithIdleConnection \/ Construct
  \/ ReleaseStatement \/ ReturnConnection \/ CloseConnection \/ CloseDatabase \/ Closed
  \/ Detach
  \/ MakeStatementNew \/ SetSqlQuery \/ DropStatement \/ Assign
  \/ GetStatistics \/ ReadStatistics \/ ExecuteSchema \/ SchemaQuery \/ ReadSchema
  \/ DropBindData \/ ExecuteScan \/ ProduceStream \/ EndScan
  \/ ExecuteCommand \/ AdbcExecuteFunction
  \/ Ingest \/ GetCatalog \/ GetObjects
  \/ GetAutocommit \/ StartTransaction \/ EndTransaction
  \/ Ended

ClientSpec == ClientInit /\ [][ClientNext]_clientVars

----------------------------------------------------------------------------
(***************************************************************************)
(* Properties                                                              *)
(***************************************************************************)
\* Refinement: every step of the extension is a call that the contract of
\* adbc.h allows in that state (Next of DriverManager), or none.  So what
\* DriverManager shows of every client that keeps the contract holds here.
KeepsContract == Spec

\* The objects of ADBC end in the reverse order in which they were made, on
\* every path through the extension, exceptions included: a stream before its
\* statement (or before the statement executes again), a statement before its
\* connection, a connection before its database and driver.
ParentsOutliveChildren ==
  /\ \A x \in Streams :
       /\ stream[x].from \in Statements => stream[x].valid /\ stream[x].from \in heap
       /\ stream[x].from = "connection" => "connection" \in heap
  /\ heap \intersect Statements # {} => "connection" \in heap
  /\ "connection" \in heap => {"database", "driver", "AdbcDriver"} \subseteq heap

\* An operation that has ended, successfully or not, leaves nothing behind: a
\* connection in the pool has no statement and no open stream, which the next
\* operation would meet; a closed one has freed everything (except what a driver
\* refused to release and the TempDatabase of one whose DatabaseNew failed).
NothingLeftBehind ==
  /\ pc \in {"idle", "closed"} =>
       /\ heap \intersect Statements = {}
       /\ \A x \in Streams : ~IsOpen(x)
  /\ pc = "idle" => conn.driver /\ db.driver
  /\ pc = "closed" => heap \subseteq {"TempDatabase", "refused"}

\* What DuckDB reads is the result of the statement made last for the columns
\* this plan asks for, not of the one that was used to get the schema.
StreamIsOfLatestQuery ==
  pc = "scanning" =>
    \E x \in Streams :
      /\ stream[x].from = statement /\ stream[x].valid
      /\ text[statement] = (IF op.kind = "table_scan" THEN op.columns ELSE "all")

\* adbc_execute() runs its command at most once successfully however often
\* DuckDB calls it for the same bind data, and reports success only if it has.
CommandRunsOnce == op.effects <= 1 /\ (op.finished => op.effects = 1)

\* A transaction starts only on a connection that is in autocommit mode: the
\* driver does not know the option, or says so in full.
TransactionMeansAutocommit ==
  \A t \in transactions : t.answer \in {"NOT_FOUND", "true"}
============================================================================
