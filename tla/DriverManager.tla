--------------------------- MODULE DriverManager ---------------------------
(***************************************************************************)
(* The ADBC driver manager compiled into the extension: the C structs      *)
(* AdbcDatabase, AdbcConnection, AdbcStatement and ArrowArrayStream, the   *)
(* table of driver functions they dispatch to, and every AdbcXXX() call    *)
(* that changes them.  A handle has two fields: private_data ("temp" while *)
(* the manager keeps the options there, "driver" once the driver owns it)  *)
(* and private_driver (TRUE: not null).  `heap' holds what is allocated    *)
(* and not freed, on both sides of the table.                              *)
(*                                                                         *)
(* The driver is external: a function it implements returns any status in  *)
(* DriverStatus.  It keeps the rule of adbc.h that private_data is null    *)
(* exactly while an object is uninitialized or freed: a New that fails     *)
(* makes nothing, a Release that succeeds frees the object and clears the  *)
(* field, a Release that fails may have done so or may have kept both.     *)
(* How the driver is found is the subject of DriverLoading; here loading   *)
(* just may fail.                                                          *)
(*                                                                         *)
(* Next is a client that makes any call the contract of adbc.h allows, in  *)
(* any order.  AdbcClient makes the calls of the extension instead.        *)
(***************************************************************************)
EXTENDS Naturals, FiniteSets

CONSTANTS Statements,     \* statement handles
          Streams,        \* ArrowArrayStream structs
          Options,        \* options a client or a profile may set: [kind, key]
          DriverTables,   \* what a driver's init function may fill in
          DriverStatus    \* what a driver function may return

\* The names of the allocations and of the origins of a stream; "refused" is
\* what a driver kept when it reported an error from a Release.
Allocations == {"TempDatabase", "TempConnection", "AdbcDriver", "driver",
                "database", "connection", "refused"}

ASSUME StatementsAssumption == Statements \intersect (Allocations \union {"none"}) = {}

VARIABLES db,         \* AdbcDatabase: [data, driver, options]
          conn,       \* AdbcConnection: [data, driver, options]
          stmt,       \* AdbcStatement handles: [data, driver]
          stream,     \* ArrowArrayStreams: [from, wrapped, valid]
          heap,       \* live allocations
          driver,     \* AdbcDriver: [implemented, table]
          ret,        \* the call that returned last: [call, status]
          error       \* its AdbcError (1.1.0 layout): [data, driver]

managerVars == <<db, conn, stmt, stream, heap, driver, ret, error>>

(***************************************************************************)
(* Status codes and the function table                                     *)
(***************************************************************************)
StatusCodes == {"OK", "UNKNOWN", "NOT_IMPLEMENTED", "NOT_FOUND",
                "ALREADY_EXISTS", "INVALID_ARGUMENT", "INVALID_STATE",
                "INVALID_DATA", "INTEGRITY", "INTERNAL", "IO", "CANCELLED",
                "TIMEOUT", "UNAUTHENTICATED", "UNAUTHORIZED"}

Kinds == {"string", "bytes", "int", "double"}

\* The members of struct AdbcDriver, by the object they work on.
Slots10 ==
  ({"Database"} \X {"Init", "New", "SetOption", "Release"})
  \union ({"Connection"} \X {"Commit", "GetInfo", "GetObjects",
          "GetTableSchema", "GetTableTypes", "Init", "New", "SetOption",
          "ReadPartition", "Release", "Rollback"})
  \union ({"Statement"} \X {"Bind", "BindStream", "ExecuteQuery",
          "ExecutePartitions", "GetParameterSchema", "New", "Prepare",
          "Release", "SetOption", "SetSqlQuery", "SetSubstraitPlan"})

Slots11 ==
  ({"Error"} \X {"GetDetailCount", "GetDetail", "FromArrayStream"})
  \union ({"Database"} \X {"GetOption", "GetOptionBytes", "GetOptionDouble",
          "GetOptionInt", "SetOptionBytes", "SetOptionDouble", "SetOptionInt"})
  \union ({"Connection"} \X {"Cancel", "GetOption", "GetOptionBytes",
          "GetOptionDouble", "GetOptionInt", "GetStatistics",
          "GetStatisticNames", "SetOptionBytes", "SetOptionDouble",
          "SetOptionInt"})
  \union ({"Statement"} \X {"Cancel", "ExecuteSchema", "GetOption",
          "GetOptionBytes", "GetOptionDouble", "GetOptionInt",
          "SetOptionBytes", "SetOptionDouble", "SetOptionInt"})

ASSUME OptionsAssumption == \A o \in Options : o.kind \in Kinds

ASSUME TablesAssumption ==
  \A t \in DriverTables : t.slots \subseteq Slots10 \union Slots11

Getters == {"GetOption", "GetOptionBytes", "GetOptionInt", "GetOptionDouble"}

\* The default stubs: a missing getter reports an unknown option, every other
\* missing function is not implemented.
DatabaseStub(f) == IF f \in Getters THEN "NOT_FOUND" ELSE "NOT_IMPLEMENTED"

ConnectionStub(f) == IF f \in Getters THEN "NOT_FOUND" ELSE "NOT_IMPLEMENTED"

StatementStub(f) == IF f \in Getters THEN "NOT_FOUND" ELSE "NOT_IMPLEMENTED"

\* CHECK_REQUIRED and FILL_DEFAULT of AdbcLoadDriverFromInitFunc: a line for
\* each member is in one of the two lists.
RequiredSlots ==
  ({"Database"} \X {"New", "Init", "Release"})
  \union ({"Connection"} \X {"New", "Init", "Release"})
  \union ({"Statement"} \X {"ExecuteQuery", "New", "Release"})

DefaultedSlots == (Slots10 \union Slots11) \ RequiredSlots

\* What calling a member of the table may return.
Outcomes(object, f) ==
  IF <<object, f>> \in driver.implemented THEN DriverStatus
  ELSE {CASE object = "Database" -> DatabaseStub(f)
          [] object = "Connection" -> ConnectionStub(f)
          [] object = "Statement" -> StatementStub(f)}

----------------------------------------------------------------------------
(***************************************************************************)
(* Handles, errors and returns                                             *)
(***************************************************************************)
Zero == [data |-> "null", driver |-> FALSE, options |-> {}]

NoDriver == [implemented |-> {}, table |-> {}]

NoStream == [from |-> "none", wrapped |-> FALSE, valid |-> FALSE]

NoError == [data |-> FALSE, driver |-> FALSE]

ManagerInit ==
  /\ db = Zero /\ conn = Zero
  /\ stmt = [s \in Statements |-> [data |-> "null", driver |-> FALSE]]
  /\ stream = [x \in Streams |-> NoStream]
  /\ heap = {}
  /\ driver = NoDriver
  /\ ret = [call |-> <<"Database", "none">>, status |-> "OK"]
  /\ error = NoError

Returns(call, status) == ret' = [call |-> call, status |-> status]

\* INIT_ERROR, and the error a driver function may leave behind: details in
\* private_data, which AdbcErrorGetDetail reads through private_driver.
DriverError(handle, status) ==
  \E details \in BOOLEAN :
    error' = [data |-> status # "OK" /\ details, driver |-> handle.driver]

\* SetError, or no error at all (each call is given a fresh AdbcError): the
\* manager's own errors have no details.
ManagerError == error' = NoError

\* A call that only forwards to the driver.
Forward(handle, object, f) ==
  \E status \in Outcomes(object, f) :
    /\ Returns(<<object, f>>, status)
    /\ DriverError(handle, status)

\* The driver's Release of an object: after an error the driver may have kept
\* it, with the private_data of its handle.
ReleaseObject(handle, object, kept) ==
  /\ Forward(handle, object, "Release")
  /\ kept => ret'.status # "OK"

Freed(objects, kept) ==
  (heap \ objects) \union (IF kept THEN {"refused"} ELSE {})

\* A call the manager answers itself.
Answer(call, status) ==
  /\ Returns(call, status)
  /\ ManagerError
  /\ UNCHANGED <<db, conn, stmt, stream, heap, driver>>

----------------------------------------------------------------------------
(***************************************************************************)
(* Databases                                                               *)
(***************************************************************************)
DatabaseNew ==
  /\ db' = [Zero EXCEPT !.data = "temp"]
  /\ heap' = heap \union {"TempDatabase"}
  /\ Returns(<<"Database", "New">>, "OK")
  /\ ManagerError
  /\ UNCHANGED <<conn, stmt, stream, driver>>

SetSlot(kind) == CASE kind = "string" -> "SetOption"
                   [] kind = "bytes"  -> "SetOptionBytes"
                   [] kind = "int"    -> "SetOptionInt"
                   [] kind = "double" -> "SetOptionDouble"

GetSlot(kind) == CASE kind = "string" -> "GetOption"
                   [] kind = "bytes"  -> "GetOptionBytes"
                   [] kind = "int"    -> "GetOptionInt"
                   [] kind = "double" -> "GetOptionDouble"

\* Before Init an option is stored; afterwards the driver decides.
DatabaseSetOption(o) ==
  \/ /\ db.driver
     /\ Forward(db, "Database", SetSlot(o.kind))
     /\ UNCHANGED <<db, conn, stmt, stream, heap, driver>>
  \/ /\ ~db.driver /\ db.data = "null"
     /\ Answer(<<"Database", SetSlot(o.kind)>>, "INVALID_STATE")
  \/ /\ ~db.driver /\ db.data # "null"
     /\ db' = [db EXCEPT !.options = @ \union {o}]
     /\ Returns(<<"Database", SetSlot(o.kind)>>, "OK")
     /\ ManagerError
     /\ UNCHANGED <<conn, stmt, stream, heap, driver>>

DatabaseGetOption(o) ==
  \/ /\ db.driver
     /\ Forward(db, "Database", GetSlot(o.kind))
     /\ UNCHANGED <<db, conn, stmt, stream, heap, driver>>
  \/ /\ ~db.driver
     /\ Answer(<<"Database", GetSlot(o.kind)>>,
               IF o \in db.options THEN "OK" ELSE "NOT_FOUND")

\* SetLoadFlags, SetAdditionalSearchPathList, SetInitFunc, SetProfileProvider:
\* only before Init.  What they set is an input of DriverLoading.
DatabaseConfigure ==
  Answer(<<"Database", "Configure">>,
         IF db.driver THEN "INVALID_STATE" ELSE "OK")

\* AdbcLoadDriverFromInitFunc: the newest version the driver accepts, then the
\* required functions, then the stubs.
AcceptedVersion(t) ==
  CASE "1.1.0" \in t.versions -> "1.1.0"
    [] "1.1.0" \notin t.versions /\ "1.0.0" \in t.versions -> "1.0.0"
    [] OTHER -> "none"

LoadDriverFromInitFunc(t) ==
  CASE AcceptedVersion(t) = "none" -> "NOT_IMPLEMENTED"
    [] AcceptedVersion(t) # "none" /\ ~(RequiredSlots \subseteq t.slots) -> "INTERNAL"
    [] OTHER -> "OK"

\* The stubs are chosen by the version the manager asks for, 1.1.0, not by the
\* one the driver accepted.
LoadedTable(t) ==
  [implemented |-> t.slots, table |-> t.slots \union DefaultedSlots]

\* InternalAdbcParseOptions or the loading fails: the temporary state, to
\* which a profile may have added options, is kept for AdbcDatabaseRelease;
\* driver->release frees what the init function may have set up.
DatabaseInitNotLoaded ==
  /\ db.data = "temp"
  /\ \E added \in SUBSET Options, t \in DriverTables :
       /\ db' = [db EXCEPT !.options = @ \union added]
       /\ \E status \in (DriverStatus \union {"INVALID_ARGUMENT", "NOT_FOUND",
                                               LoadDriverFromInitFunc(t)}) \ {"OK"} :
            Returns(<<"Database", "Init">>, status)
  /\ \E details \in BOOLEAN : error' = [data |-> details, driver |-> FALSE]
  /\ UNCHANGED <<conn, stmt, stream, heap, driver>>

\* The driver's DatabaseNew fails: driver and AdbcDriver are freed and the
\* error is copied; the temporary state is no longer referenced by anything.
DatabaseInitNewFails ==
  /\ db.data = "temp"
  /\ \E t \in DriverTables :
       /\ LoadDriverFromInitFunc(t) = "OK"
       /\ \E status \in DriverStatus \ {"OK"} : Returns(<<"Database", "Init">>, status)
  /\ db' = Zero
  /\ ManagerError
  /\ UNCHANGED <<conn, stmt, stream, heap, driver>>

OfKind(options, kind) == {o \in options : o.kind = kind}

\* The options are passed on kind by kind, each kind until one is rejected;
\* every loop overwrites `status', so the last kind with an option decides.
LastKind(options) ==
  CASE OfKind(options, "double") # {} -> "double"
    [] OfKind(options, "double") = {} /\ OfKind(options, "int") # {} -> "int"
    [] OfKind(options, "double") = {} /\ OfKind(options, "int") = {}
         /\ OfKind(options, "bytes") # {} -> "bytes"
    [] OTHER -> "string"

OptionsApplied(options, accepted) ==
  OfKind(options, LastKind(options)) \subseteq accepted

\* The options of `options' that driver table t may accept.
Acceptable(options, t) ==
  {a \in SUBSET options : \A o \in a : <<"Database", SetSlot(o.kind)>> \in t.slots}

\* An option is rejected: the driver's database is released, then the driver,
\* and the error is copied before.
SomeOptionRejected ==
  /\ db.data = "temp"
  /\ \E added \in SUBSET Options, t \in DriverTables :
       LET options == db.options \union added IN
       /\ LoadDriverFromInitFunc(t) = "OK"
       /\ \E accepted \in Acceptable(options, t) :
            ~OptionsApplied(options, accepted)
       /\ \E status \in (DriverStatus \union {"NOT_IMPLEMENTED"}) \ {"OK"} :
            Returns(<<"Database", "Init">>, status)
  /\ UNCHANGED <<conn, stmt, stream, driver>>

RejectedDataKept ==
  /\ SomeOptionRejected
  /\ db' = [Zero EXCEPT !.data = "driver"]
  /\ heap' = heap \ {"TempDatabase"}
  /\ error' = [data |-> FALSE, driver |-> TRUE]
RejectedErrorNotCopied ==
  /\ SomeOptionRejected
  /\ db' = Zero
  /\ heap' = heap \ {"TempDatabase"}
  /\ DriverError([db EXCEPT !.driver = TRUE], ret'.status)
DatabaseInitRejected ==
  /\ SomeOptionRejected
  /\ db' = Zero
  /\ heap' = heap \ {"TempDatabase"}
  /\ error' = [data |-> FALSE, driver |-> TRUE]

\* The driver's DatabaseInit is reached; its status is returned as it is and
\* the handle keeps the driver either way.  lost: options it never accepted.
DatabaseInitReached ==
  /\ db.data = "temp"
  /\ \E added \in SUBSET Options, t \in DriverTables :
       LET options == db.options \union added IN
       /\ LoadDriverFromInitFunc(t) = "OK"
       /\ \E accepted \in Acceptable(options, t) :
            /\ OptionsApplied(options, accepted)
            /\ db' = [data |-> "driver", driver |-> TRUE,
                      options |-> options \ accepted]
       /\ driver' = LoadedTable(t)
  /\ heap' = (heap \ {"TempDatabase"}) \union {"AdbcDriver", "driver", "database"}
  /\ \E status \in DriverStatus :
       /\ Returns(<<"Database", "Init">>, status)
       /\ DriverError(db', status)
  /\ UNCHANGED <<conn, stmt, stream>>

DatabaseInit ==
  \/ db.data = "null" /\ Answer(<<"Database", "Init">>, "INVALID_STATE")
  \/ DatabaseInitNotLoaded
  \/ DatabaseInitNewFails
  \/ DatabaseInitRejected
  \/ DatabaseInitReached

DatabaseRelease ==
  \/ /\ ~db.driver /\ db.data = "null"
     /\ Answer(<<"Database", "Release">>, "INVALID_STATE")
  \/ /\ ~db.driver /\ db.data # "null"
     /\ db' = Zero
     /\ heap' = heap \ {"TempDatabase"}
     /\ Returns(<<"Database", "Release">>, "OK")
     /\ ManagerError
     /\ UNCHANGED <<conn, stmt, stream, driver>>
  \/ /\ db.driver
     /\ \E kept \in BOOLEAN :
          /\ ReleaseObject(db, "Database", kept)
          /\ heap' = Freed({"database", "driver", "AdbcDriver"}, kept)
     /\ db' = Zero
     /\ driver' = NoDriver
     /\ UNCHANGED <<conn, stmt, stream>>

----------------------------------------------------------------------------
(***************************************************************************)
(* Connections                                                             *)
(***************************************************************************)
ConnectionNew ==
  /\ conn' = [Zero EXCEPT !.data = "temp"]
  /\ heap' = heap \union {"TempConnection"}
  /\ Returns(<<"Connection", "New">>, "OK")
  /\ ManagerError
  /\ UNCHANGED <<db, stmt, stream, driver>>

ConnectionSetOption(o) ==
  \/ /\ conn.data = "null"
     /\ Answer(<<"Connection", SetSlot(o.kind)>>, "INVALID_STATE")
  \/ /\ conn.data # "null" /\ ~conn.driver
     /\ conn' = [conn EXCEPT !.options = @ \union {o}]
     /\ Returns(<<"Connection", SetSlot(o.kind)>>, "OK")
     /\ ManagerError
     /\ UNCHANGED <<db, stmt, stream, heap, driver>>
  \/ /\ conn.data # "null" /\ conn.driver
     /\ Forward(conn, "Connection", SetSlot(o.kind))
     /\ UNCHANGED <<db, conn, stmt, stream, heap, driver>>

ConnectionGetOption(o) ==
  \/ /\ conn.data = "null"
     /\ Answer(<<"Connection", GetSlot(o.kind)>>, "INVALID_STATE")
  \/ /\ conn.data # "null" /\ ~conn.driver
     /\ Answer(<<"Connection", GetSlot(o.kind)>>,
               IF o \in conn.options THEN "OK" ELSE "NOT_FOUND")
  \/ /\ conn.data # "null" /\ conn.driver
     /\ Forward(conn, "Connection", GetSlot(o.kind))
     /\ UNCHANGED <<db, conn, stmt, stream, heap, driver>>

\* The driver's ConnectionNew fails after the temporary state is freed: the
\* handle is as before AdbcConnectionNew.
NewFailsDriverSet ==
  /\ conn.data # "null" /\ db.driver
  /\ conn' = [Zero EXCEPT !.driver = TRUE]
  /\ heap' = heap \ {"TempConnection"}
  /\ \E status \in DriverStatus \ {"OK"} : Returns(<<"Connection", "Init">>, status)
  /\ \E details \in BOOLEAN : error' = [data |-> details, driver |-> FALSE]
  /\ UNCHANGED <<db, stmt, stream, driver>>
ConnectionInitNewFails ==
  /\ conn.data # "null" /\ db.driver
  /\ conn' = Zero
  /\ heap' = heap \ {"TempConnection"}
  /\ \E status \in DriverStatus \ {"OK"} : Returns(<<"Connection", "Init">>, status)
  /\ \E details \in BOOLEAN : error' = [data |-> details, driver |-> FALSE]
  /\ UNCHANGED <<db, stmt, stream, driver>>

\* The first rejected option ends Init; the handle belongs to the driver.
ConnectionInitRejected ==
  /\ conn.data # "null" /\ db.driver
  /\ \E accepted \in SUBSET conn.options :
       /\ accepted # conn.options
       /\ conn' = [data |-> "driver", driver |-> TRUE,
                   options |-> conn.options \ accepted]
  /\ heap' = (heap \ {"TempConnection"}) \union {"connection"}
  /\ \E status \in (DriverStatus \union {"NOT_IMPLEMENTED"}) \ {"OK"} :
       Returns(<<"Connection", "Init">>, status)
  /\ \E details \in BOOLEAN : error' = [data |-> details, driver |-> FALSE]
  /\ UNCHANGED <<db, stmt, stream, driver>>

RejectionIgnored ==
  /\ conn.data # "null" /\ db.driver
  /\ conn' = [conn EXCEPT !.data = "driver", !.driver = TRUE]
  /\ heap' = (heap \ {"TempConnection"}) \union {"connection"}
  /\ \E status \in DriverStatus :
       /\ Returns(<<"Connection", "Init">>, status)
       /\ DriverError(conn', status)
  /\ UNCHANGED <<db, stmt, stream, driver>>
ConnectionInitReached ==
  /\ conn.data # "null" /\ db.driver
  /\ \A o \in conn.options : <<"Connection", SetSlot(o.kind)>> \in driver.implemented
  /\ conn' = [data |-> "driver", driver |-> TRUE, options |-> {}]
  /\ heap' = (heap \ {"TempConnection"}) \union {"connection"}
  /\ \E status \in DriverStatus :
       /\ Returns(<<"Connection", "Init">>, status)
       /\ DriverError(conn', status)
  /\ UNCHANGED <<db, stmt, stream, driver>>

ConnectionInit ==
  \/ conn.data = "null" /\ Answer(<<"Connection", "Init">>, "INVALID_STATE")
  \/ /\ conn.data # "null" /\ ~db.driver
     /\ Answer(<<"Connection", "Init">>, "INVALID_ARGUMENT")
  \/ ConnectionInitNewFails
  \/ ConnectionInitRejected
  \/ ConnectionInitReached

\* Calls that hand over to the driver and change nothing here.
ConnectionCalls == {"Cancel", "Commit", "GetTableSchema", "Rollback"}

ConnectionCall(f) ==
  \/ ~conn.driver /\ Answer(<<"Connection", f>>, "INVALID_STATE")
  \/ /\ conn.driver
     /\ Forward(conn, "Connection", f)
     /\ UNCHANGED <<db, conn, stmt, stream, heap, driver>>

\* ErrorArrayStreamInit: a stream of a driver that reports errors through
\* streams is wrapped, with a reference to the driver.
Opened(from) == [from |-> from, valid |-> TRUE,
                 wrapped |-> <<"Error", "FromArrayStream">> \in driver.implemented]

\* Calls that return a stream.
ConnectionQueries == {"GetInfo", "GetObjects", "GetStatistics",
                      "GetStatisticNames", "GetTableTypes", "ReadPartition"}

ConnectionQuery(f, x) ==
  \/ ~conn.driver /\ Answer(<<"Connection", f>>, "INVALID_STATE")
  \/ /\ conn.driver
     /\ Forward(conn, "Connection", f)
     /\ stream' = IF ret'.status = "OK"
                  THEN [stream EXCEPT ![x] = Opened("connection")]
                  ELSE stream
     /\ UNCHANGED <<db, conn, stmt, heap, driver>>

\* Only private_driver is cleared here; private_data is the driver's business,
\* and if it is kept the handle looks like one that was never initialized.
ConnectionRelease ==
  \/ /\ ~conn.driver /\ conn.data = "null"
     /\ Answer(<<"Connection", "Release">>, "INVALID_STATE")
  \/ /\ ~conn.driver /\ conn.data # "null"
     /\ conn' = Zero
     /\ heap' = heap \ {"TempConnection"}
     /\ Returns(<<"Connection", "Release">>, "OK")
     /\ ManagerError
     /\ UNCHANGED <<db, stmt, stream, driver>>
  \/ /\ conn.driver
     /\ \E kept \in BOOLEAN :
          /\ ReleaseObject(conn, "Connection", kept)
          /\ conn' = [Zero EXCEPT !.data = IF kept THEN "driver" ELSE "null"]
          /\ heap' = Freed({"connection"}, kept)
     /\ UNCHANGED <<db, stmt, stream, driver>>

----------------------------------------------------------------------------
(***************************************************************************)
(* Statements and streams                                                  *)
(***************************************************************************)
\* The handle is zeroed by the caller; private_driver is set whether or not the
\* driver made a statement.
StatementNew(s) ==
  \/ ~conn.driver /\ Answer(<<"Statement", "New">>, "INVALID_STATE")
  \/ /\ conn.driver
     /\ Forward(conn, "Statement", "New")
     /\ IF ret'.status = "OK"
        THEN /\ stmt' = [stmt EXCEPT ![s] = [data |-> "driver", driver |-> TRUE]]
             /\ heap' = heap \union {s}
        ELSE /\ stmt' = [stmt EXCEPT ![s] = [data |-> "null", driver |-> TRUE]]
             /\ UNCHANGED heap
     /\ UNCHANGED <<db, conn, stream, driver>>

StatementCalls ==
  {"Bind", "BindStream", "Cancel", "ExecutePartitions", "ExecuteSchema",
   "GetParameterSchema", "Prepare", "SetSqlQuery", "SetSubstraitPlan"}

StatementSetters == {SetSlot(k) : k \in Kinds}

StatementGetters == {GetSlot(k) : k \in Kinds}

StatementCall(s, f) ==
  \/ ~stmt[s].driver /\ Answer(<<"Statement", f>>, "INVALID_STATE")
  \/ /\ stmt[s].driver
     /\ Forward(stmt[s], "Statement", f)
     /\ UNCHANGED <<db, conn, stmt, stream, heap, driver>>

\* adbc.h: executing again, or releasing the statement, invalidates the streams
\* of earlier executions.
Invalidated(s) ==
  [x \in Streams |-> IF stream[x].from = s THEN [stream[x] EXCEPT !.valid = FALSE]
                                          ELSE stream[x]]

\* WRAP_STREAM with a stream to fill; out = NULL is a StatementUpdate.
StatementExecuteQuery(s, x) ==
  \/ ~stmt[s].driver /\ Answer(<<"Statement", "ExecuteQuery">>, "INVALID_STATE")
  \/ /\ stmt[s].driver
     /\ Forward(stmt[s], "Statement", "ExecuteQuery")
     /\ stream' = IF ret'.status = "OK"
                  THEN [Invalidated(s) EXCEPT ![x] = Opened(s)]
                  ELSE Invalidated(s)
     /\ UNCHANGED <<db, conn, stmt, heap, driver>>

StatementUpdate(s) ==
  \/ ~stmt[s].driver /\ Answer(<<"Statement", "ExecuteQuery">>, "INVALID_STATE")
  \/ /\ stmt[s].driver
     /\ Forward(stmt[s], "Statement", "ExecuteQuery")
     /\ stream' = Invalidated(s)
     /\ UNCHANGED <<db, conn, stmt, heap, driver>>

StatementRelease(s) ==
  \/ ~stmt[s].driver /\ Answer(<<"Statement", "Release">>, "INVALID_STATE")
  \/ /\ stmt[s].driver
     /\ \E kept \in BOOLEAN :
          /\ ReleaseObject(stmt[s], "Statement", kept)
          /\ stmt' = [stmt EXCEPT ![s] = [data |-> IF kept THEN "driver" ELSE "null",
                                          driver |-> FALSE]]
          /\ heap' = Freed({s}, kept)
     /\ stream' = Invalidated(s)
     /\ UNCHANGED <<db, conn, driver>>

\* ErrorArrayStreamRelease, or the driver's own release.
StreamRelease(x) ==
  /\ stream[x].from # "none"
  /\ stream' = [stream EXCEPT ![x] = NoStream]
  /\ Returns(<<"Stream", "Release">>, "OK")
  /\ ManagerError
  /\ UNCHANGED <<db, conn, stmt, heap, driver>>

\* AdbcErrorFromArrayStream: the details of a wrapped stream's last error.
ErrorFromArrayStream(x) ==
  /\ stream[x].wrapped
  /\ \E details \in BOOLEAN : error' = [data |-> details, driver |-> TRUE]
  /\ Returns(<<"Error", "FromArrayStream">>, "OK")
  /\ UNCHANGED <<db, conn, stmt, stream, heap, driver>>

----------------------------------------------------------------------------
(***************************************************************************)
(* A client that keeps the contract of adbc.h: handles are made once, an   *)
(* object is released after the objects made from it, and one that could   *)
(* not be made is not used.  adbc.h says nothing of a handle whose Release *)
(* failed.  This client does what the extension does (Releaser in          *)
(* adbc_util.hpp ignores the status and the struct goes away): it makes no *)
(* other call on it, not Release again either, before a New.               *)
(***************************************************************************)
IsOpen(x) == stream[x].from # "none"

\* A handle whose Release failed: the driver's data, but no driver.
Refused(handle) == handle.data = "driver" /\ ~handle.driver

\* A struct that New may be called on.
Unmade(handle) == handle.data = "null" \/ Refused(handle)

ClientDatabaseOptions ==
  \/ \E o \in Options : DatabaseSetOption(o)
  \/ db.data # "null" /\ \E o \in Options : DatabaseGetOption(o)
  \/ db.data # "null" /\ DatabaseConfigure

ClientDatabase ==
  \/ db.data = "null" /\ DatabaseNew
  \/ ~db.driver /\ DatabaseInit
  \/ ~conn.driver /\ DatabaseRelease

ClientConnectionOptions ==
  /\ ~Refused(conn)
  /\ \E o \in Options : ConnectionSetOption(o) \/ ConnectionGetOption(o)

\* "This AdbcConnection must outlive the returned ArrowArrayStream."
ClientConnection ==
  \/ Unmade(conn) /\ ConnectionNew
  \/ /\ ~Refused(conn)
     /\ \/ ~conn.driver /\ ConnectionInit
        \/ \E f \in ConnectionCalls : ConnectionCall(f)
        \/ /\ \A s \in Statements : Unmade(stmt[s])
           /\ \A x \in Streams : ~IsOpen(x)
           /\ ConnectionRelease

ClientMetadata ==
  /\ ~Refused(conn)
  /\ \E f \in ConnectionQueries, x \in Streams : ~IsOpen(x) /\ ConnectionQuery(f, x)

\* A statement that was not made, or that was released, is not used.
Usable(s) == ~Refused(stmt[s]) /\ (stmt[s].data # "null" \/ ~stmt[s].driver)

ClientStatement(s) ==
  \/ Unmade(stmt[s]) /\ StatementNew(s)
  \/ /\ Usable(s)
     /\ \/ \E f \in StatementCalls : StatementCall(s, f)
        \/ \E x \in Streams : ~IsOpen(x) /\ StatementExecuteQuery(s, x)
        \/ StatementUpdate(s)
        \/ (\A x \in Streams : stream[x].from # s) /\ StatementRelease(s)

ClientStatementOptions(s) ==
  Usable(s) /\ \E f \in StatementSetters \union StatementGetters : StatementCall(s, f)

ClientStream(x) ==
  \/ StreamRelease(x)
  \/ ErrorFromArrayStream(x)

Next ==
  \/ ClientDatabase \/ ClientDatabaseOptions
  \/ ClientConnection \/ ClientConnectionOptions \/ ClientMetadata
  \/ \E s \in Statements : ClientStatement(s) \/ ClientStatementOptions(s)
  \/ \E x \in Streams : ClientStream(x)

Spec == ManagerInit /\ [][Next]_managerVars

----------------------------------------------------------------------------
(***************************************************************************)
(* Properties                                                              *)
(***************************************************************************)
Handle == [data : {"null", "temp", "driver"}, driver : BOOLEAN,
           options : SUBSET Options]

\* Type invariant: the fields of the C structs and of the function table.
TypeOK ==
  /\ db \in Handle /\ conn \in Handle
  /\ stmt \in [Statements -> [data : {"null", "driver"}, driver : BOOLEAN]]
  /\ stream \in [Streams -> [from : {"none", "connection"} \union Statements,
                            wrapped : BOOLEAN, valid : BOOLEAN]]
  /\ heap \subseteq Allocations \union Statements
  /\ driver.implemented \subseteq Slots10 \union Slots11
  /\ driver.table \subseteq Slots10 \union Slots11
  /\ ret.status \in StatusCodes \union DriverStatus
  /\ error \in [data : BOOLEAN, driver : BOOLEAN]

\* The two meanings of private_data are not confused.  What
\* AdbcDatabaseRelease, AdbcConnectionRelease and the option calls read as a
\* TempDatabase or TempConnection, data without a driver, is one: no failure of
\* an Init or New leaves any other such handle behind, and one of a Release only
\* when the driver kept the object it was asked to release.  Data with a driver
\* is the driver's, and each object that is allocated is the one its handle
\* points to, so a failed Init, too, leaves nothing that a later Release cannot
\* free (except the TempDatabase of a driver whose DatabaseNew failed).
HandlesMatchHeap ==
  /\ db.data = "temp" => "TempDatabase" \in heap /\ ~db.driver
  /\ db.data = "driver" <=> db.driver
  /\ db.driver <=> "database" \in heap
  /\ db.driver <=> {"driver", "AdbcDriver"} \intersect heap # {}
  /\ conn.data = "temp" <=> "TempConnection" \in heap
  /\ conn.driver <=> "connection" \in heap
  /\ conn.driver => conn.data = "driver"
  /\ Refused(conn) => "refused" \in heap
  /\ \A s \in Statements :
       /\ stmt[s].data = "driver" /\ stmt[s].driver <=> s \in heap
       /\ Refused(stmt[s]) => "refused" \in heap

DriverReferenced ==
  \/ conn.driver
  \/ \E s \in Statements : stmt[s].data # "null" /\ stmt[s].driver
  \/ \E x \in Streams : stream[x].wrapped

\* The AdbcDriver that connections, statements and wrapped streams point to is
\* the one the database owns: it is not freed while one of them points to it.
\* (A statement whose creation failed keeps a pointer that nobody uses.)
HandlesReachDriver == DriverReferenced => {"driver", "AdbcDriver"} \subseteq heap

\* Every function the API may dispatch to is in the table of a loaded driver,
\* an older (1.0.0) driver's too: no call goes through a null pointer.
LoadedTableComplete ==
  db.driver => Slots10 \union Slots11 \subseteq driver.table

\* AdbcErrorGetDetail reads the details of an error through private_driver.
\* After any call but AdbcDatabaseRelease they are still there: AdbcDatabaseInit
\* in particular, which frees the driver when it fails, returns a copy.
ErrorDetailsReachDriver ==
  error.data /\ error.driver /\ ret.call # <<"Database", "Release">>
    => {"driver", "AdbcDriver"} \subseteq heap

\* A connection that AdbcConnectionInit reports as initialized accepted every
\* option set before.
ConnectionOptionsAccepted ==
  ret = [call |-> <<"Connection", "Init">>, status |-> "OK"] => conn.options = {}

\* The same of a database: AdbcDatabaseInit passes the options on "as if by
\* DatabaseSetOption just before initialization" (adbc_driver_manager.h), so
\* the driver is initialized only with all of them.
DatabaseOptionsAccepted ==
  ret = [call |-> <<"Database", "Init">>, status |-> "OK"] => db.options = {}
============================================================================
