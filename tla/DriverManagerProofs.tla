------------------------ MODULE DriverManagerProofs ------------------------
(***************************************************************************)
(* Proofs about DriverManager for any number of statements and streams,    *)
(* any options, any drivers and any status a driver may return.            *)
(***************************************************************************)
EXTENDS DriverManager, TLAPS

\* A database that has a driver has both of its allocations.
DriverAllocated ==
  /\ "driver" \in heap <=> db.driver
  /\ "AdbcDriver" \in heap <=> db.driver

\* Who needs whom: a connection the database, a statement and an open stream
\* the connection.
Owned ==
  /\ conn.driver => db.driver
  /\ \A s \in Statements : stmt[s].data = "driver" /\ stmt[s].driver => conn.driver
  /\ \A x \in Streams : IsOpen(x) => conn.driver
  /\ \A x \in Streams : stream[x].wrapped => IsOpen(x)

\* The error of the last call has details that can be read.
DetailsInv ==
  error.data /\ error.driver /\ ret.call # <<"Database", "Release">> => db.driver

\* The handles with what they point to.
HandleInv == HandlesMatchHeap /\ DriverAllocated /\ Owned

\* The inductive invariant.
IndInv ==
  /\ TypeOK
  /\ HandleInv
  /\ LoadedTableComplete
  /\ DetailsInv
  /\ ConnectionOptionsAccepted

----------------------------------------------------------------------------
\* The calls that set or get an option are not mistaken for Init or Release.
LEMMA OptionSlots ==
  ASSUME NEW o \in Options
  PROVE  /\ SetSlot(o.kind) \in {"SetOption", "SetOptionBytes", "SetOptionInt",
                                 "SetOptionDouble"}
         /\ GetSlot(o.kind) \in Getters
  BY OptionsAssumption DEF Kinds, SetSlot, GetSlot, Getters

\* What a call of the driver returns is a status.
LEMMA OutcomesTyped ==
  ASSUME NEW object \in {"Database", "Connection", "Statement"}, NEW f
  PROVE  Outcomes(object, f) \subseteq StatusCodes \union DriverStatus
  BY DEF Outcomes, DatabaseStub, ConnectionStub, StatementStub, StatusCodes

\* A call that only forwards to the driver or only answers: no handle changes.
Quiet ==
  /\ UNCHANGED <<db, conn, stmt, heap, driver>>
  /\ ret'.call \notin {<<"Database", "Release">>, <<"Connection", "Init">>}
  /\ ret'.status \in StatusCodes \union DriverStatus
  /\ error' \in [data : BOOLEAN, driver : BOOLEAN]
  /\ error'.driver => db.driver

\* A call that changes no handle keeps the invariant.
LEMMA QuietStep ==
  ASSUME IndInv, Quiet, UNCHANGED stream
  PROVE  IndInv'
  <1>1. TypeOK'
    BY DEF IndInv, Quiet, TypeOK
  <1>2. HandleInv'
    BY DEF IndInv, Quiet, HandleInv, HandlesMatchHeap, Refused, DriverAllocated, Owned, IsOpen
  <1>3. LoadedTableComplete' /\ DetailsInv' /\ ConnectionOptionsAccepted'
    BY DEF IndInv, Quiet, LoadedTableComplete, DetailsInv, ConnectionOptionsAccepted
  <1> QED
    BY <1>1, <1>2, <1>3 DEF IndInv

\* Forwarding through a handle that has the database's driver.
LEMMA ForwardIsQuiet ==
  ASSUME IndInv, NEW handle, NEW object \in {"Database", "Connection", "Statement"},
         NEW f, handle.driver \in BOOLEAN, handle.driver => db.driver,
         <<object, f>> \notin {<<"Database", "Release">>, <<"Connection", "Init">>},
         Forward(handle, object, f), UNCHANGED <<db, conn, stmt, heap, driver>>
  PROVE  Quiet
  <1>1. PICK status \in Outcomes(object, f) :
          /\ Returns(<<object, f>>, status)
          /\ DriverError(handle, status)
    BY DEF Forward
  <1>2. status \in StatusCodes \union DriverStatus
    BY OutcomesTyped
  <1>3. ret'.call = <<object, f>> /\ ret'.status = status
    BY <1>1 DEF Returns
  <1>4. error' \in [data : BOOLEAN, driver : BOOLEAN] /\ error'.driver = handle.driver
    BY <1>1 DEF DriverError
  <1> QED
    BY <1>2, <1>3, <1>4 DEF Quiet

\* Most early returns only set the status and the error.
LEMMA AnswerIsQuiet ==
  ASSUME IndInv, NEW call, NEW status \in StatusCodes, Answer(call, status),
         call \notin {<<"Database", "Release">>, <<"Connection", "Init">>}
  PROVE  Quiet /\ UNCHANGED stream
  BY DEF Answer, Returns, ManagerError, NoError, Quiet

----------------------------------------------------------------------------
\* Calls on the database that change its handle.
LEMMA DatabaseNewStep ==
  ASSUME IndInv, db.data = "null", DatabaseNew
  PROVE  IndInv'
  <1>1. ~db.driver /\ ~conn.driver
    BY DEF IndInv, TypeOK, Handle, HandleInv, HandlesMatchHeap, Owned
  <1>2. TypeOK'
    BY DEF IndInv, DatabaseNew, TypeOK, Handle, Zero, Allocations, Returns, ManagerError,
           NoError, StatusCodes
  <1>3. HandleInv'
    BY <1>1, StatementsAssumption
       DEF IndInv, TypeOK, Handle, DatabaseNew, Zero, HandleInv, HandlesMatchHeap,
           Refused, DriverAllocated, Owned, IsOpen, Allocations
  <1>4. LoadedTableComplete' /\ DetailsInv' /\ ConnectionOptionsAccepted'
    BY DEF DatabaseNew, Zero, Returns, ManagerError, NoError, LoadedTableComplete,
           DetailsInv, ConnectionOptionsAccepted
  <1> QED
    BY <1>2, <1>3, <1>4 DEF IndInv

\* A database that has lost its temporary state and has no driver.
LEMMA DatabaseCleared ==
  ASSUME IndInv, ~db.driver, db' = Zero,
         heap' \in {heap, heap \ {"TempDatabase"}},
         UNCHANGED <<conn, stmt, stream, driver>>,
         ret'.call[1] = "Database",
         ret'.status \in StatusCodes \union DriverStatus,
         error' \in [data : BOOLEAN, driver : BOOLEAN], ~error'.data
  PROVE  IndInv'
  <1>1. TypeOK'
    BY DEF IndInv, TypeOK, Handle, Zero
  <1>2. HandleInv'
    BY StatementsAssumption
       DEF IndInv, TypeOK, Handle, Zero, HandleInv, HandlesMatchHeap, Refused, DriverAllocated,
           Owned, IsOpen, Allocations
  <1>3. LoadedTableComplete' /\ DetailsInv' /\ ConnectionOptionsAccepted'
    BY DEF Zero, LoadedTableComplete, DetailsInv, ConnectionOptionsAccepted
  <1> QED
    BY <1>1, <1>2, <1>3 DEF IndInv

\* AdbcDatabaseInit, whichever of its calls fails.
LEMMA DatabaseInitStep ==
  ASSUME IndInv, ~db.driver, DatabaseInit
  PROVE  IndInv'
  <1>1. CASE db.data = "null" /\ Answer(<<"Database", "Init">>, "INVALID_STATE")
    BY <1>1, AnswerIsQuiet, QuietStep DEF StatusCodes
  <1>2. CASE DatabaseInitNotLoaded
    <2>1. db'.data = "temp" /\ db'.driver = db.driver /\ db' \in Handle
      BY <1>2 DEF DatabaseInitNotLoaded, IndInv, TypeOK, Handle
    <2>2. /\ ret'.call = <<"Database", "Init">>
          /\ ret'.status \in StatusCodes \union DriverStatus
      BY <1>2 DEF DatabaseInitNotLoaded, Returns, LoadDriverFromInitFunc, StatusCodes
    <2>3. error' \in [data : BOOLEAN, driver : BOOLEAN] /\ ~error'.driver
      BY <1>2 DEF DatabaseInitNotLoaded
    <2>4. TypeOK'
      BY <1>2, <2>1, <2>2, <2>3 DEF DatabaseInitNotLoaded, IndInv, TypeOK
    <2>5. HandleInv'
      BY <1>2, <2>1
         DEF DatabaseInitNotLoaded, IndInv, HandleInv, HandlesMatchHeap, Refused, DriverAllocated,
             Owned, IsOpen
    <2>6. LoadedTableComplete' /\ DetailsInv' /\ ConnectionOptionsAccepted'
      BY <1>2, <2>1, <2>2, <2>3
         DEF IndInv, LoadedTableComplete, DetailsInv, ConnectionOptionsAccepted
    <2> QED
      BY <2>4, <2>5, <2>6 DEF IndInv
  <1>3. CASE DatabaseInitNewFails
    BY <1>3, DatabaseCleared DEF DatabaseInitNewFails, Returns, ManagerError, NoError
  <1>4. CASE DatabaseInitRejected
    <2>1. /\ ret'.call = <<"Database", "Init">>
          /\ ret'.status \in StatusCodes \union DriverStatus
      BY <1>4 DEF DatabaseInitRejected, SomeOptionRejected, Returns, StatusCodes
    <2> QED
      BY <1>4, <2>1, DatabaseCleared DEF DatabaseInitRejected, SomeOptionRejected
  <1>5. CASE DatabaseInitReached
    <2>1. PICK added \in SUBSET Options, t \in DriverTables :
            /\ LoadDriverFromInitFunc(t) = "OK"
            /\ \E accepted \in Acceptable(db.options \union added, t) :
                 db' = [data |-> "driver", driver |-> TRUE,
                        options |-> (db.options \union added) \ accepted]
            /\ driver' = LoadedTable(t)
      BY <1>5 DEF DatabaseInitReached
    <2>2. db'.data = "driver" /\ db'.driver = TRUE /\ db' \in Handle
      BY <2>1 DEF IndInv, TypeOK, Handle
    <2>3. PICK status \in DriverStatus :
            /\ Returns(<<"Database", "Init">>, status)
            /\ \E details \in BOOLEAN :
                 error' = [data |-> status # "OK" /\ details, driver |-> db'.driver]
      BY <1>5 DEF DatabaseInitReached, DriverError
    <2>4. ret'.call = <<"Database", "Init">> /\ ret'.status = status
      BY <2>3 DEF Returns
    <2>5. error' \in [data : BOOLEAN, driver : BOOLEAN]
      <3>1. db'.driver \in BOOLEAN
        BY <2>2 DEF Handle
      <3> QED
        BY <2>3, <3>1
    <2>6. /\ driver'.table = t.slots \union DefaultedSlots
          /\ driver'.implemented = t.slots
      BY <2>1 DEF LoadedTable
    <2>7. RequiredSlots \subseteq t.slots
      BY <2>1 DEF LoadDriverFromInitFunc
    <2>8. t.slots \subseteq Slots10 \union Slots11
      BY TablesAssumption
    <2>9. TypeOK'
      BY <1>5, <2>2, <2>4, <2>5, <2>6, <2>8
         DEF DatabaseInitReached, IndInv, TypeOK, DefaultedSlots, Allocations
    <2>10. HandleInv'
      BY <1>5, <2>2, StatementsAssumption
         DEF DatabaseInitReached, IndInv, TypeOK, HandleInv, HandlesMatchHeap,
             Refused, DriverAllocated, Owned, IsOpen, Allocations
    <2>11. LoadedTableComplete' /\ DetailsInv' /\ ConnectionOptionsAccepted'
      BY <2>2, <2>4, <2>6, <2>7
         DEF LoadedTableComplete, DetailsInv, ConnectionOptionsAccepted, DefaultedSlots
    <2> QED
      BY <2>9, <2>10, <2>11 DEF IndInv
  <1> QED
    BY <1>1, <1>2, <1>3, <1>4, <1>5 DEF DatabaseInit

\* AdbcDatabaseRelease, once no connection is left.
LEMMA DatabaseReleaseStep ==
  ASSUME IndInv, ~conn.driver, DatabaseRelease
  PROVE  IndInv'
  <1>1. CASE /\ ~db.driver /\ db.data = "null"
             /\ Answer(<<"Database", "Release">>, "INVALID_STATE")
    <2>1. UNCHANGED <<db, conn, stmt, stream, heap, driver>> /\ error' = NoError
          /\ ret' = [call |-> <<"Database", "Release">>, status |-> "INVALID_STATE"]
      BY <1>1 DEF Answer, ManagerError, Returns
    <2> QED
      BY <2>1
         DEF IndInv, TypeOK, HandleInv, HandlesMatchHeap, Refused, DriverAllocated, Owned, IsOpen,
             LoadedTableComplete, DetailsInv, ConnectionOptionsAccepted, NoError,
             StatusCodes
  <1>2. CASE /\ ~db.driver /\ db.data # "null"
             /\ db' = Zero
             /\ heap' = heap \ {"TempDatabase"}
             /\ Returns(<<"Database", "Release">>, "OK")
             /\ ManagerError
             /\ UNCHANGED <<conn, stmt, stream, driver>>
    BY <1>2, DatabaseCleared DEF Returns, ManagerError, NoError, StatusCodes
  <1>3. CASE /\ db.driver
             /\ \E kept \in BOOLEAN :
                  /\ ReleaseObject(db, "Database", kept)
                  /\ heap' = Freed({"database", "driver", "AdbcDriver"}, kept)
             /\ db' = Zero
             /\ driver' = NoDriver
             /\ UNCHANGED <<conn, stmt, stream>>
    <2>0. PICK kept \in BOOLEAN :
            /\ ReleaseObject(db, "Database", kept)
            /\ heap' = Freed({"database", "driver", "AdbcDriver"}, kept)
      BY <1>3
    <2>1. PICK status \in Outcomes("Database", "Release") :
            /\ Returns(<<"Database", "Release">>, status)
            /\ DriverError(db, status)
      BY <2>0 DEF ReleaseObject, Forward
    <2>8. \E rest \in SUBSET {"refused"} :
            heap' = (heap \ {"database", "driver", "AdbcDriver"}) \union rest
      BY <2>0 DEF Freed
    <2>2. status \in StatusCodes \union DriverStatus
      BY OutcomesTyped
    <2>3. ret'.call = <<"Database", "Release">> /\ ret'.status = status
      BY <2>1 DEF Returns
    <2>4. error' \in [data : BOOLEAN, driver : BOOLEAN]
      BY <2>1 DEF DriverError, IndInv, TypeOK, Handle
    <2>5. TypeOK'
      BY <1>3, <2>2, <2>3, <2>4, <2>8
         DEF IndInv, TypeOK, Handle, Zero, NoDriver, Allocations
    <2>6. HandleInv'
      <3>1. /\ \A s \in Statements : s \in heap' <=> s \in heap
            /\ "TempConnection" \in heap' <=> "TempConnection" \in heap
            /\ "connection" \in heap' <=> "connection" \in heap
            /\ "refused" \in heap => "refused" \in heap'
            /\ {"database", "driver", "AdbcDriver"} \intersect heap' = {}
        BY <2>8, StatementsAssumption DEF Allocations
      <3> QED
        BY <1>3, <3>1
           DEF IndInv, TypeOK, Handle, Zero, HandleInv, HandlesMatchHeap, Refused,
               DriverAllocated, Owned, IsOpen, Allocations
    <2>7. LoadedTableComplete' /\ DetailsInv' /\ ConnectionOptionsAccepted'
      BY <1>3, <2>3
         DEF Zero, LoadedTableComplete, DetailsInv, ConnectionOptionsAccepted
    <2> QED
      BY <2>5, <2>6, <2>7 DEF IndInv
  <1> QED
    BY <1>1, <1>2, <1>3 DEF DatabaseRelease

\* The calls that set and get options of a database.
LEMMA DatabaseOptionsStep ==
  ASSUME IndInv, ClientDatabaseOptions
  PROVE  IndInv'
  <1>0. db.driver \in BOOLEAN
    BY DEF IndInv, TypeOK, Handle
  <1>1. ASSUME NEW o \in Options, DatabaseSetOption(o)
        PROVE  IndInv'
    <2>1. CASE /\ db.driver
               /\ Forward(db, "Database", SetSlot(o.kind))
               /\ UNCHANGED <<db, conn, stmt, stream, heap, driver>>
      <3>1. <<"Database", SetSlot(o.kind)>> \notin
              {<<"Database", "Release">>, <<"Connection", "Init">>}
        BY OptionSlots
      <3>2. Forward(db, "Database", SetSlot(o.kind)) /\ UNCHANGED <<db, conn, stmt, heap, driver>>
        BY <2>1
      <3>3. Quiet
        BY <1>0, <3>1, <3>2, ForwardIsQuiet
      <3> QED
        BY <2>1, <3>3, QuietStep
    <2>2. CASE /\ ~db.driver /\ db.data = "null"
               /\ Answer(<<"Database", SetSlot(o.kind)>>, "INVALID_STATE")
      BY <2>2, OptionSlots, AnswerIsQuiet, QuietStep DEF StatusCodes
    <2>3. CASE /\ ~db.driver /\ db.data # "null"
               /\ db' = [db EXCEPT !.options = @ \union {o}]
               /\ Returns(<<"Database", SetSlot(o.kind)>>, "OK")
               /\ ManagerError
               /\ UNCHANGED <<conn, stmt, stream, heap, driver>>
      <3>1. db' \in Handle /\ db'.data = db.data /\ db'.driver = db.driver
        BY <2>3 DEF IndInv, TypeOK, Handle
      <3>2. /\ ret'.call = <<"Database", SetSlot(o.kind)>> /\ ret'.status \in StatusCodes
            /\ error' \in [data : BOOLEAN, driver : BOOLEAN] /\ ~error'.data
        BY <2>3 DEF Returns, ManagerError, NoError, StatusCodes
      <3>3. TypeOK'
        BY <2>3, <3>1, <3>2 DEF IndInv, TypeOK
      <3>4. HandleInv'
        BY <2>3, <3>1
           DEF IndInv, HandleInv, HandlesMatchHeap, Refused, DriverAllocated, Owned, IsOpen
      <3>5. LoadedTableComplete' /\ DetailsInv' /\ ConnectionOptionsAccepted'
        BY <2>3, <3>1, <3>2
           DEF IndInv, LoadedTableComplete, DetailsInv, ConnectionOptionsAccepted
      <3> QED
        BY <3>3, <3>4, <3>5 DEF IndInv
    <2> QED
      BY <1>1, <2>1, <2>2, <2>3 DEF DatabaseSetOption
  <1>2. ASSUME NEW o \in Options, DatabaseGetOption(o)
        PROVE  IndInv'
    <2>1. CASE /\ db.driver
               /\ Forward(db, "Database", GetSlot(o.kind))
               /\ UNCHANGED <<db, conn, stmt, stream, heap, driver>>
      <3>1. <<"Database", GetSlot(o.kind)>> \notin
              {<<"Database", "Release">>, <<"Connection", "Init">>}
        BY OptionSlots DEF Getters
      <3>2. Forward(db, "Database", GetSlot(o.kind)) /\ UNCHANGED <<db, conn, stmt, heap, driver>>
        BY <2>1
      <3>3. Quiet
        BY <1>0, <3>1, <3>2, ForwardIsQuiet
      <3> QED
        BY <2>1, <3>3, QuietStep
    <2>2. CASE /\ ~db.driver
               /\ Answer(<<"Database", GetSlot(o.kind)>>,
                         IF o \in db.options THEN "OK" ELSE "NOT_FOUND")
      BY <2>2, OptionSlots, AnswerIsQuiet, QuietStep DEF StatusCodes, Getters
    <2> QED
      BY <1>2, <2>1, <2>2 DEF DatabaseGetOption
  <1>3. ASSUME DatabaseConfigure
        PROVE  IndInv'
    BY <1>3, AnswerIsQuiet, QuietStep DEF DatabaseConfigure, StatusCodes
  <1> QED
    BY <1>1, <1>2, <1>3 DEF ClientDatabaseOptions

----------------------------------------------------------------------------
\* Calls on the connection.  Init ends with a handle of the driver's, or none.
LEMMA ConnectionOptionsStep ==
  ASSUME IndInv, ClientConnectionOptions
  PROVE  IndInv'
  <1>0. conn.driver \in BOOLEAN /\ (conn.driver => db.driver)
    BY DEF IndInv, TypeOK, Handle, HandleInv, Owned
  <1>1. PICK o \in Options : ConnectionSetOption(o) \/ ConnectionGetOption(o)
    BY DEF ClientConnectionOptions
  <1>2. /\ <<"Connection", SetSlot(o.kind)>> \notin
             {<<"Database", "Release">>, <<"Connection", "Init">>}
        /\ <<"Connection", GetSlot(o.kind)>> \notin
             {<<"Database", "Release">>, <<"Connection", "Init">>}
    BY OptionSlots DEF Getters
  <1>3. CASE ConnectionSetOption(o)
    <2>1. CASE Answer(<<"Connection", SetSlot(o.kind)>>, "INVALID_STATE")
      BY <1>2, <2>1, AnswerIsQuiet, QuietStep DEF StatusCodes
    <2>2. CASE /\ conn.data # "null" /\ ~conn.driver
               /\ conn' = [conn EXCEPT !.options = @ \union {o}]
               /\ Returns(<<"Connection", SetSlot(o.kind)>>, "OK")
               /\ ManagerError
               /\ UNCHANGED <<db, stmt, stream, heap, driver>>
      <3>1. conn' \in Handle /\ conn'.data = conn.data /\ conn'.driver = conn.driver
        BY <2>2 DEF IndInv, TypeOK, Handle
      <3>2. /\ ret'.call = <<"Connection", SetSlot(o.kind)>>
            /\ ret'.status \in StatusCodes
            /\ error' \in [data : BOOLEAN, driver : BOOLEAN] /\ ~error'.data
        BY <2>2 DEF Returns, ManagerError, NoError, StatusCodes
      <3>3. TypeOK'
        BY <2>2, <3>1, <3>2 DEF IndInv, TypeOK
      <3>4. HandleInv'
        BY <2>2, <3>1
           DEF IndInv, HandleInv, HandlesMatchHeap, Refused, DriverAllocated, Owned, IsOpen
      <3>5. LoadedTableComplete' /\ DetailsInv' /\ ConnectionOptionsAccepted'
        BY <1>2, <2>2, <3>2
           DEF IndInv, LoadedTableComplete, DetailsInv, ConnectionOptionsAccepted
      <3> QED
        BY <3>3, <3>4, <3>5 DEF IndInv
    <2>3. CASE /\ Forward(conn, "Connection", SetSlot(o.kind))
               /\ UNCHANGED <<db, conn, stmt, stream, heap, driver>>
      BY <1>0, <1>2, <2>3, ForwardIsQuiet, QuietStep
    <2> QED
      BY <1>3, <2>1, <2>2, <2>3 DEF ConnectionSetOption
  <1>4. CASE ConnectionGetOption(o)
    <2>1. CASE \E status \in {"INVALID_STATE", "OK", "NOT_FOUND"} :
                 Answer(<<"Connection", GetSlot(o.kind)>>, status)
      BY <1>2, <2>1, AnswerIsQuiet, QuietStep DEF StatusCodes
    <2>2. CASE /\ Forward(conn, "Connection", GetSlot(o.kind))
               /\ UNCHANGED <<db, conn, stmt, stream, heap, driver>>
      BY <1>0, <1>2, <2>2, ForwardIsQuiet, QuietStep
    <2> QED
      BY <1>4, <2>1, <2>2 DEF ConnectionGetOption
  <1> QED
    BY <1>1, <1>3, <1>4

\* AdbcConnectionNew.
LEMMA ConnectionNewStep ==
  ASSUME IndInv, Unmade(conn), ConnectionNew
  PROVE  IndInv'
  <1>1. ~conn.driver
    BY DEF IndInv, TypeOK, Handle, HandleInv, HandlesMatchHeap, Unmade, Refused
  <1>2. TypeOK'
    BY DEF IndInv, ConnectionNew, TypeOK, Handle, Zero, Allocations, Returns,
           ManagerError, NoError, StatusCodes
  <1>3. HandleInv'
    BY <1>1, StatementsAssumption
       DEF IndInv, TypeOK, Handle, ConnectionNew, Zero, HandleInv, HandlesMatchHeap,
           Refused, DriverAllocated, Owned, IsOpen, Allocations
  <1>4. LoadedTableComplete' /\ DetailsInv' /\ ConnectionOptionsAccepted'
    BY DEF IndInv, ConnectionNew, Returns, ManagerError, NoError, LoadedTableComplete,
           DetailsInv, ConnectionOptionsAccepted
  <1> QED
    BY <1>2, <1>3, <1>4 DEF IndInv

\* A connection without a driver is left with nothing: it was not made, or it
\* was released, and then nothing depended on it.  If the driver refused, its
\* data is all that is left.
LEMMA ConnectionCleared ==
  ASSUME IndInv, conn' \in Handle, ~conn'.driver, conn'.data # "temp", conn'.options = {},
         conn'.data = "driver" => "refused" \in heap',
         \/ ~conn.driver
         \/ /\ \A s \in Statements : Unmade(stmt[s])
            /\ \A x \in Streams : ~IsOpen(x),
         \/ heap' = heap \ {"TempConnection", "connection"}
         \/ heap' = (heap \ {"TempConnection", "connection"}) \union {"refused"},
         UNCHANGED <<db, stmt, stream, driver>>,
         ret'.call[1] = "Connection",
         ret'.status \in StatusCodes \union DriverStatus,
         error' \in [data : BOOLEAN, driver : BOOLEAN],
         error'.driver => db.driver
  PROVE  IndInv'
  <1>1. TypeOK'
    BY DEF IndInv, TypeOK, Allocations
  <1>2. HandleInv'
    <2>1. HandlesMatchHeap'
      BY StatementsAssumption
         DEF IndInv, TypeOK, HandleInv, HandlesMatchHeap, Refused, Allocations
    <2>2. DriverAllocated'
      BY DEF IndInv, HandleInv, DriverAllocated
    <2>3. Owned'
      BY DEF IndInv, TypeOK, HandleInv, Owned, IsOpen, Unmade, Refused
    <2> QED
      BY <2>1, <2>2, <2>3 DEF HandleInv
  <1>3. LoadedTableComplete' /\ DetailsInv' /\ ConnectionOptionsAccepted'
    BY DEF IndInv, LoadedTableComplete, DetailsInv, ConnectionOptionsAccepted
  <1> QED
    BY <1>1, <1>2, <1>3 DEF IndInv

\* A connection that the driver has made; some options may have been refused.
LEMMA ConnectionMade ==
  ASSUME IndInv, ~conn.driver, db.driver, NEW options \in SUBSET Options,
         conn' = [data |-> "driver", driver |-> TRUE, options |-> options],
         heap' = (heap \ {"TempConnection"}) \union {"connection"},
         UNCHANGED <<db, stmt, stream, driver>>,
         ret'.call = <<"Connection", "Init">>,
         ret'.status \in StatusCodes \union DriverStatus,
         ret'.status = "OK" => options = {},
         error' \in [data : BOOLEAN, driver : BOOLEAN]
  PROVE  IndInv'
  <1>1. TypeOK'
    BY DEF IndInv, TypeOK, Handle, Allocations
  <1>2. HandleInv'
    BY StatementsAssumption
       DEF IndInv, TypeOK, Handle, HandleInv, HandlesMatchHeap, Refused, DriverAllocated,
           Owned, IsOpen, Allocations
  <1>3. LoadedTableComplete' /\ DetailsInv' /\ ConnectionOptionsAccepted'
    BY DEF IndInv, LoadedTableComplete, DetailsInv, ConnectionOptionsAccepted
  <1> QED
    BY <1>1, <1>2, <1>3 DEF IndInv

\* AdbcConnectionInit, whichever of its calls fails.
LEMMA ConnectionInitStep ==
  ASSUME IndInv, ~conn.driver, ConnectionInit
  PROVE  IndInv'
  <1>0. conn.options \subseteq Options /\ "connection" \notin heap
    BY DEF IndInv, TypeOK, Handle, HandleInv, HandlesMatchHeap
  <1>1. ASSUME NEW status \in {"INVALID_STATE", "INVALID_ARGUMENT"},
               Answer(<<"Connection", "Init">>, status)
        PROVE  IndInv'
    <2>1. UNCHANGED <<db, conn, stmt, stream, heap, driver>> /\ error' = NoError
          /\ ret' = [call |-> <<"Connection", "Init">>, status |-> status]
      BY <1>1 DEF Answer, ManagerError, Returns
    <2> QED
      BY <2>1
         DEF IndInv, TypeOK, HandleInv, HandlesMatchHeap, Refused, DriverAllocated, Owned, IsOpen,
             LoadedTableComplete, DetailsInv, ConnectionOptionsAccepted, NoError,
             StatusCodes
  <1>2. CASE ConnectionInitNewFails
    <2>1. /\ heap' = heap \ {"TempConnection", "connection"}
          /\ conn' \in Handle /\ ~conn'.driver /\ conn'.data = "null"
          /\ conn'.options = {}
      BY <1>0, <1>2 DEF ConnectionInitNewFails, Handle, Zero
    <2>2. /\ ret'.call = <<"Connection", "Init">> /\ ret'.status \in DriverStatus
          /\ error' \in [data : BOOLEAN, driver : BOOLEAN] /\ ~error'.driver
      BY <1>2 DEF ConnectionInitNewFails, Returns
    <2> QED
      BY <1>2, <2>1, <2>2, ConnectionCleared DEF ConnectionInitNewFails
  <1>3. CASE ConnectionInitRejected
    <2>1. PICK accepted \in SUBSET conn.options :
            conn' = [data |-> "driver", driver |-> TRUE,
                     options |-> conn.options \ accepted]
      BY <1>3 DEF ConnectionInitRejected
    <2>2. /\ ret'.call = <<"Connection", "Init">> /\ ret'.status # "OK"
          /\ ret'.status \in StatusCodes \union DriverStatus
          /\ error' \in [data : BOOLEAN, driver : BOOLEAN]
      BY <1>3 DEF ConnectionInitRejected, Returns, StatusCodes
    <2> QED
      BY <1>0, <1>3, <2>1, <2>2, ConnectionMade DEF ConnectionInitRejected
  <1>4. CASE ConnectionInitReached
    <2>1. PICK status \in DriverStatus :
            /\ Returns(<<"Connection", "Init">>, status)
            /\ \E details \in BOOLEAN :
                 error' = [data |-> status # "OK" /\ details, driver |-> conn'.driver]
      BY <1>4 DEF ConnectionInitReached, DriverError
    <2>2. conn'.driver \in BOOLEAN
      BY <1>4 DEF ConnectionInitReached
    <2>3. /\ ret'.call = <<"Connection", "Init">> /\ ret'.status \in DriverStatus
          /\ error' \in [data : BOOLEAN, driver : BOOLEAN]
      BY <2>1, <2>2 DEF Returns
    <2> QED
      BY <1>4, <2>3, ConnectionMade DEF ConnectionInitReached
  <1> QED
    BY <1>1, <1>2, <1>3, <1>4 DEF ConnectionInit

\* AdbcConnectionRelease, once no statement and no stream is left.
LEMMA ConnectionReleaseStep ==
  ASSUME IndInv, ConnectionRelease,
         \A s \in Statements : Unmade(stmt[s]),
         \A x \in Streams : ~IsOpen(x)
  PROVE  IndInv'
  <1>0. conn.driver \in BOOLEAN /\ (conn.driver => db.driver)
    BY DEF IndInv, TypeOK, Handle, HandleInv, Owned
  <1>1. CASE Answer(<<"Connection", "Release">>, "INVALID_STATE")
    BY <1>1, AnswerIsQuiet, QuietStep DEF StatusCodes
  <1>2. CASE /\ ~conn.driver /\ conn.data # "null"
             /\ conn' = Zero
             /\ heap' = heap \ {"TempConnection"}
             /\ Returns(<<"Connection", "Release">>, "OK")
             /\ ManagerError
             /\ UNCHANGED <<db, stmt, stream, driver>>
    <2>1. /\ heap' = heap \ {"TempConnection", "connection"}
          /\ conn' \in Handle /\ ~conn'.driver /\ conn'.data = "null"
          /\ conn'.options = {}
      BY <1>2 DEF IndInv, HandleInv, HandlesMatchHeap, Handle, Zero
    <2> QED
      BY <1>2, <2>1, ConnectionCleared DEF Returns, ManagerError, NoError, StatusCodes
  <1>3. CASE /\ conn.driver
             /\ \E kept \in BOOLEAN :
                  /\ ReleaseObject(conn, "Connection", kept)
                  /\ conn' = [Zero EXCEPT !.data = IF kept THEN "driver" ELSE "null"]
                  /\ heap' = Freed({"connection"}, kept)
             /\ UNCHANGED <<db, stmt, stream, driver>>
    <2>0. PICK kept \in BOOLEAN :
            /\ ReleaseObject(conn, "Connection", kept)
            /\ conn' = [Zero EXCEPT !.data = IF kept THEN "driver" ELSE "null"]
            /\ heap' = Freed({"connection"}, kept)
      BY <1>3
    <2>1. PICK status \in Outcomes("Connection", "Release") :
            /\ Returns(<<"Connection", "Release">>, status)
            /\ DriverError(conn, status)
      BY <2>0 DEF ReleaseObject, Forward
    <2>2. status \in StatusCodes \union DriverStatus
      BY OutcomesTyped
    <2>3. ret'.call = <<"Connection", "Release">> /\ ret'.status = status
      BY <2>1 DEF Returns
    <2>4. error' \in [data : BOOLEAN, driver : BOOLEAN] /\ (error'.driver => db.driver)
      BY <1>0, <2>1 DEF DriverError
    <2>5. /\ \/ heap' = heap \ {"TempConnection", "connection"}
             \/ heap' = (heap \ {"TempConnection", "connection"}) \union {"refused"}
          /\ kept => "refused" \in heap'
      <3>1. "TempConnection" \notin heap
        BY <1>3 DEF IndInv, TypeOK, Handle, HandleInv, HandlesMatchHeap
      <3> QED
        BY <2>0, <3>1 DEF Freed
    <2>6. /\ conn' \in Handle /\ ~conn'.driver /\ conn'.data # "temp"
          /\ conn'.options = {}
          /\ conn'.data = "driver" => kept
      BY <2>0 DEF Handle, Zero
    <2> QED
      BY <1>3, <2>2, <2>3, <2>4, <2>5, <2>6, ConnectionCleared
  <1> QED
    BY <1>1, <1>2, <1>3 DEF ConnectionRelease

----------------------------------------------------------------------------
\* Calls that open or end streams, with the handles unchanged.
LEMMA StreamStep ==
  ASSUME IndInv, Quiet,
         stream' \in [Streams -> [from : {"none", "connection"} \union Statements,
                                  wrapped : BOOLEAN, valid : BOOLEAN]],
         \A x \in Streams : stream'[x].wrapped => stream'[x].from # "none",
         \A x \in Streams : stream'[x].from = stream[x].from
                              \/ stream'[x].from = "none" \/ conn.driver
  PROVE  IndInv'
  <1>1. TypeOK'
    BY DEF IndInv, Quiet, TypeOK
  <1>2. HandleInv'
    BY DEF IndInv, Quiet, HandleInv, HandlesMatchHeap, Refused, DriverAllocated, Owned, IsOpen
  <1>3. LoadedTableComplete' /\ DetailsInv' /\ ConnectionOptionsAccepted'
    BY DEF IndInv, Quiet, LoadedTableComplete, DetailsInv, ConnectionOptionsAccepted
  <1> QED
    BY <1>1, <1>2, <1>3 DEF IndInv

\* A stream that the driver has filled in knows where it is from.
LEMMA OpenedTyped ==
  ASSUME NEW from \in {"connection"} \union Statements
  PROVE  /\ Opened(from) \in [from : {"none", "connection"} \union Statements,
                              wrapped : BOOLEAN, valid : BOOLEAN]
         /\ Opened(from).from = from /\ from # "none"
  <1>1. (<<"Error", "FromArrayStream">> \in driver.implemented) \in BOOLEAN
    OBVIOUS
  <1>2. from # "none"
    BY StatementsAssumption
  <1> QED
    BY <1>1, <1>2 DEF Opened

\* Invalidating the streams of a statement keeps where they come from.
LEMMA InvalidatedTyped ==
  ASSUME TypeOK, NEW s \in Statements
  PROVE  /\ Invalidated(s) \in
              [Streams -> [from : {"none", "connection"} \union Statements,
                           wrapped : BOOLEAN, valid : BOOLEAN]]
         /\ \A x \in Streams : /\ Invalidated(s)[x].from = stream[x].from
                               /\ Invalidated(s)[x].wrapped = stream[x].wrapped
  <1>1. \A x \in Streams :
          /\ stream[x] \in [from : {"none", "connection"} \union Statements,
                           wrapped : BOOLEAN, valid : BOOLEAN]
          /\ [stream[x] EXCEPT !.valid = FALSE] \in
               [from : {"none", "connection"} \union Statements,
                wrapped : BOOLEAN, valid : BOOLEAN]
          /\ [stream[x] EXCEPT !.valid = FALSE].from = stream[x].from
          /\ [stream[x] EXCEPT !.valid = FALSE].wrapped = stream[x].wrapped
    BY DEF TypeOK
  <1>2. \A x \in Streams :
          Invalidated(s)[x] = IF stream[x].from = s
                              THEN [stream[x] EXCEPT !.valid = FALSE] ELSE stream[x]
    BY DEF Invalidated
  <1>3. \A x \in Streams :
          Invalidated(s)[x] \in [from : {"none", "connection"} \union Statements,
                                wrapped : BOOLEAN, valid : BOOLEAN]
    BY <1>1, <1>2
  <1>4. Invalidated(s) \in
          [Streams -> [from : {"none", "connection"} \union Statements,
                       wrapped : BOOLEAN, valid : BOOLEAN]]
    BY <1>3 DEF Invalidated
  <1> QED
    BY <1>1, <1>2, <1>4

\* The calls that are forwarded to the driver.
LEMMA ConnectionCallStep ==
  ASSUME IndInv, NEW f \in ConnectionCalls, ConnectionCall(f)
  PROVE  IndInv'
  <1>0. conn.driver \in BOOLEAN /\ (conn.driver => db.driver)
    BY DEF IndInv, TypeOK, Handle, HandleInv, Owned
  <1>1. <<"Connection", f>> \notin {<<"Database", "Release">>, <<"Connection", "Init">>}
    BY DEF ConnectionCalls
  <1>2. CASE Answer(<<"Connection", f>>, "INVALID_STATE")
    BY <1>1, <1>2, AnswerIsQuiet, QuietStep DEF StatusCodes
  <1>3. CASE /\ Forward(conn, "Connection", f)
             /\ UNCHANGED <<db, conn, stmt, stream, heap, driver>>
    BY <1>0, <1>1, <1>3, ForwardIsQuiet, QuietStep
  <1> QED
    BY <1>2, <1>3 DEF ConnectionCall

\* The calls on a connection that return a stream.
LEMMA ConnectionQueryStep ==
  ASSUME IndInv, NEW f \in ConnectionQueries, NEW x \in Streams, ConnectionQuery(f, x)
  PROVE  IndInv'
  <1>0. conn.driver \in BOOLEAN /\ (conn.driver => db.driver)
    BY DEF IndInv, TypeOK, Handle, HandleInv, Owned
  <1>1. <<"Connection", f>> \notin {<<"Database", "Release">>, <<"Connection", "Init">>}
    BY DEF ConnectionQueries
  <1>2. CASE Answer(<<"Connection", f>>, "INVALID_STATE")
    BY <1>1, <1>2, AnswerIsQuiet, QuietStep DEF StatusCodes
  <1>3. CASE /\ conn.driver
             /\ Forward(conn, "Connection", f)
             /\ stream' = IF ret'.status = "OK"
                          THEN [stream EXCEPT ![x] = Opened("connection")]
                          ELSE stream
             /\ UNCHANGED <<db, conn, stmt, heap, driver>>
    <2>0. Forward(conn, "Connection", f) /\ UNCHANGED <<db, conn, stmt, heap, driver>>
      BY <1>3
    <2>1. Quiet
      BY <1>0, <1>1, <2>0, ForwardIsQuiet
    <2>2. stream' \in [Streams -> [from : {"none", "connection"} \union Statements,
                                   wrapped : BOOLEAN, valid : BOOLEAN]]
      BY <1>3, OpenedTyped DEF IndInv, TypeOK
    <2>3. \A y \in Streams : stream'[y].wrapped => stream'[y].from # "none"
      BY <1>3, OpenedTyped DEF IndInv, TypeOK, HandleInv, Owned, IsOpen
    <2> QED
      BY <1>3, <2>1, <2>2, <2>3, StreamStep
  <1> QED
    BY <1>2, <1>3 DEF ConnectionQuery

----------------------------------------------------------------------------
\* Calls on a statement.  One that is used was made by the connection's driver.
LEMMA UsedStatement ==
  ASSUME IndInv, NEW s \in Statements, Usable(s), stmt[s].driver
  PROVE  stmt[s].data = "driver" /\ conn.driver /\ db.driver
  BY DEF IndInv, TypeOK, HandleInv, Owned, Usable, Refused

\* AdbcStatementNew.
LEMMA StatementNewStep ==
  ASSUME IndInv, NEW s \in Statements, Unmade(stmt[s]), StatementNew(s)
  PROVE  IndInv'
  <1>0. conn.driver \in BOOLEAN /\ (conn.driver => db.driver)
    BY DEF IndInv, TypeOK, Handle, HandleInv, Owned
  <1>1. CASE Answer(<<"Statement", "New">>, "INVALID_STATE")
    BY <1>1, AnswerIsQuiet, QuietStep DEF StatusCodes
  <1>2. CASE /\ conn.driver
             /\ Forward(conn, "Statement", "New")
             /\ IF ret'.status = "OK"
                THEN /\ stmt' = [stmt EXCEPT ![s] = [data |-> "driver", driver |-> TRUE]]
                     /\ heap' = heap \union {s}
                ELSE /\ stmt' = [stmt EXCEPT ![s] = [data |-> "null", driver |-> TRUE]]
                     /\ UNCHANGED heap
             /\ UNCHANGED <<db, conn, stream, driver>>
    <2>1. PICK status \in Outcomes("Statement", "New") :
            /\ Returns(<<"Statement", "New">>, status)
            /\ DriverError(conn, status)
      BY <1>2 DEF Forward
    <2>2. status \in StatusCodes \union DriverStatus
      BY OutcomesTyped
    <2>3. ret'.call = <<"Statement", "New">> /\ ret'.status = status
      BY <2>1 DEF Returns
    <2>4. error' \in [data : BOOLEAN, driver : BOOLEAN] /\ (error'.driver => db.driver)
      BY <1>0, <2>1 DEF DriverError
    <2>5. stmt' \in [Statements -> [data : {"null", "driver"}, driver : BOOLEAN]]
      <3>1. [data |-> "null", driver |-> TRUE] \in
              [data : {"null", "driver"}, driver : BOOLEAN]
        OBVIOUS
      <3>2. [data |-> "driver", driver |-> TRUE] \in
              [data : {"null", "driver"}, driver : BOOLEAN]
        OBVIOUS
      <3> QED
        BY <1>2, <3>1, <3>2 DEF IndInv, TypeOK
    <2>6. heap' \subseteq Allocations \union Statements
      BY <1>2 DEF IndInv, TypeOK
    <2>7. TypeOK'
      BY <1>2, <2>2, <2>3, <2>4, <2>5, <2>6 DEF IndInv, TypeOK
    <2>8. HandleInv'
      <3>1. CASE ret'.status = "OK"
        <4>1. HandlesMatchHeap'
          BY <1>2, <3>1, StatementsAssumption
             DEF IndInv, TypeOK, HandleInv, HandlesMatchHeap, Refused, Allocations
        <4>2. DriverAllocated' /\ Owned'
          BY <1>2, <3>1, StatementsAssumption
             DEF IndInv, TypeOK, HandleInv, DriverAllocated, Owned, IsOpen, Allocations
        <4> QED
          BY <4>1, <4>2 DEF HandleInv
      <3>2. CASE ret'.status # "OK"
        <4>1. HandlesMatchHeap'
          BY <1>2, <3>2, StatementsAssumption
             DEF IndInv, TypeOK, HandleInv, HandlesMatchHeap, Refused, Unmade, Allocations
        <4>2. DriverAllocated' /\ Owned'
          BY <1>2, <3>2, StatementsAssumption
             DEF IndInv, TypeOK, HandleInv, DriverAllocated, Owned, IsOpen, Allocations
        <4> QED
          BY <4>1, <4>2 DEF HandleInv
      <3> QED
        BY <3>1, <3>2
    <2>10. LoadedTableComplete' /\ DetailsInv' /\ ConnectionOptionsAccepted'
      BY <1>2, <2>3, <2>4
         DEF IndInv, LoadedTableComplete, DetailsInv, ConnectionOptionsAccepted
    <2> QED
      BY <2>7, <2>8, <2>10 DEF IndInv
  <1> QED
    BY <1>1, <1>2 DEF StatementNew

\* The calls on a statement that are forwarded to the driver.
LEMMA StatementCallStep ==
  ASSUME IndInv, NEW s \in Statements, Usable(s), NEW f, StatementCall(s, f)
  PROVE  IndInv'
  <1>0. stmt[s].driver \in BOOLEAN /\ (stmt[s].driver => db.driver)
    BY UsedStatement DEF IndInv, TypeOK
  <1>1. CASE Answer(<<"Statement", f>>, "INVALID_STATE")
    BY <1>1, AnswerIsQuiet, QuietStep DEF StatusCodes
  <1>2. CASE /\ Forward(stmt[s], "Statement", f)
             /\ UNCHANGED <<db, conn, stmt, stream, heap, driver>>
    <2>1. Quiet
      BY <1>0, <1>2, ForwardIsQuiet
    <2> QED
      BY <1>2, <2>1, QuietStep
  <1> QED
    BY <1>1, <1>2 DEF StatementCall

\* AdbcStatementExecuteQuery, with a stream and without.
LEMMA StatementExecuteStep ==
  ASSUME IndInv, NEW s \in Statements, Usable(s),
         \/ StatementUpdate(s)
         \/ \E x \in Streams : StatementExecuteQuery(s, x)
  PROVE  IndInv'
  <1>0. stmt[s].driver \in BOOLEAN /\ (stmt[s].driver => db.driver)
    BY UsedStatement DEF IndInv, TypeOK
  <1>1. CASE Answer(<<"Statement", "ExecuteQuery">>, "INVALID_STATE")
    BY <1>1, AnswerIsQuiet, QuietStep DEF StatusCodes
  <1>2. CASE /\ stmt[s].driver
             /\ Forward(stmt[s], "Statement", "ExecuteQuery")
             /\ \/ stream' = Invalidated(s)
                \/ \E x \in Streams : stream' = [Invalidated(s) EXCEPT ![x] = Opened(s)]
             /\ UNCHANGED <<db, conn, stmt, heap, driver>>
    <2>0. /\ Forward(stmt[s], "Statement", "ExecuteQuery")
          /\ UNCHANGED <<db, conn, stmt, heap, driver>>
      BY <1>2
    <2>1. Quiet
      BY <1>0, <2>0, ForwardIsQuiet
    <2>2. /\ Invalidated(s) \in
               [Streams -> [from : {"none", "connection"} \union Statements,
                            wrapped : BOOLEAN, valid : BOOLEAN]]
          /\ \A x \in Streams : /\ Invalidated(s)[x].from = stream[x].from
                                /\ Invalidated(s)[x].wrapped = stream[x].wrapped
      BY InvalidatedTyped DEF IndInv
    <2> DEFINE old == Invalidated(s)
               new == Opened(s)
    <2>3. /\ new \in [from : {"none", "connection"} \union Statements,
                      wrapped : BOOLEAN, valid : BOOLEAN]
          /\ new.from # "none"
      BY OpenedTyped
    <2>4. \/ stream' = old
          \/ \E x \in Streams : stream' = [old EXCEPT ![x] = new]
      BY <1>2
    <2> HIDE DEF old, new
    <2>5. stream' \in [Streams -> [from : {"none", "connection"} \union Statements,
                                   wrapped : BOOLEAN, valid : BOOLEAN]]
      BY <2>4, <2>3, <2>2 DEF old
    <2>6. \A y \in Streams : stream[y].wrapped => stream[y].from # "none"
      BY DEF IndInv, HandleInv, Owned, IsOpen
    <2>7. \A y \in Streams : stream'[y].wrapped => stream'[y].from # "none"
      BY <2>4, <2>3, <2>2, <2>6 DEF old
    <2>8. conn.driver
      BY <1>2, UsedStatement
    <2> QED
      BY <2>1, <2>5, <2>7, <2>8, StreamStep
  <1> QED
    BY <1>1, <1>2 DEF StatementUpdate, StatementExecuteQuery

\* AdbcStatementRelease, which ends the use of its streams.
LEMMA StatementReleaseStep ==
  ASSUME IndInv, NEW s \in Statements, Usable(s), StatementRelease(s)
  PROVE  IndInv'
  <1>0. stmt[s].driver \in BOOLEAN /\ (stmt[s].driver => db.driver)
    BY UsedStatement DEF IndInv, TypeOK
  <1>1. CASE Answer(<<"Statement", "Release">>, "INVALID_STATE")
    BY <1>1, AnswerIsQuiet, QuietStep DEF StatusCodes
  <1>2. CASE /\ stmt[s].driver
             /\ \E kept \in BOOLEAN :
                  /\ ReleaseObject(stmt[s], "Statement", kept)
                  /\ stmt' = [stmt EXCEPT ![s] =
                                [data |-> IF kept THEN "driver" ELSE "null",
                                 driver |-> FALSE]]
                  /\ heap' = Freed({s}, kept)
             /\ stream' = Invalidated(s)
             /\ UNCHANGED <<db, conn, driver>>
    <2>0. PICK kept \in BOOLEAN :
            /\ ReleaseObject(stmt[s], "Statement", kept)
            /\ stmt' = [stmt EXCEPT ![s] = [data |-> IF kept THEN "driver" ELSE "null",
                                            driver |-> FALSE]]
            /\ heap' = Freed({s}, kept)
      BY <1>2
    <2>1. PICK status \in Outcomes("Statement", "Release") :
            /\ Returns(<<"Statement", "Release">>, status)
            /\ DriverError(stmt[s], status)
      BY <2>0 DEF ReleaseObject, Forward
    <2>2. status \in StatusCodes \union DriverStatus
      BY OutcomesTyped
    <2>3. ret'.call = <<"Statement", "Release">> /\ ret'.status = status
      BY <2>1 DEF Returns
    <2>4. error' \in [data : BOOLEAN, driver : BOOLEAN] /\ (error'.driver => db.driver)
      BY <1>0, <2>1 DEF DriverError
    <2>5. /\ stream' \in [Streams -> [from : {"none", "connection"} \union Statements,
                                      wrapped : BOOLEAN, valid : BOOLEAN]]
          /\ \A x \in Streams : /\ stream'[x].from = stream[x].from
                                /\ stream'[x].wrapped = stream[x].wrapped
      BY <1>2, InvalidatedTyped DEF IndInv
    <2>6. stmt' \in [Statements -> [data : {"null", "driver"}, driver : BOOLEAN]]
      BY <2>0 DEF IndInv, TypeOK
    <2>11. heap' \subseteq Allocations \union Statements
      BY <2>0 DEF IndInv, TypeOK, Freed, Allocations
    <2>7. TypeOK'
      BY <1>2, <2>2, <2>3, <2>4, <2>5, <2>6, <2>11 DEF IndInv, TypeOK
    <2>12. /\ stmt'[s].driver = FALSE
           /\ stmt'[s].data = "driver" => "refused" \in heap'
           /\ \A r \in Statements \ {s} : stmt'[r] = stmt[r]
           /\ "TempDatabase" \in heap' <=> "TempDatabase" \in heap
           /\ "TempConnection" \in heap' <=> "TempConnection" \in heap
           /\ "AdbcDriver" \in heap' <=> "AdbcDriver" \in heap
           /\ "driver" \in heap' <=> "driver" \in heap
           /\ "database" \in heap' <=> "database" \in heap
           /\ "connection" \in heap' <=> "connection" \in heap
           /\ \A r \in Statements \ {s} : r \in heap' <=> r \in heap
           /\ s \notin heap'
           /\ "refused" \in heap => "refused" \in heap'
      BY <2>0, StatementsAssumption DEF IndInv, TypeOK, Freed, Allocations
    <2>13. UNCHANGED <<db, conn>>
      BY <1>2
    <2>8. HandlesMatchHeap'
      BY <2>12, <2>13 DEF IndInv, HandleInv, HandlesMatchHeap, Refused
    <2>9. DriverAllocated' /\ Owned'
      BY <2>5, <2>12, <2>13 DEF IndInv, HandleInv, DriverAllocated, Owned, IsOpen
    <2>10. LoadedTableComplete' /\ DetailsInv' /\ ConnectionOptionsAccepted'
      BY <1>2, <2>3, <2>4
         DEF IndInv, LoadedTableComplete, DetailsInv, ConnectionOptionsAccepted
    <2> QED
      BY <2>7, <2>8, <2>9, <2>10 DEF IndInv, HandleInv
  <1> QED
    BY <1>1, <1>2 DEF StatementRelease

\* The release of a stream, and its error.
LEMMA ClientStreamStep ==
  ASSUME IndInv, NEW x \in Streams, ClientStream(x)
  PROVE  IndInv'
  <1>1. CASE StreamRelease(x)
    <2>1. Quiet
      BY <1>1 DEF StreamRelease, Quiet, Returns, ManagerError, NoError, StatusCodes
    <2>2. stream' = [stream EXCEPT ![x] = NoStream]
      BY <1>1 DEF StreamRelease
    <2>3. stream' \in [Streams -> [from : {"none", "connection"} \union Statements,
                                   wrapped : BOOLEAN, valid : BOOLEAN]]
      BY <2>2 DEF IndInv, TypeOK, NoStream
    <2>4. \A y \in Streams : stream'[y].wrapped => stream'[y].from # "none"
      BY <2>2 DEF IndInv, TypeOK, NoStream, HandleInv, Owned, IsOpen
    <2>5. \A y \in Streams : stream'[y].from = stream[y].from
                               \/ stream'[y].from = "none" \/ conn.driver
      BY <2>2 DEF IndInv, TypeOK, NoStream
    <2> QED
      BY <2>1, <2>3, <2>4, <2>5, StreamStep
  <1>2. CASE ErrorFromArrayStream(x)
    <2>1. db.driver
      BY <1>2 DEF ErrorFromArrayStream, IndInv, HandleInv, Owned
    <2>2. Quiet /\ UNCHANGED stream
      BY <1>2, <2>1 DEF ErrorFromArrayStream, Quiet, Returns, StatusCodes
    <2> QED
      BY <2>2, QuietStep
  <1> QED
    BY <1>1, <1>2 DEF ClientStream

----------------------------------------------------------------------------
\* Zeroed structs satisfy the invariant.
LEMMA IndInit == ManagerInit => IndInv
  <1> SUFFICES ASSUME ManagerInit PROVE IndInv
    OBVIOUS
  <1>1. TypeOK
    BY DEF ManagerInit, TypeOK, Handle, Zero, NoDriver, NoStream, NoError, StatusCodes
  <1>2. HandleInv
    BY DEF ManagerInit, HandleInv, HandlesMatchHeap, Refused, DriverAllocated, Owned, IsOpen,
           Zero, NoStream
  <1>3. LoadedTableComplete /\ DetailsInv /\ ConnectionOptionsAccepted
    BY DEF ManagerInit, LoadedTableComplete, DetailsInv, ConnectionOptionsAccepted, Zero,
           NoError
  <1> QED
    BY <1>1, <1>2, <1>3 DEF IndInv

\* Every call that the contract allows keeps the invariant.
LEMMA IndStep == IndInv /\ [Next]_managerVars => IndInv'
  <1> SUFFICES ASSUME IndInv, [Next]_managerVars PROVE IndInv'
    OBVIOUS
  <1>1. CASE ClientDatabase
    BY <1>1, DatabaseNewStep, DatabaseInitStep, DatabaseReleaseStep DEF ClientDatabase
  <1>2. CASE ClientConnection
    BY <1>2, ConnectionNewStep, ConnectionInitStep, ConnectionCallStep,
       ConnectionReleaseStep
       DEF ClientConnection
  <1>3. CASE ClientMetadata
    BY <1>3, ConnectionQueryStep DEF ClientMetadata
  <1>4. ASSUME NEW s \in Statements, ClientStatement(s)
        PROVE  IndInv'
    BY <1>4, StatementNewStep, StatementCallStep, StatementExecuteStep,
       StatementReleaseStep
       DEF ClientStatement
  <1>5. ASSUME NEW s \in Statements, ClientStatementOptions(s)
        PROVE  IndInv'
    BY <1>5, StatementCallStep DEF ClientStatementOptions
  <1>6. CASE UNCHANGED managerVars
    BY <1>6
       DEF managerVars, IndInv, TypeOK, HandleInv, HandlesMatchHeap, Refused, DriverAllocated,
           Owned, IsOpen, LoadedTableComplete, DetailsInv, ConnectionOptionsAccepted
  <1> QED
    BY <1>1, <1>2, <1>3, <1>4, <1>5, <1>6, DatabaseOptionsStep, ConnectionOptionsStep,
       ClientStreamStep
       DEF Next

\* IndInv holds in every state a client that keeps the contract can reach.
THEOREM Inductive == Spec => []IndInv
  BY IndInit, IndStep, PTL DEF Spec

\* The structs and the function table have the fields and values of adbc.h
\* after every sequence of calls of AdbcXXX().
THEOREM TypeCorrect == Spec => []TypeOK
  <1>1. IndInv => TypeOK
    BY DEF IndInv
  <1> QED
    BY <1>1, Inductive, PTL

\* private_data without a driver is the manager's own whichever Init or New
\* failed before, unless a driver kept an object it was asked to release, and
\* what is allocated is what the handles point to.
THEOREM HandlesAndHeapAgree == Spec => []HandlesMatchHeap
  <1>1. IndInv => HandlesMatchHeap
    BY DEF IndInv, HandleInv
  <1> QED
    BY <1>1, Inductive, PTL

\* AdbcDatabaseRelease never frees the AdbcDriver under a connection, a
\* statement or a wrapped stream.
THEOREM DriverOutlivesHandles == Spec => []HandlesReachDriver
  <1>1. IndInv => HandlesReachDriver
    BY DEF IndInv, TypeOK, HandleInv, DriverAllocated, Owned, HandlesReachDriver,
           DriverReferenced
  <1> QED
    BY <1>1, Inductive, PTL

\* No AdbcXXX() call goes through a null pointer of the driver's table,
\* whichever version the driver was written for.
THEOREM TableIsComplete == Spec => []LoadedTableComplete
  <1>1. IndInv => LoadedTableComplete
    BY DEF IndInv
  <1> QED
    BY <1>1, Inductive, PTL

\* AdbcErrorGetDetail finds the driver that made the details.
THEOREM DetailsAreReadable == Spec => []ErrorDetailsReachDriver
  <1>1. IndInv => ErrorDetailsReachDriver
    BY DEF IndInv, HandleInv, DriverAllocated, DetailsInv, ErrorDetailsReachDriver
  <1> QED
    BY <1>1, Inductive, PTL

\* AdbcConnectionInit reports success only when no option was refused.
THEOREM NoConnectionOptionLost == Spec => []ConnectionOptionsAccepted
  <1>1. IndInv => ConnectionOptionsAccepted
    BY DEF IndInv
  <1> QED
    BY <1>1, Inductive, PTL
============================================================================
