---------------------------- MODULE MCAdbcClient ----------------------------
(***************************************************************************)
(* AdbcClient with two operations, the second perhaps on the connection    *)
(* that the first has returned, bound data executed up to twice, and two   *)
(* drivers: a complete one, and one of ADBC 1.0.0 that has no more than    *)
(* what an operation needs to reach its first result.                      *)
(***************************************************************************)
EXTENDS AdbcClient

MCOptions == {Uri, [kind |-> "int", key |-> "port"]}

MCDriverTables ==
  {[versions |-> {"1.1.0", "1.0.0"}, slots |-> Slots10 \union Slots11],
   [versions |-> {"1.0.0"},
    slots |-> RequiredSlots \union {<<"Database", "SetOption">>,
                                    <<"Statement", "SetSqlQuery">>}]}
============================================================================
