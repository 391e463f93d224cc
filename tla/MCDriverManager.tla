-------------------------- MODULE MCDriverManager --------------------------
(***************************************************************************)
(* DriverManager with one statement, two streams, two options of different *)
(* kinds, and three drivers: one that implements everything, one that      *)
(* knows ADBC 1.0.0 only and implements what is required, and one whose    *)
(* function table lacks a required function.                               *)
(***************************************************************************)
EXTENDS DriverManager, TLC

MCSymmetry == Permutations(Streams)

MCOptions == {[kind |-> "string", key |-> "username"],
              [kind |-> "int", key |-> "port"]}

MCDriverTables ==
  {[versions |-> {"1.1.0", "1.0.0"}, slots |-> Slots10 \union Slots11],
   [versions |-> {"1.0.0"}, slots |-> RequiredSlots],
   [versions |-> {"1.1.0"}, slots |-> RequiredSlots \ {<<"Statement", "ExecuteQuery">>}]}
============================================================================
