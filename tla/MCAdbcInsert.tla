---------------------------- MODULE MCAdbcInsert ----------------------------
(***************************************************************************)
(* AdbcInsert on a small instance: chunks of at most two rows, a buffer of *)
(* two chunks, and inputs long enough to fill, drain and refill it.        *)
(***************************************************************************)
EXTENDS AdbcInsert
=============================================================================
