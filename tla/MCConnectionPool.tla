-------------------------- MODULE MCConnectionPool --------------------------
(***************************************************************************)
(* ConnectionPool with more clients than the pool may hold connections,    *)
(* and more connections than clients, so that every client can own one     *)
(* while another one is idle.                                              *)
(***************************************************************************)
EXTENDS ConnectionPool
=============================================================================
