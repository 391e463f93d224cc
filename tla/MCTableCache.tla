---------------------------- MODULE MCTableCache ----------------------------
(***************************************************************************)
(* TableCache with two sessions and a few table names, in environments     *)
(* that differ in what is done and in what may go wrong.                   *)
(***************************************************************************)
EXTENDS TableCache, TLC

In(clients, kinds, calls, others) ==
    [sessions |-> clients, statements |-> kinds, failures |-> calls,
     outsiders |-> others]

OneSession == {CHOOSE s \in Session : TRUE}

Everything ==
    In(Session, {"lookup", "scan", "create", "ctas"},
       {"request", "stream", "bind"}, TRUE)
Reads == In(Session, {"lookup", "scan"}, {"request"}, FALSE)
Creates == In(Session, {"lookup", "scan", "create"}, {"request", "stream"}, TRUE)
LoneSession == In(OneSession, {"lookup", "scan", "ctas"}, {"request"}, TRUE)

\* All kinds of use.
AllUses == {Everything, Reads, Creates, LoneSession}

\* One session creates tables and nothing goes wrong.
CreatesOnly == {In(OneSession, {"lookup", "create"}, {}, FALSE)}

\* Table names are interchangeable.
CacheSymmetry == Permutations(Table)
=============================================================================
