----------------------------- MODULE BulkInsert -----------------------------
(***************************************************************************)
(* What an INSERT or CREATE TABLE AS into an ADBC table promises, without  *)
(* threads, buffer or flags: the ADBC driver receives the rows of the      *)
(* query in order and is told that they are all there only when the query  *)
(* has produced them all; the statement succeeds only after that; and      *)
(* nothing is delivered once the statement has its result.                 *)
(***************************************************************************)
EXTENDS Naturals, Sequences

VARIABLES
    materialize, \* deliver nothing before the query has ended
    accepted,    \* rows the query has produced so far
    applied,     \* rows the driver has received
    sealed,      \* the driver has been told that the rows are complete
    phase        \* of the statement

vars == <<materialize, accepted, applied, sealed, phase>>

Phases == {"open", "closed", "ready", "failed", "aborted", "returned"}

Init ==
    /\ materialize \in BOOLEAN
    /\ accepted = 0
    /\ applied = <<>>
    /\ sealed = FALSE
    /\ phase = "open"

\* The query produces n more rows.
Accept ==
    /\ phase = "open"
    /\ accepted' \in Nat
    /\ accepted' > accepted
    /\ UNCHANGED <<materialize, applied, sealed, phase>>

\* The query has ended.
Close ==
    /\ phase = "open"
    /\ phase' = "closed"
    /\ UNCHANGED <<materialize, accepted, applied, sealed>>

\* The next rows reach the driver.  Those in flight may still do so after an
\* abort.
Deliver ==
    /\ phase \in {"open", "closed", "aborted"}
    /\ materialize => phase = "closed"
    /\ \E last \in (Len(applied) + 1)..accepted :
            applied' = [i \in 1..last |-> i]
    /\ UNCHANGED <<materialize, accepted, sealed, phase>>

\* The driver learns that it has all rows.
Seal ==
    /\ phase = "closed"
    /\ Len(applied) = accepted
    /\ sealed' = TRUE
    /\ UNCHANGED <<materialize, accepted, applied, phase>>

\* Success, for which an empty input needs no driver.
Succeed ==
    /\ phase = "closed"
    /\ sealed \/ accepted = 0
    /\ phase' = "ready"
    /\ UNCHANGED <<materialize, accepted, applied, sealed>>

Fail ==
    /\ phase \in {"open", "closed"}
    /\ phase' = "failed"
    /\ UNCHANGED <<materialize, accepted, applied, sealed>>

\* The query is interrupted, or fails elsewhere.
Abort ==
    /\ phase = "open"
    /\ phase' = "aborted"
    /\ UNCHANGED <<materialize, accepted, applied, sealed>>

\* The connection goes back to the pool.
Return ==
    /\ phase \in {"ready", "failed", "aborted"}
    /\ phase' = "returned"
    /\ UNCHANGED <<materialize, accepted, applied, sealed>>

Next ==
    \/ Accept
    \/ Close
    \/ Deliver
    \/ Seal
    \/ Succeed
    \/ Fail
    \/ Abort
    \/ Return

Spec == Init /\ [][Next]_vars
=============================================================================
