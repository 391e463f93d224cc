-------------------------- MODULE ArrowLeafBuilder --------------------------
(***************************************************************************)
(* A caller that builds an array without children with the vendored        *)
(* nanoarrow library: it starts an array of some storage type and appends  *)
(* values, empty elements and nulls to it in any order; a call that is     *)
(* refused leaves the array as it was.  The arrays that DuckDB's columns   *)
(* of numbers, strings and bytes are made of are of this kind; those with  *)
(* children are built in ArrowArrays.                                      *)
(*                                                                         *)
(* The variable log is no part of the program: it records what the array   *)
(* was told to hold, an element as it should be read back.                 *)
(***************************************************************************)
EXTENDS ArrowLeaves

CONSTANTS
    Types,         \* the storage types of which arrays are built
    Sizes,         \* the widths of fixed size binaries
    Junk,          \* what realloc may leave in the bytes of a new bitmap
    Ints, Strings, \* the values that are appended
    Counts,        \* how many empty elements are appended at once
    MaxCalls       \* model bound on the successful calls

LeafTypes ==
    {"na", "bool", "fixed_size_binary"} \cup IntegerTypes \cup FloatTypes
      \cup DecimalTypes \cup IntervalTypes \cup StringTypes \cup ViewTypes

\* ArrowSchemaSetTypeFixedSize refuses a width that is not positive.
ASSUME LeafBuilderAssumption ==
    /\ Types \subseteq LeafTypes
    /\ Sizes \subseteq Nat \ {0}
    /\ Junk \subseteq SUBSET Byte
    /\ Ints \subseteq Int
    /\ Strings \subseteq Seq(Nat)
    /\ Counts \subseteq Nat
    /\ MaxCalls \in Nat

VARIABLES
    array,  \* the ArrowArray
    log,    \* the elements it was told to hold
    calls   \* the successful calls so far

vars == <<array, log, calls>>

LayoutOf(type, size) ==
    ViewLayout([storage |-> type, fixed_size |-> size], ArrowLayoutInit(type))

\* ArrowArrayInitFromSchema and ArrowArrayStartAppending
Init ==
    /\ \E type \in Types, size \in Sizes, junk \in Junk :
          array = StartAppending(
                    NewNode([storage |-> type, layout |-> LayoutOf(type, size),
                             type_ids |-> <<>>], junk))
    /\ log = <<>>
    /\ calls = 0

Call(r, told) ==
    /\ calls < MaxCalls
    /\ array' = r.array
    /\ log' = IF r.rc = "OK" THEN log \o told ELSE log
    /\ calls' = IF r.rc = "OK" THEN calls + 1 ELSE calls

\* ArrowArrayAppendNull and ArrowArrayAppendEmpty
AppendEmpty(n, is_valid) ==
    LET e == IF is_valid /\ array.type # "na" THEN <<EmptyLeaf(array)>> ELSE Null
    IN  Call(Ok(IF n = 0 THEN array ELSE AppendEmptyNode(array, n, is_valid)),
             [k \in 1..n |-> e])

AppendInt(v) ==
    LET read == IF array.type = "bool" /\ v # 0 THEN 1 ELSE v
    IN  Call(AppendInteger(array, v), <<<<read>>>>)

AppendDouble(v) == Call(ArrowArrayAppendDouble(array, v), <<<<v>>>>)

AppendDecimal(n_words, v) ==
    Call(ArrowArrayAppendDecimal(array, n_words, v), <<<<v>>>>)

AppendInterval(type, v) ==
    Call(ArrowArrayAppendInterval(array, type, v), <<<<v>>>>)

AppendBytes(s) == Call(ArrowArrayAppendBytes(array, s), <<<<s>>>>)

AppendString(s) == Call(ArrowArrayAppendString(array, s), <<<<s>>>>)

Next ==
    \/ \E n \in Counts, is_valid \in BOOLEAN : AppendEmpty(n, is_valid)
    \/ \E v \in Ints : AppendInt(v)
    \/ \E v \in Ints : AppendDouble(v)
    \/ \E v \in Ints, n_words \in {0, 1, 2, 4} : AppendDecimal(n_words, v)
    \/ \E v \in Ints, type \in IntervalTypes : AppendInterval(type, v)
    \/ \E s \in Strings : AppendBytes(s)
    \/ \E s \in Strings : AppendString(s)

Spec == Init /\ [][Next]_vars

-----------------------------------------------------------------------------
(* Properties.                                                             *)

\* As long as no bits were written behind the memory of a boolean buffer:
\* whatever was appended, in whatever order, the array has an element for it,
\* null_count is the number of the nulls, and a view of the array from any
\* offset on reads exactly the values, nulls and empty elements that were
\* appended, once a boolean buffer has the size for all of its bits
\* (ArrowArrayAppend*, ArrowArrayView*Unsafe).
LeafReadsBack ==
    ~array.overrun =>
        /\ array.length = Len(log)
        /\ array.null_count = Cardinality({i \in 1..Len(log) : log[i] = Null})
        /\ ~ShortBits(array) =>
              \A o \in 0..array.length : \A i \in 1 .. array.length - o :
                  LeafElement([array EXCEPT !.offset = o], i) = log[o + i]

\* As long as no bits were written behind the memory of a boolean buffer: an
\* array that was built by the appends passes every test that
\* ArrowArrayFinishBuilding makes at any validation level, unless the size of
\* a boolean buffer is short, and no offset of a type with 32 bit offsets is
\* beyond INT32_MAX, however many calls were refused for that reason.
LeafIsValid ==
    ~array.overrun =>
        /\ ShortBits(array) \/ BuffersLargeEnough(array)
        /\ OffsetsLeadInto(array, BufferBytes(array, 3))
        /\ OffsetsAscend(array)
        /\ array.type \in Offsets32 =>
              \A i \in DOMAIN array.buf1 : array.buf1[i] <= Int32Max
=============================================================================
