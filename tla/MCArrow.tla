------------------------------- MODULE MCArrow -------------------------------
(***************************************************************************)
(* The two callers of the vendored nanoarrow library.  One builds an array *)
(* without children (ArrowLeafBuilder): one array of each kind of layout,  *)
(* values on both sides of the limits of its type, of the inline size of a *)
(* view, of a block and of the 32 bit offsets, and enough nulls to fill    *)
(* more than one byte of a bitmap.  The other (ArrowArrays) calls every    *)
(* setter with parameters on both sides of its limits, and some format     *)
(* strings that only other writers produce, and then builds arrays of each *)
(* kind of layout, with children of two layouts.  They share nothing, so   *)
(* in a behaviour only one of them is at work.                             *)
(***************************************************************************)
EXTENDS ArrowLeafBuilder, ArrowSchemas

MCTypes == {"na", "bool", "int8", "double", "decimal64", "interval_months",
            "string", "large_binary", "string_view", "fixed_size_binary"}
MCSizes == {2}
MCJunk == {{}, Byte}
MCInts == {0, 3, 300}
MCStrings == {<<>>, <<7, 8>>, <<7, 8, 9>>, <<4, 5, 6>>}
MCCounts == {0, 1, 8}

-----------------------------------------------------------------------------
(* The bounds of the caller of ArrowArrays.                                *)

None == [op |-> "type", type |-> "uninitialized", n |-> 0, scale |-> 0,
         run_ends |-> "int32", unit |-> "second", zone |-> "NULL", format |-> <<>>]

OfType(type) == [None EXCEPT !.type = type]

MCSetters ==
    LET C(op) == [None EXCEPT !.op = op]
        decimals == {<<"decimal32", 9>>, <<"decimal32", 10>>, <<"decimal64", 18>>,
                     <<"decimal128", 38>>, <<"decimal128", 39>>, <<"decimal256", 76>>,
                     <<"decimal128", 0>>, <<"decimal256", 77>>, <<"int32", 5>>}
        formats == {<<"w", ":">>, <<"d", ":", "5">>, <<"d", ":", "5", ",", "2", ",", "19">>,
                    <<"d", ":", "5", ",", "2", ",", "128">>, <<"+", "w", ":", "0">>,
                    <<"+", "u", "d", ":", "5", ",", "7">>, <<"t", "t", "s", "s">>,
                    <<"v", "l">>, <<"+", "v", "u">>, <<"?">>}
    IN  {OfType(t) : t \in DOMAIN ArrowSchemaFormatTemplate \cup
                           {"uninitialized", "timestamp"}}
        \cup {[C("struct") EXCEPT !.n = n] : n \in {0, 2}}
        \cup {[C("fixed") EXCEPT !.type = t, !.n = n] :
                t \in {"fixed_size_binary", "fixed_size_list", "list"}, n \in {0, 2}}
        \cup {[C("decimal") EXCEPT !.type = d[1], !.n = d[2], !.scale = s] :
                d \in decimals, s \in {-1, 2}}
        \cup {[C("run_ends") EXCEPT !.run_ends = t] : t \in {"int16", "int32", "int8"}}
        \cup {[C("time") EXCEPT !.type = t, !.unit = u, !.zone = z] :
                t \in {"timestamp", "time32", "time64", "duration", "date32"},
                u \in DOMAIN ArrowTimeUnitFormatString, z \in {"NULL", "UTC"}}
        \cup {[C("union") EXCEPT !.type = t, !.n = n] :
                t \in UnionTypes \cup {"struct"}, n \in {0, 2, 128}}
        \cup {[C("union") EXCEPT !.type = "sparse_union", !.n = 3]}
        \cup {[C("format") EXCEPT !.format = f] : f \in formats}

\* A first child (or a dictionary) is packed bits or has offsets; the others
\* are plain data.
MCChildSetters ==
    <<{OfType("bool"), OfType("string")}, {OfType("int8")}, {OfType("int8")}>>

MCBuildTypes ==
    {"bool", "int8", "uint8", "double", "decimal64", "interval_months", "na",
     "string", "string_view", "fixed_size_binary", "list", "large_list",
     "list_view", "fixed_size_list", "map", "struct", "dense_union",
     "sparse_union", "run_end_encoded"}

MCNumerals == -1..39 \cup {64, 76, 77, 128, 256}
TreeInts == {3, 300}
TreeStrings == {<<>>, <<7, 8>>, <<7, 8, 9>>}
TreeCounts == {1, 8}
TreeSlices == {0, 1, 7, 8, 9}
TreeCalls == 3
TreeBlockSize == 4

-----------------------------------------------------------------------------
(* The two callers.                                                        *)

VARIABLES
    caller,                                 \* the caller that is at work
    schema, asked, phase, level, tree, tree_log, tree_calls

treeVars == <<schema, asked, phase, level, tree, tree_log, tree_calls>>

Tree == INSTANCE ArrowArrays WITH
            array <- tree, log <- tree_log, calls <- tree_calls,
            Setters <- MCSetters, ChildSetters <- MCChildSetters,
            BuildTypes <- MCBuildTypes, Ints <- TreeInts, Strings <- TreeStrings,
            Counts <- TreeCounts, Slices <- TreeSlices, MaxCalls <- TreeCalls,
            BlockSize <- TreeBlockSize

MCInit ==
    /\ Init /\ Tree!Init
    /\ caller \in {"leaf", "tree"}
    /\ caller = "tree" => array.type = "na" /\ array.junk = {}

MCNext ==
    \/ caller = "leaf" /\ Next /\ UNCHANGED <<caller, treeVars>>
    \/ caller = "tree" /\ Tree!Next /\ UNCHANGED <<caller, vars>>

MCSpec == MCInit /\ [][MCNext]_<<caller, vars, treeVars>>

-----------------------------------------------------------------------------
(* The properties of ArrowArrays.                                          *)

\* A successful ArrowSchemaSetType* call is read back by ArrowSchemaViewInit as
\* the type and the parameters that were set (ArrowArrays!SchemaReadsBack).
SchemaReadsBack == Tree!SchemaReadsBack

\* An array built by any calls passes the tests of ArrowArrayFinishBuilding but
\* for the named exceptions (ArrowArrays!BuiltArraysAreValid).
BuiltArraysAreValid == Tree!BuiltArraysAreValid

\* An accepted array reads back what was appended (ArrowArrays!RoundTrip).
RoundTrip == Tree!RoundTrip

\* ArrowArrayFinishUnionElement refuses an element whose child was given no
\* value (ArrowArrays!UnionElementsHaveValues).
UnionElementsHaveValues == Tree!UnionElementsHaveValues
=============================================================================
