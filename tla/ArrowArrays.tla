----------------------------- MODULE ArrowArrays -----------------------------
(***************************************************************************)
(* The array builder, the validator and the reader of the vendored         *)
(* nanoarrow library (adbc_nanoarrow.h, adbc_nanoarrow.cpp).  A caller     *)
(* sets the types of a schema, makes an array of it, appends to the nodes  *)
(* of the array in any order it likes, goes on after a call that was       *)
(* refused, and finishes it at some validation level.                      *)
(*                                                                         *)
(* What is done to one node alone is in ArrowLeaves.  The variable log is  *)
(* no part of the program: it records what each node was told to hold.     *)
(***************************************************************************)
EXTENDS ArrowSchemas, ArrowLeaves, SequencesExt

CONSTANTS
    Setters,       \* the calls that set the type of the root
    ChildSetters,  \* [position |-> the calls that set the type of that child]
    BuildTypes,    \* the storage types of which arrays are built
    Ints, Strings, \* the values that are appended
    Counts,        \* how many empty elements are appended at once
    Slices,        \* where the slices begin that are read
    MaxCalls       \* model bound on the calls that changed an array

VARIABLES
    schema,        \* the root ArrowSchema
    asked,         \* [path |-> the setters called on the schema at path]
    phase,         \* "schema", "building", "failed", "accepted" or "rejected"
    level,         \* the validation level FinishBuilding was called with
    array,         \* the root ArrowArray
    log,           \* [path |-> the elements the node at path was told to hold]
    calls          \* the calls so far that changed the array

vars == <<schema, asked, phase, level, array, log, calls>>

-----------------------------------------------------------------------------
(* The nodes of an array and the buffers of a node.                        *)

\* The children and the dictionary; a path counts the dictionary as the last.
Kids(x) == x.children \o x.dictionary

RECURSIVE Paths(_)
Paths(x) == {<<>>} \cup UNION {{<<i>> \o p : p \in Paths(Kids(x)[i])} :
                               i \in DOMAIN Kids(x)}

RECURSIVE At(_, _)
At(x, p) == IF p = <<>> THEN x ELSE At(Kids(x)[p[1]], Tail(p))

RECURSIVE Put(_, _, _)
Put(x, p, y) ==
    CASE p = <<>> -> y
      [] p # <<>> /\ p[1] <= Len(x.children) ->
            [x EXCEPT !.children[p[1]] = Put(@, Tail(p), y)]
      [] OTHER -> [x EXCEPT !.dictionary[1] = Put(@, Tail(p), y)]

-----------------------------------------------------------------------------
(* Making an array of a schema.                                            *)

RECURSIVE ArrowArrayViewInitFromSchema(_)
ArrowArrayViewInitFromSchema(s) ==
    /\ ArrowSchemaViewInit(s).ok
    /\ \A i \in DOMAIN Kids(s) : ArrowArrayViewInitFromSchema(Kids(s)[i])

RECURSIVE ArrowArrayInitFromArrayView(_, _)
ArrowArrayInitFromArrayView(s, junk) ==
    [NewNode(ArrowSchemaViewInit(s), junk) EXCEPT
        !.children = [i \in DOMAIN s.children |->
                        ArrowArrayInitFromArrayView(s.children[i], junk)],
        !.dictionary = [i \in DOMAIN s.dictionary |->
                        ArrowArrayInitFromArrayView(s.dictionary[i], junk)]]

\* Only the root learns whether its type ids are the indices of its children.
ArrowArrayInitFromSchema(s, junk) ==
    LET a == ArrowArrayInitFromArrayView(s, junk)
        n == Len(s.children)
    IN  [a EXCEPT !.id_is_index = a.type \in UnionTypes =>
                    a.type_ids = [k \in 1..n |-> k - 1]]

RECURSIVE CanAppend(_)
CanAppend(a) ==
    /\ a.type \in UnionTypes => a.id_is_index
    /\ \A i \in DOMAIN Kids(a) : CanAppend(Kids(a)[i])

RECURSIVE ArrowArrayStartAppending(_)
ArrowArrayStartAppending(a) ==
    LET Start(xs) == [i \in DOMAIN xs |-> ArrowArrayStartAppending(xs[i])]
    IN  [StartAppending(a) EXCEPT !.children = Start(@), !.dictionary = Start(@)]

-----------------------------------------------------------------------------
(* Appending.                                                              *)

\* Offsets of a dense union are cast to 32 bits.
Int32(x) == ((x + Int32Max + 1) % (2 * (Int32Max + 1))) - Int32Max - 1

RECURSIVE AppendEmptyInternal(_, _, _)
AppendEmptyInternal(a, n, is_valid) ==
    LET first == a.children[1]
        Empty(k) == [i \in DOMAIN a.children |->
                        AppendEmptyInternal(a.children[i], k, TRUE)]
        Many(e) == [j \in 1..n |-> e]
        b == CASE a.type = "fixed_size_list" ->
                    [a EXCEPT !.children = Empty(n * a.layout.child_size)]
               [] a.type = "struct" -> [a EXCEPT !.children = Empty(n)]
               [] OTHER -> a
    IN  CASE n = 0 -> a
          [] n > 0 /\ a.type = "dense_union" ->
                [a EXCEPT !.children[1] = AppendEmptyInternal(first, 1, is_valid),
                          !.buf0 = @ \o Many(0),
                          !.buf1 = @ \o Many(Int32(first.length + 1) - 1),
                          !.length = @ + n]
          [] n > 0 /\ a.type = "sparse_union" ->
                [a EXCEPT !.children = [Empty(n) EXCEPT ![1] =
                                AppendEmptyInternal(first, n, is_valid)],
                          !.buf0 = @ \o Many(0), !.length = @ + n]
          [] OTHER -> AppendEmptyNode(b, n, is_valid)

ArrowArrayFinishElement(a) ==
    LET n == a.children[1].length
        b == CASE a.layout.buffer[2] = "offset" -> [a EXCEPT !.buf1 = Append(@, n)]
               [] a.type \in ListViews ->
                    [a EXCEPT !.buf1 = Append(@, a.list_view_offset),
                              !.buf2 = Append(@, n - a.list_view_offset),
                              !.list_view_offset = n]
               [] OTHER -> a
    IN  CASE a.type \notin ListTypes \cup {"map", "struct"} -> Error("EINVAL", a)
          [] a.type \in {"list", "map", "list_view"} /\ n > Int32Max ->
                Error("EOVERFLOW", a)
          [] a.type = "fixed_size_list" /\ n # (a.length + 1) * a.layout.child_size ->
                Error("EINVAL", a)
          [] /\ a.type = "struct"
             /\ \E i \in DOMAIN a.children : a.children[i].length # a.length + 1 ->
                Error("EINVAL", a)
          [] OTHER -> AppendValid(b)

\* The children of a sparse union that cannot be brought into step with a new
\* element of child id + 1.
StuckChildren(a, id) ==
    {i \in DOMAIN a.children \ {id + 1} :
        a.children[i].length \notin {a.length, a.length + 1}}

\* The children that a sparse union extends run up to the first stuck one.
ExtendOthers(a, id) ==
    LET grown == {i \in DOMAIN a.children \ {id + 1} :
                    /\ a.children[i].length = a.length
                    /\ \A k \in StuckChildren(a, id) : i < k}
    IN  [a EXCEPT !.children = [i \in DOMAIN a.children |->
            IF i \in grown THEN AppendEmptyInternal(a.children[i], 1, TRUE)
                           ELSE a.children[i]]]

\* The common end: the type id and the length.
AddTypeId(a, id) == [a EXCEPT !.buf0 = Append(@, id), !.length = @ + 1]

FinishUnionCountedFirst(a, id) ==
    LET b == AddTypeId(ExtendOthers(a, id), id)
        n == a.children[id + 1].length
    IN  CASE id + 1 \notin DOMAIN a.children -> Error("EINVAL", a)
          [] a.type = "dense_union" /\ id + 1 \in DOMAIN a.children ->
                IF n > Int32Max THEN Error("EINVAL", a)
                ELSE Ok(AddTypeId([a EXCEPT !.buf1 = Append(@, n - 1)], id))
          [] a.type = "sparse_union" /\ id + 1 \in DOMAIN a.children ->
                IF StuckChildren(a, id) # {} THEN Error("EINVAL", b) ELSE Ok(b)
          [] OTHER -> Error("EINVAL", a)
ArrowArrayFinishUnionElement(a, id) ==
    LET b == ExtendOthers(a, id)
        n == a.children[id + 1].length
    IN  CASE id + 1 \notin DOMAIN a.children -> Error("EINVAL", a)
          [] a.type = "dense_union" /\ id + 1 \in DOMAIN a.children ->
                IF n > Int32Max THEN Error("EINVAL", a)
                ELSE Ok(AddTypeId([a EXCEPT !.buf1 = Append(@, n - 1)], id))
          [] a.type = "sparse_union" /\ id + 1 \in DOMAIN a.children ->
                IF StuckChildren(a, id) # {} THEN Error("EINVAL", b)
                                             ELSE Ok(AddTypeId(b, id))
          [] OTHER -> Error("EINVAL", a)

-----------------------------------------------------------------------------
(* Validation.  A node is looked at from its offset on.                    *)

\* The largest value of the run ends; the wider types cannot be exceeded here.
RunEndMax(type) == IF type = "int16" THEN 32767 ELSE 2147483647

MinimalRunEnds(a) ==
    LET ends == a.children[1]
        values == a.children[2]
    IN  /\ ends.type \in {"int16", "int32", "int64"}
        /\ a.offset + a.length <= RunEndMax(ends.type)
        /\ ends.length <= values.length
        /\ ends.length = 0 => values.length = 0
        /\ ends.null_count = 0

RECURSIVE ArrowArrayViewValidateMinimal(_)
ArrowArrayViewValidateMinimal(a) ==
    LET n == a.offset + a.length
    IN  /\ a.length >= 0 /\ a.offset >= 0
        /\ BuffersLargeEnough(a)
        /\ a.type \in ListTypes \cup {"map"} => Len(a.children) = 1
        /\ a.type \in {"struct", "sparse_union"} =>
                \A i \in DOMAIN a.children : a.children[i].length >= n
        /\ a.type = "fixed_size_list" =>
                a.children[1].length >= n * a.layout.child_size
        /\ a.type = "run_end_encoded" => Len(a.children) = 2 /\ MinimalRunEnds(a)
        /\ \A i \in DOMAIN Kids(a) : ArrowArrayViewValidateMinimal(Kids(a)[i])

\* The offsets must lead into the data buffer or the child.
DefaultOffsets(a) ==
    OffsetsLeadInto(a, IF a.type \in StringTypes THEN BufferBytes(a, 3)
                                                ELSE a.children[1].length)

DefaultRunEnds(a) ==
    LET ends == a.children[1]
    IN  ends.length > 0 => /\ ends.buf1[1] >= 1
                           /\ ends.buf1[ends.length] >= a.offset + a.length

RECURSIVE ValidateOffsets(_)
ValidateOffsets(a) ==
    /\ DefaultOffsets(a)
    /\ a.type = "run_end_encoded" => DefaultRunEnds(a)
    /\ \A i \in DOMAIN Kids(a) : ValidateOffsets(Kids(a)[i])

ArrowArrayViewValidateDefault(a) ==
    ArrowArrayViewValidateMinimal(a) /\ ValidateOffsets(a)

\* The child an element of a union belongs to, or 0: by the map of the type
\* ids when the view was made of a schema, else the type id is the index.
UnionChild(a, i, mapped) ==
    LET id == a.buf0[a.offset + i]
    IN  IF ~mapped THEN id + 1
        ELSE IF \E k \in DOMAIN a.type_ids : a.type_ids[k] = id
             THEN CHOOSE k \in DOMAIN a.type_ids : a.type_ids[k] = id
             ELSE 0

\* A view that FinishBuilding makes of the array has no map of the type ids.
RECURSIVE ArrowArrayViewValidateFull(_, _)
ArrowArrayViewValidateFull(a, mapped) ==
    LET rows == a.offset + 1 .. a.offset + a.length
    IN  /\ OffsetsAscend(a)
        /\ a.type \in UnionTypes =>
                mapped /\ \A i \in 1..a.length : UnionChild(a, i, mapped) # 0
        /\ a.type = "dense_union" /\ mapped =>
                \A i \in 1..a.length :
                    LET at == a.buf1[a.offset + i]
                    IN  at >= 0 /\ at <= a.children[UnionChild(a, i, mapped)].length
        /\ a.type = "run_end_encoded" =>
                LET ends == a.children[1]
                IN  \A i \in 2..ends.length : ends.buf1[i] > ends.buf1[i - 1]
        /\ a.type \in ListViews =>
                \A i \in rows : /\ a.buf1[i] >= 0 /\ a.buf2[i] >= 0
                                /\ a.buf1[i] + a.buf2[i] <= a.children[1].length
        /\ \A i \in DOMAIN Kids(a) : ArrowArrayViewValidateFull(Kids(a)[i], mapped)

ArrowArrayViewValidate(a, at) ==
    CASE at = "none" -> TRUE
      [] at = "minimal" -> ArrowArrayViewValidateMinimal(a)
      [] at = "default" -> ArrowArrayViewValidateDefault(a)
      [] at = "full" -> /\ ArrowArrayViewValidateDefault(a)
                           /\ ArrowArrayViewValidateFull(a, FALSE)

\* The sizes of the variadic buffers are written down when the array is done.
RECURSIVE ArrowArrayFlushInternalPointers(_)
ArrowArrayFlushInternalPointers(a) ==
    LET Flush(xs) == [i \in DOMAIN xs |-> ArrowArrayFlushInternalPointers(xs[i])]
    IN  [a EXCEPT !.buf2 = IF a.variadic # <<>> /\ a.buf2 = <<>>
                           THEN [i \in DOMAIN a.variadic |-> Len(a.variadic[i])]
                           ELSE @,
                  !.children = Flush(@), !.dictionary = Flush(@)]

-----------------------------------------------------------------------------
(* Reading.  An element is <<>> when it is null and <<value>> otherwise.   *)

ArrowArrayViewComputeNullCount(a) ==
    CASE a.length = 0 -> 0
      [] a.length # 0 /\ a.type = "na" -> a.length
      [] a.type \in UnionTypes \/ a.buf0 = <<>> -> 0
      [] OTHER -> a.length - ArrowBitCountSet(a.buf0, a.offset, a.length)

\* The rows [from, to) of the child that a list element covers.
ListRange(a, k) ==
    CASE a.type = "fixed_size_list" ->
            <<(k - 1) * a.layout.child_size, k * a.layout.child_size>>
      [] a.type \in ListViews -> <<a.buf1[k], a.buf1[k] + a.buf2[k]>>
      [] OTHER -> <<a.buf1[k], a.buf1[k + 1]>>

\* The child and the row of it that hold an element of a union.
UnionElement(a, i) ==
    <<UnionChild(a, i, TRUE),
      IF a.type = "dense_union" THEN a.buf1[a.offset + i] ELSE a.offset + i - 1>>

Element(a, i) ==
    IF ArrowArrayViewIsNull(a, i) THEN Null
    ELSE CASE a.type \in {"struct", "run_end_encoded"} -> <<"row">>
           [] a.type \in ListTypes \cup {"map"} -> <<ListRange(a, a.offset + i)>>
           [] a.type \in UnionTypes -> <<UnionElement(a, i)>>
           [] OTHER -> LeafElement(a, i)

-----------------------------------------------------------------------------
(* What the nodes are told to hold.  An element is written as it is read.  *)

Rows(l, p, e) == [l EXCEPT ![p] = @ \o e]

\* The end of the last list of the node, where the next one begins.
LastEnd(l) == LET ends == {l[k][1][2] : k \in {k \in DOMAIN l : l[k] # Null}}
              IN  CHOOSE e \in ends \cup {0} : \A f \in ends : f <= e

EmptyElement(a, l, k) ==
    LET size == a.layout.child_size
        row  == Len(l) + k - 1
    IN  CASE a.type \in {"list", "large_list", "map"} -> <<LastEnd(l), LastEnd(l)>>
          [] a.type \in ListViews -> <<0, 0>>
          [] a.type = "fixed_size_list" -> <<row * size, (row + 1) * size>>
          [] a.type \in {"struct", "run_end_encoded"} -> "row"
          [] OTHER -> EmptyLeaf(a)

\* The rows of a child that were given for row k of a union, last being the
\* last of the child: of a sparse one those from k on, of a dense one the last
\* of all.  There should be one; there is none if the value was forgotten, and
\* there are several if the child of a sparse union was told too much.
RowsGiven(a, k, last) ==
    IF a.type = "dense_union" THEN IF last < 0 THEN <<>> ELSE <<last>>
    ELSE [j \in 1 .. last - k + 1 |-> k + j - 1]

\* n empty elements, or nulls, for the node at p: a union passes them to its
\* first child, a struct and a fixed size list give empty ones to theirs.
RECURSIVE TellEmpty(_, _, _, _, _), TellChildren(_, _, _, _, _)
TellEmpty(l, a, p, n, is_valid) ==
    LET first(k) == TellEmpty(l, a.children[1], Append(p, 1), k, is_valid)
        old == Len(l[Append(p, 1)])
        given(k) == RowsGiven(a, Len(l[p]) + k - 1,
                              IF a.type = "dense_union" THEN old ELSE old + k - 1)
        told == CASE a.type = "dense_union" -> first(1)
                  [] a.type = "sparse_union" -> TellChildren(first(n), a, p, 2, n)
                  [] a.type = "struct" -> TellChildren(l, a, p, 1, n)
                  [] a.type = "fixed_size_list" ->
                        TellChildren(l, a, p, 1, n * a.layout.child_size)
                  [] OTHER -> l
    IN  Rows(told, p, [k \in 1..n |->
            CASE a.type \in UnionTypes -> <<<<1>> \o given(k)>>
              [] a.type \notin UnionTypes /\ is_valid /\ a.type # "na" ->
                    <<EmptyElement(a, l[p], k)>>
              [] OTHER -> Null])
TellChildren(l, a, p, i, n) ==
    IF i > Len(a.children) THEN l
    ELSE TellChildren(TellEmpty(l, a.children[i], Append(p, i), n, TRUE),
                      a, p, i + 1, n)

TellElement(l, a, p) ==
    LET size == a.layout.child_size
        row  == Len(l[p])
    IN  CASE a.type = "struct" -> "row"
          [] a.type = "fixed_size_list" -> <<row * size, (row + 1) * size>>
          [] OTHER -> <<LastEnd(l[p]), Len(l[Append(p, 1)])>>

\* The other children of a sparse union are kept in step with it, up to the
\* first one that cannot be.
RECURSIVE TellOthers(_, _, _, _, _)
TellOthers(l, a, p, i, id) ==
    LET more == Len(l[Append(p, i)]) - Len(l[p])
    IN  CASE i > Len(a.children) \/ (i # id + 1 /\ more \notin {0, 1}) -> l
          [] i <= Len(a.children) /\ i # id + 1 /\ more = 0 ->
                TellOthers(TellEmpty(l, a.children[i], Append(p, i), 1, TRUE),
                           a, p, i + 1, id)
          [] OTHER -> TellOthers(l, a, p, i + 1, id)

TellUnion(l, a, p, id) ==
    LET last == Len(l[Append(p, id + 1)]) - 1
    IN  Rows(l, p, <<<<<<id + 1>> \o RowsGiven(a, Len(l[p]), last)>>>>)

-----------------------------------------------------------------------------
(* The caller.                                                             *)

Init ==
    /\ schema = ArrowSchemaInit /\ asked = (<<>> :> <<>>)
    /\ phase = "schema" /\ level = "none"
    /\ array = NewNode(NoView @@ [layout |-> ArrowLayoutInit("uninitialized")], {})
    /\ log = (<<>> :> <<>>) /\ calls = 0

Apply(s, c) ==
    CASE c.op = "type" -> ArrowSchemaSetType(s, c.type)
      [] c.op = "struct" -> ArrowSchemaSetTypeStruct(s, c.n)
      [] c.op = "fixed" -> ArrowSchemaSetTypeFixedSize(s, c.type, c.n)
      [] c.op = "decimal" -> ArrowSchemaSetTypeDecimal(s, c.type, c.n, c.scale)
      [] c.op = "run_ends" -> ArrowSchemaSetTypeRunEndEncoded(s, c.run_ends)
      [] c.op = "time" -> ArrowSchemaSetTypeDateTime(s, c.type, c.unit, c.zone)
      [] c.op = "union" -> ArrowSchemaSetTypeUnion(s, c.type, c.n)
      [] c.op = "format" -> Done(ArrowSchemaSetFormat(s, c.format))

\* The root may be set once more while its children are untouched.
SetType(p, c) ==
    LET r == Apply(At(schema, p), c)
    IN  /\ phase = "schema"
        /\ IF p = <<>> THEN DOMAIN asked = {<<>>} /\ Len(asked[p]) < 2
                       ELSE At(schema, p).format = <<>> /\ p \notin DOMAIN asked
        /\ schema' = Put(schema, p, r.schema)
        /\ asked' = (p :> Append(IF p \in DOMAIN asked THEN asked[p] ELSE <<>>,
                                 [call |-> c, rc |-> r.rc])) @@ asked
        /\ UNCHANGED <<phase, level, array, log, calls>>

SetDictionary(c) ==
    LET r == ArrowSchemaAllocateDictionary(schema)
        p == <<Len(schema.children) + 1>>
    IN  /\ phase = "schema" /\ DOMAIN asked = {<<>>} /\ Len(asked[<<>>]) = 1
        /\ r.rc = "OK"
        /\ schema' = [r.schema EXCEPT !.dictionary[1] = Apply(@, c).schema]
        /\ asked' = (p :> <<[call |-> c, rc |-> Apply(ArrowSchemaInit, c).rc]>>)
                    @@ asked
        /\ UNCHANGED <<phase, level, array, log, calls>>

\* Arrays are built of schemas whose types were set once (a bound).
InitArray(junk) ==
    LET a == ArrowArrayInitFromSchema(schema, junk)
    IN  /\ phase = "schema" /\ \A p \in DOMAIN asked : Len(asked[p]) = 1
        /\ ArrowArrayViewInitFromSchema(schema)
        /\ a.type \in BuildTypes
        /\ phase' = IF CanAppend(a) THEN "building" ELSE "failed"
        /\ array' = IF CanAppend(a) THEN ArrowArrayStartAppending(a) ELSE a
        /\ log' = [p \in Paths(a) |-> <<>>]
        /\ UNCHANGED <<schema, asked, level, calls>>

\* The log becomes done if the call succeeds, and left if it is refused.
CallOrLeave(p, r, done, left) ==
    /\ phase = "building" /\ calls < MaxCalls
    /\ array' = Put(array, p, r.array)
    /\ log' = IF r.rc = "OK" THEN done ELSE left
    /\ calls' = IF r.rc = "OK" \/ array' # array THEN calls + 1 ELSE calls
    /\ UNCHANGED <<schema, asked, phase, level>>

Call(p, r, done) == CallOrLeave(p, r, done, log)

Told(p, v) == Rows(log, p, <<<<v>>>>)

\* A union without children has no place for an empty element, and the code
\* looks for its first child all the same: such calls are not made.
AppendEmpty(p, n, is_valid) ==
    LET a == At(array, p)
    IN  /\ a.type \in UnionTypes => a.children # <<>>
        /\ Call(p, Ok(AppendEmptyInternal(a, n, is_valid)),
                TellEmpty(log, a, p, n, is_valid))

AppendInt(p, v) ==
    LET a == At(array, p)
    IN  Call(p, AppendInteger(a, v),
             Told(p, IF a.type = "bool" /\ v # 0 THEN 1 ELSE v))

AppendDouble(p, v) == Call(p, ArrowArrayAppendDouble(At(array, p), v), Told(p, v))

AppendDecimal(p, n_words, v) ==
    Call(p, ArrowArrayAppendDecimal(At(array, p), n_words, v), Told(p, v))

AppendInterval(p, type, v) ==
    Call(p, ArrowArrayAppendInterval(At(array, p), type, v), Told(p, v))

AppendBytes(p, s) == Call(p, ArrowArrayAppendBytes(At(array, p), s), Told(p, s))

AppendString(p, s) == Call(p, ArrowArrayAppendString(At(array, p), s), Told(p, s))

FinishElement(p) ==
    LET a == At(array, p)
    IN  Call(p, ArrowArrayFinishElement(a),
             Rows(log, p, <<<<TellElement(log, a, p)>>>>))

\* A refused call may have extended some of the other children, and leaves
\* them so.
FinishUnionElement(p, id) ==
    LET a == At(array, p)
        others == IF a.type = "sparse_union" /\ id + 1 \in DOMAIN a.children
                  THEN TellOthers(log, a, p, 1, id) ELSE log
    IN  CallOrLeave(p, ArrowArrayFinishUnionElement(a, id),
                    TellUnion(others, a, p, id), others)

ArrowArrayFinishBuilding(at) ==
    LET a == ArrowArrayFlushInternalPointers(array)
    IN  /\ phase = "building"
        /\ array' = a
        /\ phase' = IF ArrowArrayViewValidate(a, at) THEN "accepted" ELSE "rejected"
        /\ level' = at
        /\ UNCHANGED <<schema, asked, log, calls>>

Levels == {"none", "minimal", "default", "full"}

Next ==
    \/ phase = "schema" /\ \E c \in Setters : SetType(<<>>, c)
    \/ phase = "schema" /\ \E p \in Paths(schema), i \in DOMAIN ChildSetters :
         \E c \in ChildSetters[i] : p # <<>> /\ Last(p) = i /\ SetType(p, c)
    \/ \E c \in ChildSetters[1] : SetDictionary(c)
    \/ \E junk \in {{}, Byte} : InitArray(junk)
    \/ phase = "building" /\ \E p \in Paths(array) :
        \/ \E n \in Counts, is_valid \in BOOLEAN : AppendEmpty(p, n, is_valid)
        \/ \E v \in Ints : AppendInt(p, v) \/ AppendDouble(p, v)
        \/ \E v \in Ints, n \in {0, 1, 2, 4} : AppendDecimal(p, n, v)
        \/ \E v \in Ints, t \in IntervalTypes : AppendInterval(p, t, v)
        \/ \E s \in Strings : AppendBytes(p, s) \/ AppendString(p, s)
        \/ FinishElement(p)
        \/ \E id \in 0..2 : FinishUnionElement(p, id)
    \/ \E at \in Levels : ArrowArrayFinishBuilding(at)

Spec == Init /\ [][Next]_vars

-----------------------------------------------------------------------------
(* Properties.                                                             *)

\* The parameters a setter was given are those the view of the schema shows.
Shows(v, c) ==
    CASE c.op = "type" -> v.type = c.type
      [] c.op = "struct" -> v.type = "struct"
      [] c.op = "fixed" -> v.type = c.type /\ v.fixed_size = c.n
      [] c.op = "decimal" -> v.type = c.type /\ v.precision = c.n /\ v.scale = c.scale
      [] c.op = "run_ends" -> v.type = "run_end_encoded"
      [] c.op = "time" -> v.type = c.type /\ v.unit = c.unit /\ v.timezone = c.zone
      [] c.op = "union" -> v.type = c.type /\ v.type_ids = [k \in 1..c.n |-> k - 1]
      [] c.op = "format" -> TRUE

\* What a successful ArrowSchemaSetType* call writes into a fresh schema,
\* ArrowSchemaViewInit reads back as the same type with the same parameters,
\* and after a second successful call on the same schema it reads the second
\* type or refuses the schema, but never shows the first one.
SchemaReadsBack ==
    \A p \in DOMAIN asked :
        LET n == Len(asked[p])
            s == At(schema, p)
            v == ArrowSchemaViewInit([s EXCEPT !.dictionary = <<>>])
        IN  n > 0 /\ (\A k \in 1..n : asked[p][k].rc = "OK") =>
                /\ n = 1 /\ asked[p][1].call.op # "format" /\ s.format # <<>> => v.ok
                /\ v.ok => Shows(v, asked[p][n].call)

\* A union element was finished although its child was given no value for it.
HasNoValue(p) ==
    /\ At(array, p).type \in UnionTypes
    /\ \E i \in DOMAIN log[p] : Len(log[p][i][1]) = 1

\* What is told of the runs does not fit together: ends that are no integers of
\* 16, 32 or 64 bits, a null end, an end without a value or values without an
\* end, ends that do not ascend from 1, or a last end before the length.
RunsOutOfStep(p) ==
    LET ends   == log[Append(p, 1)]
        values == log[Append(p, 2)]
        n      == Len(ends)
    IN  /\ At(array, p).type = "run_end_encoded"
        /\ \/ At(array, Append(p, 1)).type \notin {"int16", "int32", "int64"}
           \/ \E i \in 1..n : ends[i] = Null
           \/ n > Len(values) \/ (n = 0 /\ values # <<>>)
           \/ n > 0 /\ (ends[1][1] < 1 \/ ends[n][1] < Len(log[p]))
           \/ \E i \in 2..n : ends[i][1] <= ends[i - 1][1]

\* Bits were written behind the memory of a boolean buffer, and nothing can be
\* said of the array any more.
Overrun == \E p \in Paths(array) : At(array, p).overrun

\* AppendEmpty casts the row of a dense union's first child to 32 bits without
\* the check that FinishUnionElement makes.
RowsFit(a) == a.type = "dense_union" =>
                \A i \in DOMAIN a.children : a.children[i].length <= Int32Max

\* An array that was built by any calls, some of them refused, perhaps after
\* some of a sparse union's children had been extended, is refused by
\* ArrowArrayFinishBuilding, or by a full validation against its schema, only
\* for a boolean buffer that is too short, a union element that was finished
\* without a value, a row of a dense union beyond 32 bits, or run ends that do
\* not fit.
BuiltArraysAreValid ==
    phase \in {"accepted", "rejected"} =>
        \/ Overrun
        \/ \E p \in Paths(array) :
              \/ ShortBits(At(array, p)) \/ ~RowsFit(At(array, p))
              \/ HasNoValue(p) \/ RunsOutOfStep(p)
        \/ /\ ArrowArrayViewValidateDefault(array)
           /\ ArrowArrayViewValidateFull(array, TRUE)
           /\ phase = "rejected" => level = "full" /\
                \E p \in Paths(array) : At(array, p).type \in UnionTypes

\* Element i of a union was told to be anything but one row of one child.
Unclear(a, l, i) == a.type \in UnionTypes /\ Len(l[i][1]) # 2

\* An array that FinishBuilding accepted at the default level or above reads
\* back, node by node and from any slice, exactly the values, nulls and empty
\* elements that were appended, and counts the nulls of every slice right
\* (but for what follows an overrun, union elements that were finished with no
\* value or several, and the rows of a dense union whose children are beyond
\* 32 bits).
RoundTrip ==
    phase = "accepted" /\ level \in {"default", "full"} /\ ~Overrun =>
        \A p \in Paths(array) :
            LET a == At(array, p)
                nulls(l) == Len(SelectSeq(l, LAMBDA e : e = Null))
            IN  /\ a.length = Len(log[p]) /\ a.null_count = nulls(log[p])
                /\ \A o \in Slices \cap 0..a.length : \A n \in 0 .. a.length - o :
                    LET view == [a EXCEPT !.offset = o, !.length = n]
                        want == SubSeq(log[p], o + 1, o + n)
                    IN  /\ ArrowArrayViewComputeNullCount(view) = nulls(want)
                        /\ n = a.length - o /\ RowsFit(a) =>
                            \A i \in 1..n : Unclear(a, want, i) \/
                                             Element(view, i) = want[i]

\* The header's word on ArrowArrayFinishUnionElement (adbc_nanoarrow.h:1996):
\* it returns EINVAL "if child sizes after appending are inconsistent", so an
\* element that was finished has a value in its child.
UnionElementsHaveValues == \A p \in Paths(array) : ~HasNoValue(p)

=============================================================================
