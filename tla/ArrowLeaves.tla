----------------------------- MODULE ArrowLeaves -----------------------------
(***************************************************************************)
(* A node of an array of the vendored nanoarrow library and what is done   *)
(* to one node alone, without a look at its children: appending, the tests *)
(* of the validator and reading (adbc_nanoarrow.h, adbc_nanoarrow.cpp).    *)
(*                                                                         *)
(* A node keeps its buffers as sequences: an element is one entry, or one  *)
(* byte of a bit-packed buffer (ArrowBits).  Of the capacities only that   *)
(* of a boolean buffer is kept, the only one that is ever written past;    *)
(* the pointers and the release callbacks are left out.                    *)
(***************************************************************************)
EXTENDS ArrowLayouts, ArrowBits

CONSTANTS
    Int32Max,      \* stands for INT32_MAX in the checks of offsets
    InlineSize,    \* stands for NANOARROW_BINARY_VIEW_INLINE_SIZE
    BlockSize      \* stands for NANOARROW_BINARY_VIEW_BLOCK_SIZE

ASSUME ArrowLimitsAssumption ==
    Int32Max \in Nat /\ InlineSize \in Nat /\ BlockSize \in Nat

NewNode(v, junk) ==
    [type |-> v.storage, layout |-> v.layout, length |-> 0, null_count |-> 0,
     offset |-> 0, buf0 |-> <<>>, size_bits |-> 0, buf1 |-> <<>>,
     capacity |-> 0, overrun |-> FALSE,
     buf2 |-> <<>>, variadic |-> <<>>, list_view_offset |-> 0,
     type_ids |-> v.type_ids, junk |-> junk, id_is_index |-> TRUE,
     children |-> <<>>, dictionary |-> <<>>]

\* The offsets of an empty array are a single zero.
StartAppending(a) ==
    [a EXCEPT !.buf1 = IF a.layout.buffer[2] = "offset" THEN <<0>> ELSE @]

Ok(a) == [rc |-> "OK", array |-> a]
Error(rc, a) == [rc |-> rc, array |-> a]

\* The common end of every append: one valid bit if there is a bitmap.
AppendValid(a) ==
    LET b == IF a.buf0 = <<>> THEN a ELSE ArrowBitmapAppend(a, TRUE, 1)
    IN  Ok([b EXCEPT !.length = @ + 1])

-----------------------------------------------------------------------------
(* Appending.                                                              *)

NoBytes == [size |-> 0, data |-> <<>>, index |-> 0, offset |-> 0]

\* What AppendEmpty puts into the two buffers behind the first.
FillBuffers(a, n) ==
    LET Many(k, e) == [j \in 1..k |-> e]
        width == IF a.type = "fixed_size_binary" THEN a.layout.bits[2] \div 8 ELSE 1
        zero  == IF a.type \in ViewTypes THEN NoBytes ELSE 0
    IN  CASE a.type = "bool" -> AppendBits(a, FALSE, n)
          [] a.layout.buffer[2] = "data" /\ a.type # "bool" ->
                [a EXCEPT !.buf1 = @ \o Many(n * width, zero)]
          [] a.layout.buffer[2] = "offset" ->
                [a EXCEPT !.buf1 = @ \o Many(n, @[a.length + 1])]
          [] a.layout.buffer[2] = "view_offset" ->
                [a EXCEPT !.buf1 = @ \o Many(n, 0), !.buf2 = @ \o Many(n, 0)]
          [] OTHER -> a

\* n elements that are null, or empty, for a node whose children already have
\* theirs.
AppendEmptyNode(a, n, is_valid) ==
    IF a.type = "na" THEN [a EXCEPT !.null_count = @ + n, !.length = @ + n]
    ELSE [FillBuffers(FillValidity(a, n, is_valid), n) EXCEPT
             !.length = @ + n,
             !.null_count = @ + (IF is_valid THEN 0 ELSE n)]

\* The limits of the types that are narrower than the integers of the model.
Limits == [int8 |-> <<-128, 127>>, int16 |-> <<-32768, 32767>>,
           uint8 |-> <<0, 255>>, uint16 |-> <<0, 65535>>]

InRange(type, v) ==
    /\ type \in DOMAIN Limits => Limits[type][1] <= v /\ v <= Limits[type][2]
    /\ type \in {"uint32", "uint64"} => v >= 0

\* ArrowArrayAppendInt and ArrowArrayAppendUInt, which call each other.
AppendInteger(a, v) ==
    CASE a.type \in IntegerTypes /\ ~InRange(a.type, v) -> Error("EINVAL", a)
      [] a.type \in FloatTypes \cup IntegerTypes /\ InRange(a.type, v) ->
            AppendValid([a EXCEPT !.buf1 = Append(@, v)])
      [] a.type = "bool" -> AppendValid(AppendBits(a, v # 0, 1))
      [] OTHER -> Error("EINVAL", a)

ArrowArrayAppendDouble(a, v) ==
    IF a.type \in FloatTypes THEN AppendValid([a EXCEPT !.buf1 = Append(@, v)])
                             ELSE Error("EINVAL", a)

\* A value of a decimal or interval type is one element of its buffer.
ArrowArrayAppendDecimal(a, n_words, v) ==
    LET words == [decimal32 |-> 0, decimal64 |-> 1, decimal128 |-> 2,
                  decimal256 |-> 4]
    IN  IF a.type \in DOMAIN words /\ n_words = words[a.type]
        THEN AppendValid([a EXCEPT !.buf1 = Append(@, v)]) ELSE Error("EINVAL", a)

ArrowArrayAppendInterval(a, type, v) ==
    IF a.type \in IntervalTypes /\ type = a.type
    THEN AppendValid([a EXCEPT !.buf1 = Append(@, v)]) ELSE Error("EINVAL", a)

\* A long value of a view type goes to the last variadic buffer, or to a new
\* one if it does not fit into its block.
ViewOffsetNotSet(a, bytes) ==
    LET n == Len(bytes)
        k == Len(a.variadic)
        full == k = 0 \/ Len(a.variadic[k]) + n > BlockSize
        bufs == IF full THEN Append(a.variadic, <<>>) ELSE a.variadic
        m == Len(bufs)
    IN  IF n <= InlineSize
        THEN [a EXCEPT !.buf1 = Append(@, [NoBytes EXCEPT !.size = n,
                                                        !.data = bytes])]
        ELSE [a EXCEPT
                !.buf1 = Append(@, [NoBytes EXCEPT !.size = n, !.index = m,
                                                !.offset = 0]),
                !.variadic = [bufs EXCEPT ![m] = @ \o bytes]]
AppendView(a, bytes) ==
    LET n == Len(bytes)
        k == Len(a.variadic)
        full == k = 0 \/ Len(a.variadic[k]) + n > BlockSize
        bufs == IF full THEN Append(a.variadic, <<>>) ELSE a.variadic
        m == Len(bufs)
    IN  IF n <= InlineSize
        THEN [a EXCEPT !.buf1 = Append(@, [NoBytes EXCEPT !.size = n,
                                                        !.data = bytes])]
        ELSE [a EXCEPT
                !.buf1 = Append(@, [NoBytes EXCEPT !.size = n, !.index = m,
                                                !.offset = Len(bufs[m])]),
                !.variadic = [bufs EXCEPT ![m] = @ \o bytes]]

AppendBytesUnchecked(a, bytes) ==
    LET n == Len(bytes)
        last == a.buf1[a.length + 1]
    IN  CASE a.type \in ViewTypes -> AppendValid(AppendView(a, bytes))
          [] a.type \in StringTypes ->
                AppendValid([a EXCEPT !.buf1 = Append(@, last + n),
                                      !.buf2 = @ \o bytes])
          [] a.type = "fixed_size_binary" /\ n * 8 = a.layout.bits[2] ->
                AppendValid([a EXCEPT !.buf1 = @ \o bytes])
          [] OTHER -> Error("EINVAL", a)
ArrowArrayAppendBytes(a, bytes) ==
    LET n == Len(bytes)
        last == a.buf1[a.length + 1]
    IN  CASE a.type \in ViewTypes -> AppendValid(AppendView(a, bytes))
          [] a.type \in StringTypes ->
                IF a.type \in Offsets32 /\ last + n > Int32Max
                THEN Error("EOVERFLOW", a)
                ELSE AppendValid([a EXCEPT !.buf1 = Append(@, last + n),
                                           !.buf2 = @ \o bytes])
          [] a.type = "fixed_size_binary" /\ n * 8 = a.layout.bits[2] ->
                AppendValid([a EXCEPT !.buf1 = @ \o bytes])
          [] OTHER -> Error("EINVAL", a)

ArrowArrayAppendString(a, bytes) ==
    IF a.type \in StringTypes \cup ViewTypes THEN ArrowArrayAppendBytes(a, bytes)
                                             ELSE Error("EINVAL", a)

-----------------------------------------------------------------------------
(* Validation.  A node is looked at from its offset on.                    *)

\* Where a buffer holds whole elements its size is their number times their
\* width; bits and the bytes of strings are counted one by one.
BufferBytes(a, i) ==
    LET n == Len(CASE i = 1 -> a.buf0 [] i = 2 -> a.buf1 [] OTHER -> a.buf2)
        bits == a.layout.bits[i]
    IN  IF bits <= 1 \/ a.type = "fixed_size_binary" THEN n
                                                     ELSE n * (bits \div 8)

MinBytes(a, i) ==
    LET n == a.offset + a.length
        bytes == a.layout.bits[i] \div 8
    IN  CASE a.layout.buffer[i] = "validity" ->
                IF a.null_count = 0 /\ BufferBytes(a, i) = 0 THEN 0
                ELSE BytesForBits(n)
          [] a.layout.buffer[i] = "offset" -> IF n = 0 THEN 0 ELSE bytes * (n + 1)
          [] a.layout.buffer[i] = "data" -> BytesForBits(a.layout.bits[i] * n)
          [] a.layout.buffer[i] = "none" -> 0
          [] OTHER -> bytes * n

\* The tests of ArrowArrayViewValidate* that look at one node only.
BuffersLargeEnough(a) ==
    \A i \in 1..2 : BufferBytes(a, i) >= MinBytes(a, i)

OffsetsAscend(a) ==
    a.layout.buffer[2] = "offset" =>
        \A i \in a.offset + 1 .. a.offset + a.length : a.buf1[i] <= a.buf1[i + 1]

\* The offsets must lead into the data buffer.
OffsetsLeadInto(a, size) ==
    LET first == a.buf1[a.offset + 1]
        last  == a.buf1[a.offset + a.length + 1]
    IN  a.layout.buffer[2] = "offset" /\ a.buf1 # <<>> =>
            first >= 0 /\ last >= 0 /\ size >= last

-----------------------------------------------------------------------------
(* Reading.  An element is <<>> when it is null and <<value>> otherwise.   *)

Null == <<>>

ArrowArrayViewIsNull(a, i) ==
    CASE a.type = "na" -> TRUE
      [] a.type \in UnionTypes -> FALSE
      [] OTHER -> a.buf0 # <<>> /\ ArrowBitGet(a.buf0, a.offset + i - 1) = 0

GetBytesFromView(a, i) ==
    LET v == a.buf1[i]
    IN  IF v.size <= InlineSize THEN v.data
        ELSE SubSeq(a.variadic[v.index], v.offset + 1, v.offset + v.size)

ArrowArrayViewGetBytes(a, i) ==
    LET k == a.offset + i
        size == a.layout.bits[2] \div 8
    IN  CASE a.type \in StringTypes -> SubSeq(a.buf2, a.buf1[k] + 1, a.buf1[k + 1])
          [] a.type = "fixed_size_binary" ->
                SubSeq(a.buf1, (k - 1) * size + 1, k * size)
          [] OTHER -> GetBytesFromView(a, k)

ArrowArrayViewGetInt(a, i) ==
    IF a.type = "bool" THEN ArrowBitGet(a.buf1, a.offset + i - 1)
                       ELSE a.buf1[a.offset + i]

\* An element of a node without children.
LeafElement(a, i) ==
    IF ArrowArrayViewIsNull(a, i) THEN Null
    ELSE IF a.type \in StringTypes \cup ViewTypes \cup {"fixed_size_binary"}
         THEN <<ArrowArrayViewGetBytes(a, i)>>
         ELSE <<ArrowArrayViewGetInt(a, i)>>

\* What an empty element of a node without children is read as.
EmptyLeaf(a) ==
    CASE a.type \in StringTypes \cup ViewTypes -> <<>>
      [] a.type = "fixed_size_binary" -> [j \in 1 .. a.layout.bits[2] \div 8 |-> 0]
      [] OTHER -> 0

\* The size of a boolean buffer is behind its length: AppendBits makes room for
\* one element, and AppendEmpty sets n of them.
ShortBits(a) == a.type = "bool" /\ Len(a.buf1) < BytesForBits(a.length)
==============================================================================
