---------------------------- MODULE ArrowLayouts ----------------------------
(***************************************************************************)
(* The storage types of the vendored nanoarrow library and the layout of   *)
(* their buffers (ArrowLayoutInit of adbc_nanoarrow.cpp).                  *)
(***************************************************************************)
EXTENDS Integers, Sequences

IntegerTypes == {"uint8", "int8", "uint16", "int16", "uint32", "int32",
                 "uint64", "int64"}
FloatTypes == {"half_float", "float", "double"}
DecimalTypes == {"decimal32", "decimal64", "decimal128", "decimal256"}
IntervalTypes == {"interval_months", "interval_day_time",
                  "interval_month_day_nano"}
ListTypes == {"list", "large_list", "list_view", "large_list_view",
              "fixed_size_list"}

(* The buffers that hold the elements of a storage type: what each of the  *)
(* three is for, and the bits of an element in it.                         *)

Width ==
    [bool |-> 1, uint8 |-> 8, int8 |-> 8, uint16 |-> 16, int16 |-> 16,
     half_float |-> 16, uint32 |-> 32, int32 |-> 32, float |-> 32,
     decimal32 |-> 32, interval_months |-> 32, uint64 |-> 64, int64 |-> 64,
     double |-> 64, interval_day_time |-> 64, decimal64 |-> 64,
     decimal128 |-> 128, interval_month_day_nano |-> 128, decimal256 |-> 256,
     binary_view |-> 128, string_view |-> 128, fixed_size_binary |-> 0]

Offsets32 == {"list", "map", "string", "binary"}
Offsets64 == {"large_list", "large_string", "large_binary"}
StringTypes == {"string", "binary", "large_string", "large_binary"}
ViewTypes == {"string_view", "binary_view"}
UnionTypes == {"dense_union", "sparse_union"}
ListViews == {"list_view", "large_list_view"}
None3 == <<"none", "none", "none">>

ArrowLayoutInit(storage) ==
    LET L(buffers, bits) == [buffer |-> buffers, bits |-> bits, child_size |-> 0]
        off == IF storage \in Offsets64 \cup {"large_list_view"} THEN 64 ELSE 32
    IN  CASE storage \in {"uninitialized", "na", "run_end_encoded"} ->
                L(None3, <<0, 0, 0>>)
          [] storage \in StringTypes ->
                L(<<"validity", "offset", "data">>, <<1, off, 0>>)
          [] storage \in {"list", "large_list", "map"} ->
                L(<<"validity", "offset", "none">>, <<1, off, 0>>)
          [] storage \in ListViews ->
                L(<<"validity", "view_offset", "size">>, <<1, off, off>>)
          [] storage \in {"struct", "fixed_size_list"} ->
                L(<<"validity", "none", "none">>, <<1, 0, 0>>)
          [] storage = "dense_union" ->
                L(<<"type_id", "union_offset", "none">>, <<8, 32, 0>>)
          [] storage = "sparse_union" -> L(<<"type_id", "none", "none">>, <<8, 0, 0>>)
          [] OTHER -> L(<<"validity", "data", "none">>, <<1, Width[storage], 0>>)

\* The layout that fits the width or the list size of the type.
ViewLayout(v, layout) ==
    CASE v.storage = "fixed_size_binary" ->
            [layout EXCEPT !.bits[2] = v.fixed_size * 8]
      [] v.storage = "fixed_size_list" ->
            [layout EXCEPT !.child_size = v.fixed_size]
      [] OTHER -> layout
=============================================================================
