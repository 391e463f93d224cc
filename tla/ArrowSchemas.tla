---------------------------- MODULE ArrowSchemas ----------------------------
(***************************************************************************)
(* The schemas of the vendored nanoarrow library (adbc_nanoarrow.cpp): the *)
(* setters that write a type into the format string of an ArrowSchema, the *)
(* parser that reads it back into an ArrowSchemaView.  A format string is  *)
(* a sequence of tokens: a letter, a punctuation mark, a numeral as        *)
(* snprintf prints it, or a time zone name.  Names, metadata and the texts *)
(* of the errors are left out, and allocation does not fail.               *)
(***************************************************************************)
EXTENDS ArrowLayouts, FiniteSets, TLC

CONSTANT Numerals     \* the integers that are printed into format strings

Numeral(n) == ToString(n)

IsNumeral(t) == \E n \in Numerals : t = Numeral(n)

ValueOf(t) == CHOOSE n \in Numerals : t = Numeral(n)

\* format[i] of the C string: the terminator stands behind the last token.
Char(f, i) == IF i <= Len(f) THEN f[i] ELSE "\\0"

\* strtol(format + i): the value and the place it stopped at.
Strtol(f, i) ==
    IF IsNumeral(Char(f, i)) THEN [value |-> ValueOf(f[i]), end |-> i + 1]
                             ELSE [value |-> 0, end |-> i]

-----------------------------------------------------------------------------
(* Writing a type into a schema.  A setter answers with its error code and *)
(* the schema it leaves behind, which it may have changed before it failed *)

Nullable == "nullable"

ArrowSchemaInit ==
    [format |-> <<>>, flags |-> {Nullable}, children |-> <<>>,
     dictionary |-> <<>>]

Done(s) == [rc |-> "OK", schema |-> s]
Fail(rc, s) == [rc |-> rc, schema |-> s]

ArrowSchemaSetFormat(s, f) == [s EXCEPT !.format = f]

ArrowSchemaAllocateChildren(s, n) ==
    IF s.children # <<>> THEN Fail("EEXIST", s)
    ELSE Done([s EXCEPT !.children = [i \in 1..n |-> ArrowSchemaInit]])

ArrowSchemaAllocateDictionary(s) ==
    IF s.dictionary # <<>> THEN Fail("EEXIST", s)
    ELSE Done([s EXCEPT !.dictionary = <<ArrowSchemaInit>>])

ArrowSchemaFormatTemplate ==
    [na |-> <<"n">>, bool |-> <<"b">>,
     uint8 |-> <<"C">>, int8 |-> <<"c">>, uint16 |-> <<"S">>,
     int16 |-> <<"s">>, uint32 |-> <<"I">>, int32 |-> <<"i">>,
     uint64 |-> <<"L">>, int64 |-> <<"l">>,
     half_float |-> <<"e">>, float |-> <<"f">>, double |-> <<"g">>,
     string |-> <<"u">>, large_string |-> <<"U">>,
     string_view |-> <<"v", "u">>, binary |-> <<"z">>,
     binary_view |-> <<"v", "z">>, large_binary |-> <<"Z">>,
     date32 |-> <<"t", "d", "D">>, date64 |-> <<"t", "d", "m">>,
     interval_months |-> <<"t", "i", "M">>,
     interval_day_time |-> <<"t", "i", "D">>,
     interval_month_day_nano |-> <<"t", "i", "n">>,
     list |-> <<"+", "l">>, large_list |-> <<"+", "L">>,
     list_view |-> <<"+", "v", "l">>, large_list_view |-> <<"+", "v", "L">>,
     struct |-> <<"+", "s">>, map |-> <<"+", "m">>,
     run_end_encoded |-> <<"+", "r">>]

NonNull(s) == [s EXCEPT !.flags = @ \ {Nullable}]

\* The entries of a map: a struct that, like its key, is not nullable.
MapEntries ==
    NonNull([ArrowSchemaInit EXCEPT
                !.format = ArrowSchemaFormatTemplate["struct"],
                !.children = <<NonNull(ArrowSchemaInit), ArrowSchemaInit>>])

ArrowSchemaInitChildrenIfNeeded(s, type) ==
    LET kids == CASE type \in ListTypes -> <<ArrowSchemaInit>>
                  [] type = "map" -> <<MapEntries>>
                  [] type = "run_end_encoded" ->
                        <<NonNull(ArrowSchemaInit), ArrowSchemaInit>>
                  [] OTHER -> <<>>
        a    == ArrowSchemaAllocateChildren(s, Len(kids))
    IN  CASE kids = <<>> -> Done(s)
          [] kids # <<>> /\ a.rc # "OK" -> a
          [] OTHER -> Done([a.schema EXCEPT !.children = kids])

ArrowSchemaSetType(s, type) ==
    CASE type = "uninitialized" -> Done(ArrowSchemaSetFormat(s, <<>>))
      [] type \in DOMAIN ArrowSchemaFormatTemplate ->
            ArrowSchemaInitChildrenIfNeeded(
                ArrowSchemaSetFormat(s, ArrowSchemaFormatTemplate[type]), type)
      [] OTHER -> Fail("EINVAL", s)

ArrowSchemaSetTypeStruct(s, n) ==
    LET t == ArrowSchemaSetType(s, "struct")
    IN  IF t.rc # "OK" THEN t ELSE ArrowSchemaAllocateChildren(t.schema, n)

ArrowSchemaSetTypeFixedSize(s, type, size) ==
    CASE size > 0 /\ type = "fixed_size_binary" ->
            Done(ArrowSchemaSetFormat(s, <<"w", ":", Numeral(size)>>))
      [] size > 0 /\ type = "fixed_size_list" ->
            ArrowSchemaInitChildrenIfNeeded(
                ArrowSchemaSetFormat(s, <<"+", "w", ":", Numeral(size)>>), type)
      [] OTHER -> Fail("EINVAL", s)

MaxPrecision == [decimal32 |-> 9, decimal64 |-> 18, decimal128 |-> 38,
                 decimal256 |-> 76]

\* The width is printed for every decimal but the 128 bit one.
SetTypeDecimalWithoutWidth(s, type, precision, scale) ==
    IF type \in DOMAIN MaxPrecision /\ precision \in 1..MaxPrecision[type]
    THEN Done(ArrowSchemaSetFormat(s,
            <<"d", ":", Numeral(precision), ",", Numeral(scale)>>))
    ELSE Fail("EINVAL", s)
ArrowSchemaSetTypeDecimal(s, type, precision, scale) ==
    LET width == [decimal32 |-> <<",", Numeral(32)>>,
                  decimal64 |-> <<",", Numeral(64)>>,
                  decimal128 |-> <<>>, decimal256 |-> <<",", Numeral(256)>>]
    IN  IF type \in DOMAIN MaxPrecision /\ precision \in 1..MaxPrecision[type]
        THEN Done(ArrowSchemaSetFormat(s,
                <<"d", ":", Numeral(precision), ",", Numeral(scale)>>
                \o width[type]))
        ELSE Fail("EINVAL", s)

ArrowSchemaSetTypeRunEndEncoded(s, run_end_type) ==
    LET t == ArrowSchemaInitChildrenIfNeeded(
                ArrowSchemaSetFormat(s,
                    ArrowSchemaFormatTemplate["run_end_encoded"]),
                "run_end_encoded")
    IN  IF run_end_type \notin {"int16", "int32", "int64"} THEN Fail("EINVAL", s)
        ELSE IF t.rc # "OK" THEN t
        ELSE Done([t.schema EXCEPT !.children[1] =
                    ArrowSchemaSetType(@, run_end_type).schema])

ArrowTimeUnitFormatString == [second |-> "s", milli |-> "m", micro |-> "u",
                              nano |-> "n"]

\* timezone is "NULL" or the name of a zone.
ArrowSchemaSetTypeDateTime(s, type, unit, timezone) ==
    LET u == ArrowTimeUnitFormatString[unit]
        zone == IF timezone = "NULL" THEN <<>> ELSE <<timezone>>
        Set(f) == Done(ArrowSchemaSetFormat(s, f))
        plain == timezone = "NULL"
    IN  CASE type = "timestamp" -> Set(<<"t", "s", u, ":">> \o zone)
          [] type = "time32" /\ plain /\ unit \in {"second", "milli"} ->
                Set(<<"t", "t", u>>)
          [] type = "time64" /\ plain /\ unit \in {"micro", "nano"} ->
                Set(<<"t", "t", u>>)
          [] type = "duration" /\ plain -> Set(<<"t", "D", u>>)
          [] OTHER -> Fail("EINVAL", s)

ArrowSchemaSetTypeUnion(s, type, n) ==
    LET letter == [sparse_union |-> "s", dense_union |-> "d"]
        ids == [k \in 1 .. (IF n = 0 THEN 0 ELSE 2 * n - 1) |->
                    IF k % 2 = 0 THEN "," ELSE Numeral((k - 1) \div 2)]
    IN  IF n < 0 \/ n > 127 \/ type \notin DOMAIN letter THEN Fail("EINVAL", s)
        ELSE ArrowSchemaAllocateChildren(
                ArrowSchemaSetFormat(s, <<"+", "u", letter[type], ":">> \o ids), n)

-----------------------------------------------------------------------------
(* Reading a format string back.                                           *)

NoView == [ok |-> FALSE, type |-> "uninitialized", storage |-> "uninitialized",
           end |-> 1, fixed_size |-> 0, precision |-> 0, scale |-> 0,
           unit |-> "NULL", timezone |-> "NULL", type_ids |-> <<>>]

\* A type, the type it is stored as, and the first token that is not its own.
Parsed(type, storage, end) ==
    [NoView EXCEPT !.ok = TRUE, !.type = type, !.storage = storage, !.end = end]

ParsePlain ==
    [n |-> "na", b |-> "bool", c |-> "int8", C |-> "uint8", s |-> "int16",
     S |-> "uint16", i |-> "int32", I |-> "uint32", l |-> "int64",
     L |-> "uint64", e |-> "half_float", f |-> "float", g |-> "double",
     z |-> "binary", u |-> "string", Z |-> "large_binary",
     U |-> "large_string"]

ParseDecimal(f) ==
    LET p == Strtol(f, 3)
        q == Strtol(f, p.end + 1)
        implied == Char(f, q.end) # ","
        w == IF implied THEN [value |-> 128, end |-> q.end]
                       ELSE Strtol(f, q.end + 1)
        types == {t \in DOMAIN MaxPrecision :
                    [decimal32 |-> 32, decimal64 |-> 64, decimal128 |-> 128,
                     decimal256 |-> 256][t] = w.value}
    IN  IF \/ Char(f, 2) # ":" \/ p.end = 3 \/ Char(f, p.end) # ","
           \/ q.end = p.end + 1 \/ (~implied /\ w.end = q.end + 1) \/ types = {}
        THEN NoView
        ELSE LET t == CHOOSE x \in types : TRUE
             IN  [Parsed(t, t, w.end) EXCEPT !.precision = p.value,
                                            !.scale = q.value]

\* ":<n>" behind "w" or "+w"; strtol leaves what it cannot read for the caller.
ParseWidth(f, i, type) ==
    LET w == Strtol(f, i + 1)
    IN  IF Char(f, i) # ":" \/ i + 1 > Len(f) THEN NoView
        ELSE [Parsed(type, type, w.end) EXCEPT !.fixed_size = w.value]

\* The type ids of a union, or <<-1>> when they are not a list of 0..127.
ParseUnionTypeIds(f, i) ==
    LET n == (Len(f) - i + 2) \div 2
        id(k) == Strtol(f, i + 2 * (k - 1))
    IN  IF i > Len(f) THEN <<>>
        ELSE IF /\ (Len(f) - i) % 2 = 0
                /\ \A k \in 1..n : /\ id(k).end = i + 2 * k - 1
                                   /\ id(k).value \in 0..127
                                   /\ k < n => Char(f, i + 2 * k - 1) = ","
             THEN [k \in 1..n |-> id(k).value]
             ELSE <<-1>>

ParseUnion(f, n_children) ==
    LET types == [d |-> "dense_union", s |-> "sparse_union"]
        ids   == ParseUnionTypeIds(f, 5)
    IN  IF \/ Char(f, 3) \notin DOMAIN types \/ Char(f, 4) # ":"
           \/ ids = <<-1>> \/ Len(ids) # n_children
        THEN NoView
        ELSE [Parsed(types[f[3]], types[f[3]], Len(f) + 1)
                EXCEPT !.type_ids = ids]

ParseNested(f, n_children) ==
    LET plain == [l |-> "list", L |-> "large_list", r |-> "run_end_encoded",
                  s |-> "struct", m |-> "map"]
        views == [l |-> "list_view", L |-> "large_list_view"]
    IN  CASE Char(f, 2) \in DOMAIN plain -> Parsed(plain[f[2]], plain[f[2]], 3)
          [] Char(f, 2) = "w" -> ParseWidth(f, 3, "fixed_size_list")
          [] Char(f, 2) = "u" -> ParseUnion(f, n_children)
          [] Char(f, 2) = "v" /\ Char(f, 3) \in DOMAIN views ->
                Parsed(views[f[3]], views[f[3]], 4)
          [] OTHER -> NoView

ParseTime(f) ==
    LET units == [s |-> "second", m |-> "milli", u |-> "micro", n |-> "nano"]
        Timed(type, storage, end) ==
            [Parsed(type, storage, end) EXCEPT !.unit = units[f[3]]]
        interval == [M |-> "interval_months", D |-> "interval_day_time",
                     n |-> "interval_month_day_nano"]
        unit == Char(f, 3) \in DOMAIN units
    IN  CASE Char(f, 2) = "d" /\ Char(f, 3) = "D" -> Parsed("date32", "int32", 4)
          [] Char(f, 2) = "d" /\ Char(f, 3) = "m" -> Parsed("date64", "int64", 4)
          [] Char(f, 2) = "t" /\ Char(f, 3) \in {"s", "m"} ->
                Timed("time32", "int32", 4)
          [] Char(f, 2) = "t" /\ Char(f, 3) \in {"u", "n"} ->
                Timed("time64", "int64", 4)
          [] Char(f, 2) = "s" /\ unit /\ Char(f, 4) = ":" ->
                [Timed("timestamp", "int64", Len(f) + 1) EXCEPT
                    !.timezone = IF Len(f) >= 5 THEN f[5] ELSE @]
          [] Char(f, 2) = "D" /\ unit -> Timed("duration", "int64", 4)
          [] Char(f, 2) = "i" /\ Char(f, 3) \in DOMAIN interval ->
                Parsed(interval[f[3]], interval[f[3]], 4)
          [] OTHER -> NoView

ArrowSchemaViewParse(f, n_children) ==
    LET views == [u |-> "string_view", z |-> "binary_view"]
    IN  CASE f[1] \in DOMAIN ParsePlain ->
                Parsed(ParsePlain[f[1]], ParsePlain[f[1]], 2)
          [] f[1] = "d" -> ParseDecimal(f)
          [] f[1] = "w" -> ParseWidth(f, 2, "fixed_size_binary")
          [] f[1] = "+" -> ParseNested(f, n_children)
          [] f[1] = "t" -> ParseTime(f)
          [] f[1] = "v" /\ Char(f, 2) \in DOMAIN views ->
                Parsed(views[f[2]], views[f[2]], 3)
          [] OTHER -> NoView

-----------------------------------------------------------------------------
\* How many children a type has; -1 is any number.
NChildren(type) ==
    CASE type \in ListTypes \cup {"map"} -> 1
      [] type = "run_end_encoded" -> 2
      [] type \in UnionTypes \cup {"struct"} -> -1
      [] OTHER -> 0

ArrowSchemaViewValidateNChildren(s, n) == n = -1 \/ Len(s.children) = n

ArrowSchemaViewValidateMap(s) ==
    /\ ArrowSchemaViewValidateNChildren(s, 1)
    /\ LET entries == s.children[1]
       IN  /\ Len(entries.children) = 2
           /\ entries.format = ArrowSchemaFormatTemplate["struct"]
           /\ Nullable \notin entries.flags
           /\ Nullable \notin entries.children[1].flags

RECURSIVE ArrowSchemaViewInit(_)

ArrowSchemaViewValidateDictionary(v, s) ==
    v.storage \in IntegerTypes /\ ArrowSchemaViewInit(s.dictionary[1]).ok

ArrowSchemaViewValidate(v, s, type) ==
    CASE type = "dictionary" -> ArrowSchemaViewValidateDictionary(v, s)
      [] type = "map" -> ArrowSchemaViewValidateMap(s)
      [] type = "fixed_size_binary" ->
            v.fixed_size > 0 /\ ArrowSchemaViewValidateNChildren(s, 0)
      [] OTHER -> ArrowSchemaViewValidateNChildren(s, NChildren(type))

\* The view of a schema whose format was parsed as v.
CheckedView(s, v) ==
    [v EXCEPT !.ok =
        /\ @ /\ v.end = Len(s.format) + 1
        /\ ArrowSchemaViewValidate(v, s, v.storage)
        /\ v.storage # v.type => ArrowSchemaViewValidate(v, s, v.type)
        /\ "dictionary_ordered" \in s.flags => v.type = "dictionary"
        /\ "map_keys_sorted" \in s.flags => v.type = "map"]
    @@ [layout |-> ViewLayout(v, ArrowLayoutInit(v.storage))]

\* The view of a schema, with ok = FALSE where the code answers EINVAL.
ArrowSchemaViewInit(s) ==
    LET Typed(v) == IF s.dictionary = <<>> THEN v
                    ELSE [v EXCEPT !.type = "dictionary"]
    IN  CheckedView(s, Typed(IF s.format = <<>> THEN NoView
                             ELSE ArrowSchemaViewParse(s.format, Len(s.children))))

=============
