------------------------------- MODULE Codec --------------------------------
(***************************************************************************)
(* The codec: reflection on types, and marshalling by them.                *)
(***************************************************************************)
EXTENDS Integers, FiniteSets, FiniteSetsExt, SequencesExt

-----------------------------------------------------------------------------
(***************************************************************************)
(* Types of Go as reflection shows them to the codec, and a universe of    *)
(* them that has every kind, the kinds nested, and the cases the codec     *)
(* refuses: elements of no length, a tagged field that is not exported, an *)
(* interface inside a type that implements it.                             *)
(***************************************************************************)

(* Types, as reflection sees them. A field has a tag or not, and is        *)
(* exported or not; an interface has the names of the types it admits.     *)

Uint(len)       == [kind |-> "uint", len |-> len]
Sint(len)       == [kind |-> "int", len |-> len]
Bool            == [kind |-> "bool"]
Str             == [kind |-> "string"]
Slice(t)        == [kind |-> "slice", elem |-> t]
Array(n, t)     == [kind |-> "array", len |-> n, elem |-> t]
Ptr(t)          == [kind |-> "ptr", elem |-> t]
MapOf(k, t)     == [kind |-> "map", key |-> k, elem |-> t]
Struct(fields)  == [kind |-> "struct", fields |-> fields]
Field(t)        == [type |-> t, tagged |-> TRUE, exported |-> TRUE]
Iface(names)    == [kind |-> "interface", names |-> names]

\* The types that the codec of the universe has registered by name, and one
\* that it has not.
TypeNamed(name) ==
    CASE name = "leaf"    -> Struct(<<Field(Bool)>>)
      [] name = "wrapper" -> Struct(<<Field(Iface({"leaf", "wrapper"}))>>)
      [] name = "stranger" -> Struct(<<Field(Bool)>>)

Payload == Iface({"leaf", "wrapper"})

Untagged == [type |-> Bool, tagged |-> FALSE, exported |-> FALSE]
Private  == [type |-> Bool, tagged |-> TRUE, exported |-> FALSE]

\* Each with values to marshal.
Universe == <<
    [type |-> Uint(2), values |-> 0 .. 15],
    [type |-> Sint(1), values |-> -2 .. 1],
    [type |-> Bool, values |-> BOOLEAN],
    [type |-> Str, values |-> {<<>>, <<2>>, <<1, 3>>, <<0, 0, 0>>, <<0, 0, 0, 0>>}],
    [type |-> Slice(Uint(1)), values |-> {<<>>, <<3>>, <<1, 2>>, <<0, 1, 2, 3, 0, 1, 2, 3>>}],
    [type |-> Slice(Str), values |-> {<<>>, <<<<>>>>, <<<<>>, <<1>>>>, <<<<1, 2>>, <<>>>>}],
    [type |-> Slice(Struct(<<>>)), values |-> {<<>>, <<<<>>>>, <<<<>>, <<>>>>}],
    [type |-> Slice(Slice(Bool)), values |-> {<<>>, <<<<>>, <<>>>>, <<<<TRUE>>, <<>>>>}],
    [type |-> Array(2, Sint(1)), values |-> {<<-1, 1>>, <<0, -2>>}],
    [type |-> Array(2, Str), values |-> {<<<<1>>, <<>>>>, <<<<>>, <<2, 2>>>>}],
    [type |-> Ptr(Slice(Bool)), values |-> {<<>>, <<<<>>>>, <<<<TRUE, FALSE>>>>}],
    [type |-> Struct(<<Field(Uint(1)), Untagged, Field(Str)>>),
     values |-> {<<1, <<>>>>, <<3, <<0, 1>>>>}],
    [type |-> Struct(<<Field(Uint(1)), Private>>), values |-> {<<1, TRUE>>}],
    [type |-> MapOf(Uint(1), Bool),
     values |-> UNION {[S -> BOOLEAN] : S \in {{}, {2}, {1, 3}, {0, 1, 2}}}],
    [type |-> MapOf(Str, Uint(1)),
     values |-> UNION {[S -> {0, 3}] : S \in {{}, {<<1>>, <<>>}, {<<2>>, <<1, 1>>}}}],
    [type |-> MapOf(Struct(<<>>), Struct(<<>>)), values |-> [{<<>>} -> {<<>>}]],
    [type |-> Payload,
     values |-> {<<>>, <<"leaf", <<TRUE>>>>, <<"stranger", <<TRUE>>>>, <<"wrapper", <<<<>>>>>>,
                 <<"wrapper", <<<<"leaf", <<FALSE>>>>>>>>,
                 <<"wrapper", <<<<"wrapper", <<<<"leaf", <<TRUE>>>>>>>>>>>>}],
    [type |-> Slice(Payload),
     values |-> {<<<<"leaf", <<TRUE>>>>, <<"leaf", <<FALSE>>>>>>,
                 <<<<"wrapper", <<<<"leaf", <<FALSE>>>>>>>>, <<"leaf", <<TRUE>>>>>>}] >>

-----------------------------------------------------------------------------
(***************************************************************************)
(* The codec of the warp messages, the app requests and the validators'    *)
(* database: reflectcodec walks over a value by its type, linearcodec      *)
(* numbers the types that an interface may hold, wrappers.Packer writes    *)
(* and reads bytes, and codec.Manager puts a version in front and bounds   *)
(* the size. A byte is a digit below Base; the lengths are parameters.     *)
(***************************************************************************)

CONSTANTS
    Base,             \* values of a byte, 256 in the code
    ShortLen, IntLen, \* bytes of a short and an int, 2 and 4 in the code
    MaxSize,          \* of the manager
    Registrations     \* the types in the order of RegisterType

MaxShort  == Base ^ ShortLen - 1
MaxInt32  == Base ^ IntLen \div 2 - 1   \* math.MaxInt32
Version   == 0

-----------------------------------------------------------------------------
\* GetSerializedFields: the tagged ones; a tagged field must be exported.
SerializedFields(t) == SelectSeq(t.fields, LAMBDA f : f.tagged)
BadFields(t) == \E f \in ToSet(t.fields) : f.tagged /\ ~f.exported

\* linearCodec.RegisterType: a type that is known already is refused.
RegisterType(types, name) == IF Contains(types, name) THEN types ELSE Append(types, name)
RegisteredTypes == FoldLeft(RegisterType, <<>>, Registrations)
TypeID(name) == (CHOOSE i \in DOMAIN RegisteredTypes : RegisteredTypes[i] = name) - 1

-----------------------------------------------------------------------------
(* wrappers.Packer.                                                        *)

Digits(n, len) == [i \in 1 .. len |-> (n \div Base ^ (len - i)) % Base]
Number(bytes)  == FoldLeft(LAMBDA acc, b : acc * Base + b, 0, bytes)

\* bytes.Compare(a, b) < 0
Less(a, b) ==
    \/ IsStrictPrefix(a, b)
    \/ \E i \in 1 .. Min({Len(a), Len(b)}) :
          a[i] < b[i] /\ SubSeq(a, 1, i - 1) = SubSeq(b, 1, i - 1)

Failed      == [err |-> TRUE, bytes |-> <<>>]
Packed(bs)  == [err |-> FALSE, bytes |-> bs]
Join(parts) == IF \E i \in DOMAIN parts : parts[i].err THEN Failed
               ELSE Packed(FlattenSeq([i \in DOMAIN parts |-> parts[i].bytes]))

\* A string has its length in front, which must fit into a short.
StringLen(str) == ShortLen + Len(str)
PackStr(str) ==
    IF Len(str) > MaxShort THEN Failed ELSE Packed(Digits(Len(str), ShortLen) \o str)

-----------------------------------------------------------------------------
(* marshal. A pointer is <<>> (nil) or <<value>>, an interface <<>> or     *)
(* <<name, value>>; stack has the types of the interfaces around a value.  *)

\* A mutant: the entries of a map are written by decreasing key.
KeyOrderDown(keys) == SetToSortSeq(keys, LAMBDA a, b : Less(b[1], a[1]))

\* pack key-value pairs sorted by increasing key
KeyOrder(keys) == SetToSortSeq(keys, LAMBDA a, b : Less(a[1], b[1]))

RECURSIVE Marshal(_, _, _)
Marshal(t, v, stack) ==
    CASE t.kind = "uint" -> Packed(Digits(v, t.len))
      [] t.kind = "int"  -> Packed(Digits(v % Base ^ t.len, t.len))
      [] t.kind = "bool" -> Packed(<<IF v THEN 1 ELSE 0>>)
      [] t.kind = "string" -> PackStr(v)
      [] t.kind = "ptr" ->
            IF v = <<>> THEN Failed ELSE Marshal(t.elem, v[1], stack)
      [] t.kind = "interface" ->
            IF v = <<>> THEN Failed
            ELSE IF v[1] \in stack \/ ~Contains(RegisteredTypes, v[1]) THEN Failed
            ELSE Join(<<Packed(Digits(TypeID(v[1]), IntLen)),
                        Marshal(TypeNamed(v[1]), v[2], stack \cup {v[1]})>>)
      [] t.kind = "slice" ->
            LET parts == [i \in DOMAIN v |-> Marshal(t.elem, v[i], stack)] IN
            IF Len(v) > MaxInt32 \/ \E i \in DOMAIN v : parts[i].bytes = <<>> THEN Failed
            ELSE Join(<<Packed(Digits(Len(v), IntLen))>> \o parts)
      [] t.kind = "array" -> Join([i \in DOMAIN v |-> Marshal(t.elem, v[i], stack)])
      [] t.kind = "struct" ->
            LET fields == SerializedFields(t) IN
            IF BadFields(t) THEN Failed
            ELSE Join([i \in DOMAIN fields |-> Marshal(fields[i].type, v[i], stack)])
      [] t.kind = "map" ->
            LET keys   == {<<Marshal(t.key, k, stack), k>> : k \in DOMAIN v}
                good   == {<<x[1].bytes, x[2]>> : x \in {y \in keys : ~y[1].err}}
                sorted == KeyOrder(good)
                parts  == [i \in DOMAIN sorted |->
                             Join(<<Packed(sorted[i][1]),
                                    Marshal(t.elem, v[sorted[i][2]], stack)>>)]
            IN  IF \/ Cardinality(keys) > MaxInt32 \/ \E x \in keys : x[1].err
                   \/ \E i \in DOMAIN parts : parts[i].bytes = <<>>
                THEN Failed
                ELSE Join(<<Packed(Digits(Len(parts), IntLen))>> \o parts)

-----------------------------------------------------------------------------
(* unmarshal: from offset off on. n counts the elements of slices and maps *)
(* that were made on the way.                                              *)

Bad(n) == [err |-> TRUE, off |-> 0, val |-> 0, n |-> n]
Got(off, val, n) == [err |-> FALSE, off |-> off, val |-> val, n |-> n]

\* UnpackFixedBytes, behind checkSpace.
Unpack(bs, off, len) ==
    IF Len(bs) - off < len THEN Bad(0) ELSE Got(off + len, SubSeq(bs, off + 1, off + len), 0)

UnpackStr(bs, off) ==
    LET size == Unpack(bs, off, ShortLen) IN
    IF size.err THEN size ELSE Unpack(bs, size.off, Number(size.val))

\* startOffset == p.Offset is an error.
Progress(from, to) == to > from

Signed(x, len) == IF x >= Base ^ len \div 2 THEN x - Base ^ len ELSE x

RECURSIVE Unmarshal(_, _, _, _), UnmarshalSeq(_, _, _, _, _)
RECURSIVE UnmarshalElts(_, _, _, _, _), UnmarshalMap(_, _, _, _, _, _)

\* A value of each of the types, one behind the other; e is the first.
SeqBehind(e, types, bs, stack, vals) ==
    IF e.err THEN e
    ELSE [UnmarshalSeq(Tail(types), bs, e.off, stack, Append(vals, e.val)) EXCEPT !.n = @ + e.n]

UnmarshalSeq(types, bs, off, stack, vals) ==
    IF types = <<>> THEN Got(off, vals, 0)
    ELSE SeqBehind(Unmarshal(Head(types), bs, off, stack), types, bs, stack, vals)

\* reflect.Append: by one element, before that element is read.
Grown(left) == 1

\* A value in front of the others, and what was made for it.
InFront(val, n, rest) ==
    [rest EXCEPT !.n = @ + n, !.val = IF rest.err THEN 0 ELSE <<val>> \o @]

\* The elements of a slice, left of them still to come; e is the first.
EltsBehind(e, t, bs, off, stack, left) ==
    IF e.err \/ ~Progress(off, e.off) THEN Bad(e.n + Grown(left))
    ELSE InFront(e.val, e.n + Grown(left), UnmarshalElts(t, bs, e.off, stack, left - 1))

UnmarshalElts(t, bs, off, stack, left) ==
    IF left = 0 THEN Got(off, <<>>, 0)
    ELSE EltsBehind(Unmarshal(t, bs, off, stack), t, bs, off, stack, left)

\* The entries of a map as pairs, whose keys must increase from prev on; k and
\* e are the first key and its element.
EntriesBehind(k, e, t, bs, off, stack, left, prev) ==
    LET key == SubSeq(bs, off + 1, k.off) IN
    IF k.err THEN Bad(k.n + 1)
    ELSE IF prev # <<>> /\ ~Less(prev[1], key) THEN Bad(k.n + 1)
    ELSE IF e.err \/ ~Progress(off, e.off) THEN Bad(k.n + e.n + 1)
    ELSE InFront(<<k.val, e.val>>, k.n + e.n + 1,
                 UnmarshalMap(t, bs, e.off, stack, left - 1, <<key>>))

UnmarshalMap(t, bs, off, stack, left, prev) ==
    LET k == Unmarshal(t.key, bs, off, stack) IN
    IF left = 0 THEN Got(off, <<>>, 0)
    ELSE EntriesBehind(k, Unmarshal(t.elem, bs, k.off, stack), t, bs, off, stack, left, prev)

AsMap(pairs) ==
    [k \in {p[1] : p \in ToSet(pairs)} |-> (CHOOSE p \in ToSet(pairs) : p[1] = k)[2]]

\* The value that a good result becomes.
With(r, Op(_)) == IF r.err THEN r ELSE [r EXCEPT !.val = Op(r.val)]

\* UnpackPrefix: the type that the number stands for, if it implements the
\* interface.
UnpackPrefix(t, bs, off) ==
    LET id   == Unpack(bs, off, IntLen)
        num  == Number(id.val) + 1
        name == RegisteredTypes[num]
    IN  IF id.err THEN id
        ELSE IF num \notin DOMAIN RegisteredTypes THEN Bad(0)
        ELSE IF name \notin t.names THEN Bad(0) ELSE With(id, LAMBDA x : name)

Unmarshal(t, bs, off, stack) ==
    CASE t.kind = "uint" -> With(Unpack(bs, off, t.len), Number)
      [] t.kind = "int" ->
            With(Unpack(bs, off, t.len), LAMBDA x : Signed(Number(x), t.len))
      [] t.kind = "bool" ->
            LET r == Unpack(bs, off, 1) IN
            IF r.err THEN r ELSE IF r.val[1] > 1 THEN Bad(0)
            ELSE With(r, LAMBDA x : x[1] = 1)
      [] t.kind = "string" -> UnpackStr(bs, off)
      [] t.kind = "ptr" -> With(Unmarshal(t.elem, bs, off, stack), LAMBDA x : <<x>>)
      [] t.kind = "interface" ->
            LET name == UnpackPrefix(t, bs, off) IN
            IF name.err THEN name ELSE IF name.val \in stack THEN Bad(0)
            ELSE With(Unmarshal(TypeNamed(name.val), bs, name.off, stack \cup {name.val}),
                      LAMBDA x : <<name.val, x>>)
      [] t.kind = "slice" ->
            LET size == Unpack(bs, off, IntLen) IN
            IF size.err THEN size ELSE IF Number(size.val) > MaxInt32 THEN Bad(0)
            ELSE UnmarshalElts(t.elem, bs, size.off, stack, Number(size.val))
      [] t.kind = "array" ->
            UnmarshalSeq([i \in 1 .. t.len |-> t.elem], bs, off, stack, <<>>)
      [] t.kind = "struct" ->
            LET fields == SerializedFields(t) IN
            IF BadFields(t) THEN Bad(0)
            ELSE UnmarshalSeq([i \in DOMAIN fields |-> fields[i].type], bs, off, stack, <<>>)
      [] t.kind = "map" ->
            LET size == Unpack(bs, off, IntLen) IN
            IF size.err THEN size ELSE IF Number(size.val) > MaxInt32 THEN Bad(0)
            ELSE With(UnmarshalMap(t, bs, size.off, stack, Number(size.val), <<>>), AsMap)
-----------------------------------------------------------------------------
(* size: what marshalling a value takes, and whether that is the same for  *)
(* every value of the type, so that the first element stands for the rest. *)

NoSize       == [err |-> TRUE, size |-> 0, const |-> FALSE]
Sized(n, c)  == [err |-> FALSE, size |-> n, const |-> c]
Sum(sizes)   == IF \E i \in DOMAIN sizes : sizes[i].err THEN NoSize
                ELSE Sized(FoldLeft(LAMBDA acc, s : acc + s.size, 0, sizes),
                           \A i \in DOMAIN sizes : sizes[i].const)

RECURSIVE Size(_, _, _)
\* numElts elements: of a constant size, or each of its own.
SizeAll(t, elts, stack) ==
    LET first == Size(t, elts[1], stack) IN
    IF first.err \/ ~first.const
    THEN [Sum([i \in DOMAIN elts |-> Size(t, elts[i], stack)]) EXCEPT !.const = FALSE]
    ELSE Sized(Len(elts) * first.size, TRUE)

\* Keys and values are each counted from the first, or one by one.
SizeMap(t, v, stack) ==
    LET keys == SetToSeq(DOMAIN v)
        ks   == SizeAll(t.key, keys, stack)
        es   == SizeAll(t.elem, [i \in DOMAIN keys |-> v[keys[i]]], stack)
    IN  IF DOMAIN v = {} THEN Sized(IntLen, FALSE)
        ELSE IF ks.err \/ es.err THEN NoSize
        ELSE IF ks.size + es.size = 0 THEN NoSize
        ELSE Sized(IntLen + ks.size + es.size, FALSE)

PrefixSize == IntLen

Size(t, v, stack) ==
    CASE t.kind \in {"uint", "int"} -> Sized(t.len, TRUE)
      [] t.kind = "bool"   -> Sized(1, TRUE)
      [] t.kind = "string" -> Sized(StringLen(v), FALSE)
      [] t.kind = "ptr"    -> IF v = <<>> THEN NoSize ELSE Size(t.elem, v[1], stack)
      [] t.kind = "interface" ->
            IF v = <<>> THEN NoSize ELSE IF v[1] \in stack THEN NoSize
            ELSE [Sum(<<Sized(PrefixSize, FALSE),
                        Size(TypeNamed(v[1]), v[2], stack \cup {v[1]})>>) EXCEPT !.const = FALSE]
      [] t.kind = "slice" ->
            IF v = <<>> THEN Sized(IntLen, FALSE)
            ELSE LET all == SizeAll(t.elem, v, stack) IN
                 IF all.size = 0 THEN NoSize ELSE Sized(IntLen + all.size, FALSE)
      [] t.kind = "array" ->
            IF v = <<>> THEN Sized(0, TRUE) ELSE SizeAll(t.elem, v, stack)
      [] t.kind = "struct" ->
            LET fields == SerializedFields(t) IN
            IF BadFields(t) THEN NoSize
            ELSE Sum([i \in DOMAIN fields |-> Size(fields[i].type, v[i], stack)])
      [] t.kind = "map" -> SizeMap(t, v, stack)

-----------------------------------------------------------------------------
(* codec.Manager: the version in front, the bound, and no bytes left over. *)

ManagerMarshal(t, v) ==
    LET r == Join(<<Packed(Digits(Version, ShortLen)), Marshal(t, v, {})>>) IN
    IF Len(r.bytes) > MaxSize THEN Failed ELSE r

ManagerSize(t, v) == Sum(<<Sized(ShortLen, TRUE), Size(t, v, {})>>)

\* The version is read, and not looked at.
ManagerUnmarshal(t, bs) ==
    LET r == Unmarshal(t, bs, ShortLen, {}) IN
    IF Len(bs) > MaxSize \/ Len(bs) < ShortLen THEN Bad(0)
    ELSE IF ~r.err /\ r.off # Len(bs) THEN Bad(r.n) ELSE r

-----------------------------------------------------------------------------

\* What Marshal makes of a value, Unmarshal makes the value of again, and
\* Size says beforehand how many bytes that takes.
RoundTrip(t, v) ==
    \A m \in {ManagerMarshal(t, v)}, size \in {ManagerSize(t, v)} :
        ~m.err => /\ \A u \in {ManagerUnmarshal(t, m.bytes)} : ~u.err /\ u.val = v
                  /\ ~size.err /\ size.size = Len(m.bytes)

\* Behind the version, a value has one encoding: bytes that unmarshal are
\* the bytes that marshalling gives. Signatures and IDs are of bytes. And a
\* short input cannot make many elements, however large the length that
\* it claims (one is made at most that is then found to be cut off, in each
\* of the types nested around it).
OneEncoding(t, bs) ==
    LET Body(bytes) == SubSeq(bytes, ShortLen + 1, Len(bytes)) IN
    \A u \in {ManagerUnmarshal(t, bs)} :
        /\ u.n <= Len(bs)
        /\ ~u.err => \A m \in {ManagerMarshal(t, u.val)} : ~m.err /\ Body(m.bytes) = Body(bs)
=============================================================================
