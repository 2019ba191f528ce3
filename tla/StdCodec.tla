------------------------------ MODULE StdCodec ------------------------------
(***************************************************************************)
(* The standard message codec of platformchannel.c: what is computed for a *)
(* value by the size pass, by the write pass, by the decoder, and by the   *)
(* raw API that walks an encoded buffer in place.                          *)
(*                                                                         *)
(* A buffer is a sequence of bytes.  A byte is <<v, i, n>>: byte i of an   *)
(* item of n bytes with content v, so reading an item needs all its bytes  *)
(* at the right place and reading anything else yields Garbage.            *)
(*                                                                         *)
(* Positions are offsets from the start of the buffer, counted from 0.     *)
(* The writer and the readers align the pointer and the size pass aligns   *)
(* the offset; both are the same because malloc returns blocks aligned for *)
(* every type.  Failing allocations are left out.                          *)
(***************************************************************************)
EXTENDS Integers, Sequences, SequencesExt, FiniteSetsExt

CONSTANTS
    ByteSizes,   \* 254: sizes below it are written in one byte
    ShortSizes   \* 0x10000: sizes below it are written in three bytes

ASSUME SizeLimits == /\ ByteSizes \in Nat \ {0}
                     /\ ShortSizes \in Nat
                     /\ ByteSizes < ShortSizes

(* enum std_value_type.                                                    *)
kStd == [Null |-> 0, True |-> 1, False |-> 2, Int32 |-> 3, Int64 |-> 4,
         LargeInt |-> 5, Float64 |-> 6, String |-> 7, UInt8Array |-> 8,
         Int32Array |-> 9, Int64Array |-> 10, Float64Array |-> 11,
         List |-> 12, Map |-> 13, Float32Array |-> 14]

(* struct std_value and the macros that build one.                         *)
StdNull == [type |-> kStd.Null]
StdBool(b) == [type |-> IF b THEN kStd.True ELSE kStd.False]
StdNumber(type, v) == [type |-> type, number |-> v]
StdString(s) == [type |-> kStd.String, elems |-> s]
StdArray(type, elems) == [type |-> type, elems |-> elems]
StdList(list) == [type |-> kStd.List, list |-> list]
StdMap(keys, values) == [type |-> kStd.Map, keys |-> keys, values |-> values]

Atoms == {kStd.Null, kStd.True, kStd.False}
Numbers == {kStd.Int32, kStd.Int64, kStd.Float64}
Strings == {kStd.String, kStd.LargeInt}
Arrays == Strings \cup {kStd.UInt8Array, kStd.Int32Array, kStd.Int64Array,
                        kStd.Float64Array, kStd.Float32Array}
Collections == {kStd.List, kStd.Map}

(* Bytes per number or array element, and what it is aligned to: the int32 *)
(* and int64 values are not aligned, their arrays are.                     *)
ElementSize(type) ==
    CASE type \in {kStd.Int32, kStd.Int32Array, kStd.Float32Array} -> 4
      [] type \in {kStd.Int64, kStd.Float64, kStd.Int64Array, kStd.Float64Array} -> 8
      [] OTHER -> 1
Alignment(type) ==
    IF type \in {kStd.Int32, kStd.Int64} THEN 1 ELSE ElementSize(type)

Align(pos, alignment) == ((pos + alignment - 1) \div alignment) * alignment
-----------------------------------------------------------------------------
(* The size pass: the offset behind the value that starts at pos.          *)

(* A size that is written in three bytes counted as one of two.            *)
MutAdvanceSizeBytes(pos, size) ==
    pos + (IF size <= ByteSizes THEN 1 ELSE IF size < ShortSizes THEN 3 ELSE 5)

AdvanceSizeBytes(pos, size) ==
    pos + (IF size < ByteSizes THEN 1 ELSE IF size < ShortSizes THEN 3 ELSE 5)

RECURSIVE CalcValueSize(_, _)
CalcValueSize(v, pos) ==
    LET Elements(p, vs) == FoldLeft(LAMBDA q, e : CalcValueSize(e, q), p, vs)
        type == v.type
    IN  CASE type \in Atoms -> pos + 1
          [] type \in Numbers -> Align(pos + 1, Alignment(type)) + ElementSize(type)
          [] type \in Arrays ->
                Align(AdvanceSizeBytes(pos + 1, Len(v.elems)), Alignment(type))
                    + Len(v.elems) * ElementSize(type)
          [] type = kStd.List ->
                Elements(AdvanceSizeBytes(pos + 1, Len(v.list)), v.list)
          [] type = kStd.Map ->
                FoldLeft(LAMBDA q, i : CalcValueSize(v.values[i], CalcValueSize(v.keys[i], q)),
                         AdvanceSizeBytes(pos + 1, Len(v.keys)),
                         [i \in 1..Len(v.keys) |-> i])
-----------------------------------------------------------------------------
(* The write pass, which appends to what is already in the buffer.         *)

Item(v, n) == [i \in 1..n |-> <<v, i, n>>]
Garbage == -1

WriteSize(buf, size) ==
    buf \o (IF size < ByteSizes THEN Item(size, 1)
            ELSE IF size < ShortSizes THEN Item(254, 1) \o Item(size, 2)
            ELSE Item(255, 1) \o Item(size, 4))

(* The padding holds whatever malloc returned.                             *)
WriteAlign(buf, alignment) ==
    buf \o [i \in 1..(Align(Len(buf), alignment) - Len(buf)) |-> <<Garbage, 1, 1>>]

WriteElements(buf, type, elems) ==
    FoldLeft(LAMBDA b, e : b \o Item(e, ElementSize(type)), buf, elems)

RECURSIVE WriteValue(_, _)
WriteValue(v, buf) ==
    LET type == v.type
        typed == buf \o Item(type, 1)
    IN  CASE type \in Atoms -> typed
          [] type \in Numbers ->
                WriteAlign(typed, Alignment(type)) \o Item(v.number, ElementSize(type))
          [] type \in Arrays ->
                WriteElements(WriteAlign(WriteSize(typed, Len(v.elems)), Alignment(type)),
                              type, v.elems)
          [] type = kStd.List ->
                FoldLeft(LAMBDA b, e : WriteValue(e, b), WriteSize(typed, Len(v.list)), v.list)
          [] type = kStd.Map ->
                FoldLeft(LAMBDA b, i : WriteValue(v.values[i], WriteValue(v.keys[i], b)),
                         WriteSize(typed, Len(v.keys)), [i \in 1..Len(v.keys) |-> i])
-----------------------------------------------------------------------------
(* Reading.  `end` is the number of bytes the reader may look at.          *)

ContentOf(cells, n) == IF cells = Item(cells[1][1], n) THEN cells[1][1] ELSE Garbage
Content(buf, pos, n) == ContentOf(SubSeq(buf, pos + 1, pos + n), n)

Failed == [ok |-> FALSE]
Got(pos, value) == [ok |-> TRUE, pos |-> pos, value |-> value]

Read(buf, pos, n, end) ==
    IF end - pos < n THEN Failed ELSE Got(pos + n, Content(buf, pos, n))

BytesOfSize(first) == IF first = 254 THEN 2 ELSE IF first = 255 THEN 4 ELSE 0
ReadRestOfSize(buf, first, end) ==
    IF first.ok /\ first.value \in {254, 255}
    THEN Read(buf, first.pos, BytesOfSize(first.value), end) ELSE first
ReadSize(buf, pos, end) == ReadRestOfSize(buf, Read(buf, pos, 1, end), end)

ElementsAt(buf, at, n, size, end) ==
    IF end < at + size * n THEN Failed
    ELSE Got(at + size * n, [i \in 1..size |-> Content(buf, at + (i - 1) * n, n)])
DecodeElements(buf, type, size, end) ==
    IF size.ok THEN ElementsAt(buf, Align(size.pos, Alignment(type)), ElementSize(type), size.value, end)
    ELSE Failed

DecodeNumber(buf, type, at, end) ==
    IF end < at THEN Failed ELSE Read(buf, at, ElementSize(type), end)

(* A value read behind the ones read so far.                               *)
Behind(read, next) ==
    IF next.ok THEN Got(next.pos, Append(read.value, next.value)) ELSE Failed

(* What a value of a type is made of, once that is read.                   *)
AsNumber(type, read) == IF read.ok THEN Got(read.pos, StdNumber(type, read.value)) ELSE Failed
AsArray(type, read) == IF read.ok THEN Got(read.pos, StdArray(type, read.value)) ELSE Failed
AsList(read) == IF read.ok THEN Got(read.pos, StdList(read.value)) ELSE Failed
EverySecond(seq, first) == [i \in 1..(Len(seq) \div 2) |-> seq[2 * (i - 1) + first]]
AsMap(read) ==
    IF read.ok THEN Got(read.pos, StdMap(EverySecond(read.value, 1), EverySecond(read.value, 2)))
    ELSE Failed

RECURSIVE DecodeValue(_, _, _), DecodeValues(_, _, _, _), DecodeTyped(_, _, _, _, _)

(* n values one behind the other.                                          *)
DecodeValues(buf, pos, n, end) ==
    FoldLeft(LAMBDA read, i :
                IF read.ok THEN Behind(read, DecodeValue(buf, read.pos, end)) ELSE Failed,
             Got(pos, <<>>), [i \in 1..n |-> i])

(* The value of a type whose byte was read; `size` is the size that        *)
(* follows if the type has one.                                            *)
DecodeTyped(buf, type, pos, size, end) ==
    CASE type \in Atoms -> Got(pos, [type |-> type])
      [] type \in Numbers -> AsNumber(type, DecodeNumber(buf, type, Align(pos, Alignment(type)), end))
      [] type \in Arrays \ {kStd.Float32Array} -> AsArray(type, DecodeElements(buf, type, size, end))
      [] type = kStd.List /\ size.ok -> AsList(DecodeValues(buf, size.pos, size.value, end))
      [] type = kStd.Map /\ size.ok -> AsMap(DecodeValues(buf, size.pos, 2 * size.value, end))
      [] OTHER -> Failed

DecodeValue(buf, pos, end) ==
    IF end <= pos THEN Failed
    ELSE DecodeTyped(buf, Content(buf, pos, 1), pos + 1, ReadSize(buf, pos + 1, end), end)
=============================================================================
