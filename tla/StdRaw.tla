------------------------------- MODULE StdRaw -------------------------------
(***************************************************************************)
(* The raw API of platformchannel.c: encoded buffers are checked, walked   *)
(* and compared without decoding them.  A raw value is a position in a     *)
(* buffer; nothing but raw_std_value_check knows where the buffer ends.    *)
(* Also the comparison of decoded values, and the lookups in a map.        *)
(* Builds without assertions are modelled: with them                       *)
(* raw_std_list_get_first_element stops the program at an empty list.      *)
(***************************************************************************)
EXTENDS StdCodec

None == -2

RawType(buf, pos) == Content(buf, pos, 1)

ValuePtr(pos, alignment) == Align(pos + 1, alignment)
ArrayPtr(pos, alignment, size) == Align(AdvanceSizeBytes(pos + 1, size), alignment)

RestOfSize(buf, first, pos) ==
    IF first \in {254, 255} THEN Content(buf, pos, BytesOfSize(first)) ELSE first
RawSize(buf, pos) == RestOfSize(buf, Content(buf, pos + 1, 1), pos + 2)

RawNumber(buf, pos, type) == Content(buf, ValuePtr(pos, Alignment(type)), ElementSize(type))

ContentsAt(buf, at, n, size) == [i \in 1..size |-> Content(buf, at + (i - 1) * n, n)]
RawElements(buf, pos, type, size) ==
    ContentsAt(buf, ArrayPtr(pos, Alignment(type), size), ElementSize(type), size)
RawString(buf, pos) == RawElements(buf, pos, kStd.String, RawSize(buf, pos))

RECURSIVE RawAfter(_, _), RawAfterTyped(_, _, _, _)
RawAfterTyped(buf, pos, type, size) ==
    LET Skip(n) == FoldLeft(LAMBDA p, i : RawAfter(buf, p), ArrayPtr(pos, 1, size), [i \in 1..n |-> i])
    IN  CASE type \in Atoms -> ValuePtr(pos, 1)
          [] type \in Numbers -> ValuePtr(pos, Alignment(type)) + ElementSize(type)
          [] type \in Arrays -> ArrayPtr(pos, Alignment(type), size) + size * ElementSize(type)
          [] type = kStd.List -> Skip(size)
          [] type = kStd.Map -> Skip(2 * size)
RawAfter(buf, pos) == RawAfterTyped(buf, pos, RawType(buf, pos), RawSize(buf, pos))

(* The positions of the first n values inside a list or map; a map holds   *)
(* its keys and values in turn.                                            *)
RawListFirst(buf, pos) == ArrayPtr(pos, 1, RawSize(buf, pos))
RawInner(buf, pos, n) ==
    LET at[i \in 1..n] == IF i = 1 THEN RawListFirst(buf, pos) ELSE RawAfter(buf, at[i - 1])
    IN  [i \in 1..n |-> at[i]]
RawListNth(buf, pos, index) == RawInner(buf, pos, index + 1)[index + 1]

(* The macros that iterate over lists and maps.                            *)
RawList(buf, pos) == RawInner(buf, pos, RawSize(buf, pos))
Entries(inner) == [i \in 1..(Len(inner) \div 2) |-> <<inner[2 * i - 1], inner[2 * i]>>]
RawMap(buf, pos) == Entries(RawInner(buf, pos, 2 * RawSize(buf, pos)))

RECURSIVE RawEquals(_, _, _, _), RawEqualsTyped(_, _, _, _, _), RawEntriesEqual(_, _, _, _)

(* Every entry of a is paired with the first entry of b that is still free *)
(* and has the same key; their values must be equal.                       *)
RawEntriesEqual(a, entries, b, free) ==
    entries = <<>> \/
        \E i \in {SelectInSeq(free, LAMBDA e : RawEquals(a, entries[1][1], b, e[1]))} :
            /\ i # 0
            /\ RawEquals(a, entries[1][2], b, free[i][2])
            /\ RawEntriesEqual(a, Tail(entries), b, RemoveAt(free, i))

RawListsEqual(a, la, b, lb) == \A i \in 1..Len(la) : RawEquals(a, la[i], b, lb[i])

RawEqualsTyped(a, pa, b, pb, type) ==
    CASE type \in Atoms -> TRUE
      [] type \in Numbers -> RawNumber(a, pa, type) = RawNumber(b, pb, type)
      [] type \in Arrays \ {kStd.LargeInt} ->
            RawElements(a, pa, type, RawSize(a, pa)) = RawElements(b, pb, type, RawSize(b, pb))
      [] type = kStd.List ->
            /\ RawSize(a, pa) = RawSize(b, pb)
            /\ RawListsEqual(a, RawList(a, pa), b, RawList(b, pb))
      [] type = kStd.Map ->
            /\ RawSize(a, pa) = RawSize(b, pb)
            /\ RawEntriesEqual(a, RawMap(a, pa), b, RawMap(b, pb))
      [] OTHER -> FALSE

RawEquals(a, pa, b, pb) ==
    /\ RawType(a, pa) = RawType(b, pb)
    /\ RawEqualsTyped(a, pa, b, pb, RawType(a, pa))

RawStringEquals(buf, pos, str) == RawString(buf, pos) = str

ValueOfEntry(entries, i) == IF i = 0 THEN None ELSE entries[i][2]

RawFindEntry(entries, buf, kbuf, kpos) ==
    ValueOfEntry(entries, SelectInSeq(entries, LAMBDA e : RawEquals(buf, e[1], kbuf, kpos)))
RawMapFind(buf, pos, kbuf, kpos) == RawFindEntry(RawMap(buf, pos), buf, kbuf, kpos)

RawFindEntryStr(entries, buf, str) ==
    ValueOfEntry(entries, SelectInSeq(entries, LAMBDA e :
        RawType(buf, e[1]) = kStd.String /\ RawStringEquals(buf, e[1], str)))
RawMapFindStr(buf, pos, str) == RawFindEntryStr(RawMap(buf, pos), buf, str)
-----------------------------------------------------------------------------
(* The checks a receiver makes before it walks a message of `end` bytes.   *)

RawCheckSize(buf, pos, end) ==
    LET Longer(bytes, least) == end - pos >= 2 + bytes /\ Content(buf, pos + 2, bytes) >= least
    IN  /\ end - pos >= 2
        /\ Content(buf, pos + 1, 1) = 254 => Longer(2, ByteSizes)
        /\ Content(buf, pos + 1, 1) = 255 => Longer(4, ShortSizes)

RECURSIVE RawCheck(_, _, _), RawCheckTyped(_, _, _, _, _), RawCheckInner(_, _, _, _)

(* Value after value, each checked before the next one is looked for.      *)
RawCheckInner(buf, pos, n, end) ==
    n = 0 \/ /\ pos <= end
             /\ RawCheck(buf, pos, end)
             /\ RawCheckInner(buf, RawAfter(buf, pos), n - 1, end)

RawCheckElements(buf, type, first, size, end) == first <= end /\ end - first >= size * ElementSize(type)

RawCheckTyped(buf, pos, type, size, end) ==
    CASE type \in Atoms -> TRUE
      [] type \in Numbers -> end - pos >= 1 + ElementSize(type)
      [] type \in Arrays \ {kStd.LargeInt} ->
            /\ RawCheckSize(buf, pos, end)
            /\ RawCheckElements(buf, type, ArrayPtr(pos, Alignment(type), size), size, end)
      [] type = kStd.List ->
            RawCheckSize(buf, pos, end) /\ RawCheckInner(buf, ArrayPtr(pos, 1, size), size, end)
      [] type = kStd.Map ->
            RawCheckSize(buf, pos, end) /\ RawCheckInner(buf, ArrayPtr(pos, 1, size), 2 * size, end)
      [] OTHER -> FALSE

RawCheck(buf, pos, end) ==
    end - pos >= 1 /\ RawCheckTyped(buf, pos, RawType(buf, pos), RawSize(buf, pos), end)

RawMethodCallCheck(buf, end) ==
    /\ RawCheck(buf, 0, end)
    /\ RawType(buf, 0) = kStd.String
    /\ RawCheck(buf, RawAfter(buf, 0), end)

(* The check of the error details looks at the message again: `details`   *)
(* is computed from the code, not from the message.                        *)
RawErrorCheck(buf, message, details, end) ==
    /\ RawType(buf, 1) = kStd.String
    /\ RawCheck(buf, message, end)
    /\ RawType(buf, message) \in {kStd.String, kStd.Null}
    /\ RawCheck(buf, details, end)

RawResponseCheck(buf, end) ==
    /\ end >= 1
    /\ RawCheck(buf, 1, end)
    /\ Content(buf, 0, 1) = 0 => RawErrorCheck(buf, RawAfter(buf, 1), RawAfter(buf, 1), end)

RawMethod(buf) == RawString(buf, 0)
RawArg(buf) == RawAfter(buf, 0)
-----------------------------------------------------------------------------
(* stdvalue_equals on two values that share no memory.  The search for a   *)
(* key leaves j at the entry it found; the test that follows takes the     *)
(* last entry for "not found".                                             *)
RECURSIVE StdEquals(_, _)
StdEquals(a, b) ==
    LET MapEquals ==
            LET n == Len(a.keys)
                Pair(found, i) ==
                    LET free == {j \in 1..n : j \notin found.used /\ StdEquals(a.keys[i], b.keys[j])}
                        j == Min(free)
                    IN  IF found.ok /\ free # {} /\ j < n
                        THEN [ok |-> StdEquals(a.values[i], b.values[j]),
                              used |-> found.used \cup {j}]
                        ELSE [found EXCEPT !.ok = FALSE]
            IN  FoldLeft(Pair, [ok |-> TRUE, used |-> {}], [i \in 1..n |-> i]).ok
    IN  /\ a.type = b.type
        /\ CASE a.type \in Atoms -> TRUE
             [] a.type \in Numbers -> a.number = b.number
             [] a.type \in Arrays -> a.elems = b.elems
             [] a.type = kStd.List ->
                   /\ Len(a.list) = Len(b.list)
                   /\ \A i \in 1..Len(a.list) : StdEquals(a.list[i], b.list[i])
             [] a.type = kStd.Map -> Len(a.keys) = Len(b.keys) /\ MapEquals

(* stdmap_get and stdmap_get_str.                                          *)
StdMapGet(map, key) ==
    LET hits == {i \in 1..Len(map.keys) : StdEquals(map.keys[i], key)}
    IN  IF hits = {} THEN None ELSE Min(hits)
=============================================================================
