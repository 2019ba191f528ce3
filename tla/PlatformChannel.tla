--------------------------- MODULE PlatformChannel --------------------------
(***************************************************************************)
(* The objects of a platform channel: platch_encode, platch_decode and     *)
(* what the platch_respond functions send (platformchannel.c).             *)
(***************************************************************************)
EXTENDS StdRaw, JsonCodec, PlatformSend

(* enum platch_codec and struct platch_obj.                                *)
StdMessage(v) == [codec |-> "std_message", std_value |-> v]
StdCall(method, arg) == [codec |-> "std_call", method |-> method, std_arg |-> arg]
StdSuccess(v) == [codec |-> "std_response", success |-> TRUE, std_result |-> v]
StdError(code, msg, details) ==
    [codec |-> "std_response", success |-> FALSE, error_code |-> code, error_msg |-> msg,
     std_details |-> details]
JsonMessage(v) == [codec |-> "json_message", json_value |-> v]
JsonCall(method, arg) == [codec |-> "json_call", json_method |-> method, json_arg |-> arg]
JsonSuccess(v) == [codec |-> "json_response", success |-> TRUE, json_result |-> v]
JsonError(code, msg, details) ==
    [codec |-> "json_response", success |-> FALSE, json_code |-> code, json_msg |-> msg,
     json_details |-> details]
StringMessage(s) == [codec |-> "string", string_value |-> s]
BinaryMessage(bytes) == [codec |-> "binary", binary_data |-> bytes]

JsonCodecs == {"json_message", "json_call", "json_response"}
StdCodecs == {"std_message", "std_call", "std_response"}

(* The values a standard message consists of, in the order they are        *)
(* measured and written; the response starts with a byte of its own.       *)
StdParts(o) ==
    CASE o.codec = "std_message" -> <<o.std_value>>
      [] o.codec = "std_call" -> <<StdString(o.method), o.std_arg>>
      [] o.codec = "std_response" ->
            IF o.success THEN <<o.std_result>>
            ELSE <<StdString(o.error_code), StdString(o.error_msg), o.std_details>>

(* The JSON value that stands for the object; an error may come without a  *)
(* message.                                                                *)
JsonRoot(o) ==
    CASE o.codec = "json_message" -> o.json_value
      [] o.codec = "json_call" ->
            JsonObject(<<<<"method">>, <<"args">>>>, <<JsonString(o.json_method), o.json_arg>>)
      [] o.codec = "json_response" ->
            JsonArray(IF o.success THEN <<o.json_result>>
                      ELSE <<JsonString(o.json_code),
                             IF o.json_msg = <<>> THEN JsonNull ELSE JsonString(o.json_msg),
                             o.json_details>>)

(* The first half of platch_encode: the bytes that are allocated.  The     *)
(* JSON codecs add one for the zero that sprintf writes.                   *)
AllocatedSize(o) ==
    CASE o.codec = "not_implemented" -> 0
      [] o.codec = "string" -> Len(o.string_value)
      [] o.codec = "binary" -> Len(o.binary_data)
      [] o.codec \in StdCodecs ->
            FoldLeft(LAMBDA pos, v : CalcValueSize(v, pos),
                     IF o.codec = "std_response" THEN 1 ELSE 0, StdParts(o))
      [] o.codec \in JsonCodecs -> JsonSize(JsonRoot(o)) + 1

(* The second half: what is written, and how much of it is sent.           *)
Written(o) ==
    CASE o.codec = "not_implemented" -> <<>>
      [] o.codec = "string" -> o.string_value
      [] o.codec = "binary" -> o.binary_data
      [] o.codec \in StdCodecs ->
            FoldLeft(LAMBDA buf, v : WriteValue(v, buf),
                     IF o.codec = "std_response" THEN Item(IF o.success THEN 0 ELSE 1, 1)
                     ELSE <<>>,
                     StdParts(o))
      [] o.codec \in JsonCodecs -> JsonWrite(JsonRoot(o))

SentSize(o) == IF o.codec \in JsonCodecs THEN AllocatedSize(o) - 1 ELSE AllocatedSize(o)

Encode(o) == SubSeq(Written(o), 1, SentSize(o))
-----------------------------------------------------------------------------
(* What the platch_respond functions of the three kinds of channel send;   *)
(* the event channels send the same objects without being asked.  A text   *)
(* is one opaque character, a number in the standard codec.                *)
Name == [result |-> 91, error |-> 92, code |-> 93, message |-> 94, details |-> 95,
         illegalargument |-> 96, nativeerror |-> 97, strerror |-> 98]
Text(kind, s) == <<IF kind = "json" THEN ToString(s) ELSE s>>

RespondSuccess(kind, v) ==
    CASE kind = "std" -> StdSuccess(v)
      [] kind = "json" -> JsonSuccess(v)
      [] kind = "pigeon" -> StdMessage(StdMap(<<StdString(Text(kind, Name.result))>>, <<v>>))

RespondError(kind, code, msg, details) ==
    CASE kind = "std" -> StdError(Text(kind, code), Text(kind, msg), details)
      [] kind = "json" -> JsonError(Text(kind, code), Text(kind, msg), details)
      [] kind = "pigeon" ->
            StdMessage(StdMap(<<StdString(Text(kind, Name.error))>>,
                <<StdMap(<<StdString(Text(kind, Name.code)), StdString(Text(kind, Name.message)),
                           StdString(Text(kind, Name.details))>>,
                         <<StdString(Text(kind, code)), StdString(Text(kind, msg)), details>>)>>))

RespondIllegalArg(kind, msg) ==
    RespondError(kind, Name.illegalargument, msg, IF kind = "json" THEN JsonNull ELSE StdNull)

RespondNativeError(kind, errno) ==
    RespondError(kind, Name.nativeerror, Name.strerror,
        IF kind = "json" THEN JsonNumber(<<ToString(errno)>>) ELSE StdNumber(kStd.Int32, errno))

SuccessEvent(kind, v) == IF kind = "json" THEN JsonSuccess(v) ELSE StdSuccess(v)
ErrorEvent(kind, code, msg, details) ==
    IF kind = "json" THEN JsonError(Text(kind, code), Text(kind, msg), details)
    ELSE StdError(Text(kind, code), Text(kind, msg), details)
-----------------------------------------------------------------------------
(* platch_decode.                                                          *)

DecodeStdMessage(read) == IF read.ok THEN StdMessage(read.value) ELSE Undecodable

DecodeStdCall(read) ==
    IF read.ok /\ read.value[1].type = kStd.String
    THEN StdCall(read.value[1].elems, read.value[2]) ELSE Undecodable

(* The first byte is taken for the truth of `success`.                     *)
StdChars(v) == IF v.type = kStd.String THEN v.elems ELSE <<>>
DecodeStdError(read) ==
    IF /\ read.ok /\ read.value[1].type = kStd.String
       /\ read.value[2].type \in {kStd.String, kStd.Null}
    THEN StdError(read.value[1].elems, StdChars(read.value[2]), read.value[3])
    ELSE Undecodable
DecodeStdSuccess(read) == IF read.ok THEN StdSuccess(read.value[1]) ELSE Undecodable
DecodeStdResponse(buf) ==
    IF Content(buf, 0, 1) # 0 THEN DecodeStdSuccess(DecodeValues(buf, 1, 1, Len(buf)))
    ELSE DecodeStdError(DecodeValues(buf, 1, 3, Len(buf)))

DecodeJsonMessage(root) == IF root.ok THEN JsonMessage(root.value) ELSE Undecodable

(* A call without a method or without arguments leaves that field          *)
(* uninitialised; Flutter always sends both.                               *)
DecodeJsonCall(root) ==
    LET Has(key) == JsonGet(root.value, key) # 0
        At(key) == root.value.values[JsonGet(root.value, key)]
    IN  IF /\ root.ok /\ root.value.type = "object"
           /\ \A i \in 1..Len(root.value.keys) :
                 \/ root.value.keys[i] = <<"method">> /\ root.value.values[i].type = "string"
                 \/ root.value.keys[i] = <<"args">>
           /\ Has(<<"method">>) /\ Has(<<"args">>)
        THEN JsonCall(At(<<"method">>).chars, At(<<"args">>)) ELSE Undecodable

DecodeJsonResponse(root) ==
    LET a == root.value.array
        Chars(v) == IF v.type = "string" THEN v.chars ELSE <<>>
    IN  CASE ~(root.ok /\ root.value.type = "array") -> Undecodable
          [] root.ok /\ root.value.type = "array" /\ Len(a) = 1 -> JsonSuccess(a[1])
          [] OTHER ->
                IF Len(a) = 3 /\ a[1].type = "string" /\ a[2].type \in {"string", "null"}
                THEN JsonError(a[1].chars, Chars(a[2]), a[3]) ELSE Undecodable

DecodeJson(codec, root) ==
    CASE codec = "json_message" -> DecodeJsonMessage(root)
      [] codec = "json_call" -> DecodeJsonCall(root)
      [] codec = "json_response" -> DecodeJsonResponse(root)

Decode(codec, buf) ==
    CASE buf = <<>> -> NotImplemented
      [] buf # <<>> /\ codec = "string" -> StringMessage(buf)
      [] buf # <<>> /\ codec = "binary" -> BinaryMessage(buf)
      [] buf # <<>> /\ codec \in JsonCodecs -> DecodeJson(codec, JsonDecode(buf))
      [] buf # <<>> /\ codec = "std_message" -> DecodeStdMessage(DecodeValue(buf, 0, Len(buf)))
      [] buf # <<>> /\ codec = "std_call" -> DecodeStdCall(DecodeValues(buf, 0, 2, Len(buf)))
      [] buf # <<>> /\ codec = "std_response" -> DecodeStdResponse(buf)
-----------------------------------------------------------------------------
(* The object in the bytes of an answer.                                   *)
ReceivedAnswer(codec, answer) == Decode(codec, Encode(answer))

(* How Flutter reads an envelope: a first byte of 0 is a success.          *)
FlutterReads(buf) ==
    LET Value(read) == read.value
        Envelope(v) == StdError(v[1].elems, v[2].elems, v[3])
    IN  IF Content(buf, 0, 1) = 0 THEN StdSuccess(Value(DecodeValue(buf, 1, Len(buf))))
        ELSE Envelope(Value(DecodeValues(buf, 1, 3, Len(buf))))

(* Equality as the header states it: lists in order, maps in any order.    *)
RECURSIVE SameValue(_, _)
SameValue(a, b) ==
    /\ a.type = b.type
    /\ CASE a.type = kStd.List ->
               /\ Len(a.list) = Len(b.list)
               /\ \A i \in 1..Len(a.list) : SameValue(a.list[i], b.list[i])
         [] a.type = kStd.Map ->
               /\ Len(a.keys) = Len(b.keys)
               /\ \A i \in 1..Len(a.keys) : \E j \in 1..Len(b.keys) :
                     SameValue(a.keys[i], b.keys[j]) /\ SameValue(a.values[i], b.values[j])
         [] OTHER -> a = b

RECURSIVE HasType(_, _)
HasType(v, types) ==
    \/ v.type \in types
    \/ v.type = kStd.List /\ \E i \in 1..Len(v.list) : HasType(v.list[i], types)
    \/ v.type = kStd.Map /\ \E i \in 1..Len(v.keys) :
            HasType(v.keys[i], types) \/ HasType(v.values[i], types)

(* A JSON value that the text represents without loss, and how the decoder *)
(* sees it: integers become numbers.                                       *)
RECURSIVE Faithful(_)
Faithful(v) ==
    CASE v.type = "string" -> \A i \in 1..Len(v.chars) : v.chars[i] \notin NeedsEscape
      [] v.type = "number" -> Len(v.digits) <= GDigits
      [] v.type = "array" -> \A i \in 1..Len(v.array) : Faithful(v.array[i])
      [] v.type = "object" -> \A i \in 1..Len(v.values) : Faithful(v.values[i])
      [] OTHER -> TRUE
RECURSIVE AsRead(_)
AsRead(v) ==
    CASE v.type = "integer" -> JsonNumber(v.digits)
      [] v.type = "array" -> JsonArray([i \in 1..Len(v.array) |-> AsRead(v.array[i])])
      [] v.type = "object" -> JsonObject(v.keys, [i \in 1..Len(v.values) |-> AsRead(v.values[i])])
      [] OTHER -> v
RECURSIVE Tokens(_)
Tokens(v) ==
    CASE v.type = "array" -> 1 + FoldLeft(LAMBDA n, e : n + Tokens(e), 0, v.array)
      [] v.type = "object" -> 1 + FoldLeft(LAMBDA n, e : n + 1 + Tokens(e), 0, v.values)
      [] OTHER -> 1

(* platch_encode measures an object in one pass and writes it in another:  *)
(* for every codec the write pass fills exactly the bytes that were        *)
(* allocated, and platch_decode gets the object back.  A JSON text beyond  *)
(* the decoder's token list is refused; characters that are escaped come   *)
(* back escaped but never change the structure.                            *)
WrittenAsMeasured(o, buf) ==
    /\ Len(buf) + (IF o.codec \in JsonCodecs THEN 1 ELSE 0) = AllocatedSize(o)
    /\ o.codec \in {"std_message", "std_call"} => Decode(o.codec, buf) = o
    /\ o.codec = "std_response" => FlutterReads(buf) = o

JsonReadBack(v, read) ==
    /\ read.ok <=> Tokens(v) <= MaxTokens
    /\ read.ok => Tokens(read.value) = Tokens(v)
    /\ read.ok /\ Faithful(v) => read.value = AsRead(v)

PassesAgree(o, buf) ==
    /\ WrittenAsMeasured(o, Written(o))
    /\ o.codec \in JsonCodecs => JsonReadBack(JsonRoot(o), JsonDecode(buf))

Values == {o.std_value : o \in {m \in Objects : m.codec = "std_message"}}
JsonValues == {o.json_value : o \in {m \in Objects : m.codec = "json_message"}}

(* The raw API sees in an encoded message what the decoder sees: the value *)
(* ends where the buffer ends, it equals another one exactly when the      *)
(* values are equal up to the order of map entries, a lookup finds the     *)
(* value stored with the key, and no strict prefix of the message is       *)
(* accepted, by the decoder or by raw_std_value_check (which forgets the   *)
(* padding in front of a float64).  stdvalue_equals agrees on everything   *)
(* but maps.                                                               *)
ValueReadersAgree(v, buf, end) ==
    /\ HasType(v, {kStd.LargeInt}) \/ RawCheck(buf, 0, end)
    /\ RawAfter(buf, 0) = end
    /\ \A n \in 0..(end - 1) :
          /\ ~DecodeValue(buf, 0, n).ok
          /\ RawCheck(buf, 0, n) => HasType(v, {kStd.Float64})
    /\ HasType(v, {kStd.LargeInt}) \/ \A w \in Values :
          /\ RawEquals(buf, 0, WriteValue(w, <<>>), 0) <=> SameValue(v, w)
          /\ HasType(v, {kStd.Map}) \/ (StdEquals(v, w) <=> SameValue(v, w))
    /\ v.type = kStd.List => \A i \in 1..Len(v.list) :
          DecodeValue(buf, RawListNth(buf, 0, i - 1), end).value = v.list[i]
    /\ v.type = kStd.Map => \A i \in 1..Len(v.keys) :
          \A at \in {RawMapFind(buf, 0, WriteValue(v.keys[i], <<>>), 0)} :
              /\ at # None /\ DecodeValue(buf, at, end).value = v.values[i]
              /\ v.keys[i].type = kStd.String => RawMapFindStr(buf, 0, v.keys[i].elems) = at
              /\ HasType(v.keys[i], {kStd.Map}) \/ StdMapGet(v, v.keys[i]) = i

ReadersAgree(o, buf, end) ==
    /\ o.codec = "std_message" => ValueReadersAgree(o.std_value, buf, end)
    /\ o.codec = "std_call" =>
          /\ HasType(o.std_arg, {kStd.LargeInt}) \/ RawMethodCallCheck(buf, end)
          /\ RawMethod(buf) = o.method
          /\ DecodeValue(buf, RawArg(buf), end).value = o.std_arg
    /\ o.codec = "std_response" /\ ~HasType(StdParts(o)[1], {kStd.LargeInt}) =>
          (RawResponseCheck(buf, end) <=> DecodeStdResponse(buf) # Undecodable)
    /\ o.codec = "json_message" => \A w \in JsonValues :
          o.json_value.type = "object" \/ (JsonEquals(o.json_value, w) <=> o.json_value = w)

(* What is written is what was measured, and all readers agree on it.      *)
CodecAgrees ==
    \A e \in {exchanges[x] : x \in 1..Len(exchanges)} : \A buf \in {Encode(e.object)} :
        PassesAgree(e.object, buf) /\ ReadersAgree(e.object, buf, Len(buf))
=============================================================================
