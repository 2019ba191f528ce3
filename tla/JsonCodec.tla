------------------------------ MODULE JsonCodec -----------------------------
(***************************************************************************)
(* The JSON side of platformchannel.c: the size pass, the write pass and   *)
(* the decoder.  A number is the sequence of its decimal digits.           *)
(***************************************************************************)
EXTENDS JsonText

CONSTANTS
    GDigits,     \* 6: the digits "%g" keeps
    MaxTokens    \* JSON_DECODE_TOKENLIST_SIZE, 128

ASSUME JsonLimits == GDigits \in Nat \ {0} /\ MaxTokens \in Nat

(* struct json_value and the macros that build one.                        *)
JsonNull == [type |-> "null"]
JsonBool(b) == [type |-> IF b THEN "true" ELSE "false"]
JsonNumber(digits) == [type |-> "number", digits |-> digits]
JsonInteger(digits) == [type |-> "integer", digits |-> digits]
JsonString(chars) == [type |-> "string", chars |-> chars]
JsonArray(array) == [type |-> "array", array |-> array]
JsonObject(keys, values) == [type |-> "object", keys |-> keys, values |-> values]

Literal ==
    [null |-> <<"n", "u", "l", "l">>, true |-> <<"t", "r", "u", "e">>,
     false |-> <<"f", "a", "l", "s", "e">>]

(* "%g": past GDigits digits the rest goes into the exponent.  Rounding of *)
(* the last digit kept is left out.                                        *)
FormatG(digits) ==
    IF Len(digits) <= GDigits THEN digits
    ELSE SubSeq(digits, 1, GDigits) \o <<"e", ToString(Len(digits) - GDigits)>>
-----------------------------------------------------------------------------
(* The size pass.  Only the string values are escaped, not the keys.       *)

EscapedLength(chars) ==
    FoldLeft(LAMBDA n, c : n + (IF c \in NeedsEscape THEN 2 ELSE 1), 0, chars)

RECURSIVE JsonSize(_)
JsonSize(v) ==
    LET Commas(n) == IF n = 0 THEN 0 ELSE n - 1
        Sum(ns) == FoldLeft(LAMBDA a, b : a + b, 0, ns)
    IN  CASE v.type \in DOMAIN Literal -> Len(Literal[v.type])
          [] v.type = "number" -> Len(FormatG(v.digits))
          [] v.type = "integer" -> Len(v.digits)
          [] v.type = "string" -> 2 + EscapedLength(v.chars)
          [] v.type = "array" ->
                2 + Commas(Len(v.array)) + Sum([i \in 1..Len(v.array) |-> JsonSize(v.array[i])])
          [] v.type = "object" ->
                2 + Commas(Len(v.keys))
                  + Sum([i \in 1..Len(v.keys) |-> Len(v.keys[i]) + 3 + JsonSize(v.values[i])])
-----------------------------------------------------------------------------
(* The write pass.                                                         *)

Quoted(chars) == <<Quote>> \o chars \o <<Quote>>
CommaSeparated(texts) ==
    FoldLeft(LAMBDA a, t : IF a = <<>> THEN t ELSE a \o <<",">> \o t, <<>>, texts)

RECURSIVE JsonWrite(_)
JsonWrite(v) ==
    CASE v.type \in DOMAIN Literal -> Literal[v.type]
      [] v.type = "number" -> FormatG(v.digits)
      [] v.type = "integer" -> v.digits
      [] v.type = "string" -> Quoted(Escaped(v.chars))
      [] v.type = "array" ->
            <<"[">> \o CommaSeparated([i \in 1..Len(v.array) |-> JsonWrite(v.array[i])]) \o <<"]">>
      [] v.type = "object" ->
            <<"{">> \o CommaSeparated([i \in 1..Len(v.keys) |->
                            Quoted(v.keys[i]) \o <<":">> \o JsonWrite(v.values[i])]) \o <<"}">>
-----------------------------------------------------------------------------
(* The decoder.  Tokens come from jsmn, which does not undo the escapes;   *)
(* the strings of the result point into the message.                       *)

JsonFailed == [ok |-> FALSE]

Delimiters == {",", "]", "}", ":"}
TokenEnd(text, pos, Stops(_)) ==
    LET ends == {p \in pos..Len(text) : Stops(p)}
    IN  IF ends = {} THEN Len(text) + 1 ELSE Min(ends)

(* The closing quote: the first one behind an even number of backslashes.  *)
StringEnd(text, pos) ==
    TokenEnd(text, pos, LAMBDA p :
        /\ text[p] = Quote
        /\ LET run == {q \in pos..p : \A r \in q..(p - 1) : text[r] = Backslash}
           IN  (p - Min(run)) % 2 = 0)

(* strtod of what FormatG wrote.                                           *)
ParseNumber(digits) ==
    LET es == {i \in 1..Len(digits) : digits[i] = "e"}
        e == Min(es)
        zeros == CHOOSE n \in 1..20 : ToString(n) = digits[e + 1]
    IN  IF es = {} THEN digits
        ELSE SubSeq(digits, 1, e - 1) \o [i \in 1..zeros |-> "0"]

Primitive(chars) ==
    CASE chars = <<>> -> JsonFailed
      [] chars # <<>> /\ chars[1] = "n" -> [ok |-> TRUE, value |-> JsonNull]
      [] chars # <<>> /\ chars[1] = "t" -> [ok |-> TRUE, value |-> JsonBool(TRUE)]
      [] chars # <<>> /\ chars[1] = "f" -> [ok |-> TRUE, value |-> JsonBool(FALSE)]
      [] OTHER -> [ok |-> TRUE, value |-> JsonNumber(ParseNumber(chars))]

(* The value at pos: where it ends, what it is, and the tokens it takes.   *)
RECURSIVE JsonValue(_, _), JsonItems(_, _, _)
JsonValue(text, pos) ==
    IF pos > Len(text) THEN JsonFailed
    ELSE IF text[pos] = Quote
    THEN LET end == StringEnd(text, pos + 1)
         IN  IF end > Len(text) THEN JsonFailed
             ELSE [ok |-> TRUE, pos |-> end + 1, tokens |-> 1,
                   value |-> JsonString(SubSeq(text, pos + 1, end - 1))]
    ELSE IF text[pos] \in {"[", "{"}
    THEN LET items == JsonItems(text, pos + 1, IF text[pos] = "[" THEN "]" ELSE "}")
             half == Len(items.values) \div 2
         IN  CASE ~items.ok -> JsonFailed
               [] items.ok /\ text[pos] = "[" ->
                     [ok |-> TRUE, pos |-> items.pos, tokens |-> items.tokens + 1,
                      value |-> JsonArray(items.values)]
               [] OTHER ->
                     IF \A i \in 1..half : items.values[2 * i - 1].type = "string"
                     THEN [ok |-> TRUE, pos |-> items.pos, tokens |-> items.tokens + 1,
                           value |-> JsonObject([i \in 1..half |-> items.values[2 * i - 1].chars],
                                                [i \in 1..half |-> items.values[2 * i]])]
                     ELSE JsonFailed
    ELSE LET end == TokenEnd(text, pos, LAMBDA p : text[p] \in Delimiters)
             read == Primitive(SubSeq(text, pos, end - 1))
         IN  IF read.ok THEN [ok |-> TRUE, pos |-> end, tokens |-> 1, value |-> read.value]
             ELSE JsonFailed

(* The values up to the closing bracket, keys and values of an object      *)
(* alike.                                                                  *)
JsonItems(text, pos, close) ==
    IF pos > Len(text) THEN JsonFailed
    ELSE IF text[pos] = close
    THEN [ok |-> TRUE, pos |-> pos + 1, tokens |-> 0, values |-> <<>>]
    ELSE IF text[pos] \in {",", ":"} THEN JsonItems(text, pos + 1, close)
    ELSE LET first == JsonValue(text, pos)
             rest == JsonItems(text, first.pos, close)
         IN  IF first.ok /\ rest.ok
             THEN [ok |-> TRUE, pos |-> rest.pos, tokens |-> first.tokens + rest.tokens,
                   values |-> <<first.value>> \o rest.values]
             ELSE JsonFailed

JsonDecode(text) ==
    LET read == JsonValue(text, 1)
    IN  IF read.ok /\ read.tokens <= MaxTokens THEN read ELSE JsonFailed
-----------------------------------------------------------------------------
(* jsvalue_equals on values that share no memory, with the search of       *)
(* stdvalue_equals and its mistake, and jsobject_get.                      *)
RECURSIVE JsonEquals(_, _)
JsonEquals(a, b) ==
    LET ObjectEquals ==
            LET n == Len(a.keys)
                Pair(found, i) ==
                    LET free == {j \in 1..n : j \notin found.used /\ a.keys[i] = b.keys[j]}
                        j == Min(free)
                    IN  IF found.ok /\ free # {} /\ j < n
                        THEN [ok |-> JsonEquals(a.values[i], b.values[j]),
                              used |-> found.used \cup {j}]
                        ELSE [found EXCEPT !.ok = FALSE]
            IN  FoldLeft(Pair, [ok |-> TRUE, used |-> {}], [i \in 1..n |-> i]).ok
    IN  /\ a.type = b.type
        /\ CASE a.type \in {"null", "true", "false"} -> TRUE
             [] a.type \in {"number", "integer"} -> a.digits = b.digits
             [] a.type = "string" -> a.chars = b.chars
             [] a.type = "array" ->
                   /\ Len(a.array) = Len(b.array)
                   /\ \A i \in 1..Len(a.array) : JsonEquals(a.array[i], b.array[i])
             [] a.type = "object" -> Len(a.keys) = Len(b.keys) /\ ObjectEquals

JsonGet(object, key) ==
    LET hits == {i \in 1..Len(object.keys) : object.keys[i] = key}
    IN  IF hits = {} THEN 0 ELSE Min(hits)
=============================================================================
