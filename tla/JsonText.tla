------------------------------ MODULE JsonText ------------------------------
(* json.cpp: the parser, the writer, and lookups in what was parsed.

   A text is a sequence of bytes, and a string value is one too.  A number is the
   decimal whose nearest double the code computes with: 0.d1d2... times ten to the
   power `point`, with at most ten digits and within a double's range. *)
EXTENDS Integers, Sequences, SequencesExt

Byte == 0..255

-----------------------------------------------------------------------------
(* Bytes.  TLA+ strings stand for the ASCII texts of the source. *)

(* From 32 on; the single quote stands in the backtick's place too. *)
Ascii == " !\"#$%&'()*+,-./0123456789:;<=>?@ABCDEFGHIJKLMNOPQRSTUVWXYZ[\\]^_'abcdefghijklmnopqrstuvwxyz{|}~"

Letter(s, i) == SubSeq(s, i, i)

Letters(s) == {Letter(s, i) : i \in 1..Len(s)}

NewLine == 10

Code == [c \in Letters(Ascii) \cup {"\n"} |->
           IF c = "\n" THEN NewLine ELSE 31 + Min({i \in 1..Len(Ascii) : Letter(Ascii, i) = c})]

Bytes(s) == [i \in 1..Len(s) |-> Code[Letter(s, i)]]

Digit == 48..57

HexDigit == Digit \cup 97..102 \cup 65..70

Hex(b) == CASE b \in Digit -> b - 48 [] b \in 97..102 -> b - 87 [] OTHER -> b - 55

(* appendUtf8() *)
Utf8(code) ==
  CASE code < 128         -> <<code>>
    [] code \in 128..2047 -> <<192 + code \div 64, 128 + (code % 64)>>
    [] OTHER              -> <<224 + code \div 4096, 128 + ((code \div 64) % 64), 128 + (code % 64)>>

(* What follows a backslash, and the byte it stands for. *)
Escapes == {<<"\"", 34>>, <<"\\", 92>>, <<"b", 8>>, <<"f", 12>>, <<"n", 10>>, <<"r", 13>>, <<"t", 9>>}

Unescaped == [e \in {Code[p[1]] : p \in Escapes} \cup {Code["/"]} |->
                IF e = Code["/"] THEN e
                ELSE (CHOOSE p \in Escapes : Code[p[1]] = e)[2]]

-----------------------------------------------------------------------------
(* Values. *)

Null      == [type |-> "null"]
Bool(b)   == [type |-> "bool", bool |-> b]
Number(n) == [type |-> "number", number |-> n]
String(s) == [type |-> "string", string |-> s]
Array(a)  == [type |-> "array", array |-> a]
Object(o) == [type |-> "object", object |-> o]

Entry(key, v) == [key |-> key, value |-> v]

(* strtod(): what the digits come to, the point lying behind `point` of them. *)
Decimal(negative, digits, point) ==
  LET nonzero == {i \in DOMAIN digits : digits[i] # 0}
      first   == Min(nonzero)
      scale   == point - first + 1   \* the zeros in front do not count
  IN IF nonzero = {} THEN [negative |-> FALSE, digits |-> <<>>, point |-> 0]
     ELSE [negative |-> negative, digits |-> SubSeq(digits, first, Max(nonzero)), point |-> scale]

(* Value::find(): the first entry of that name. *)
Find(v, key) ==
  LET hits == IF v.type = "object" THEN {i \in DOMAIN v.object : v.object[i].key = key} ELSE {}
  IN  IF hits = {} THEN Null ELSE v.object[Min(hits)].value

(* Fault: what is there already stays in front. *)
SetAppends(v, key, new) ==
  Object(Append(IF v.type = "object" THEN v.object ELSE <<>>, Entry(key, new)))

(* Value::set() *)
Set(v, key, new) ==
  LET object == IF v.type = "object" THEN v.object ELSE <<>>
      hits   == {i \in DOMAIN object : object[i].key = key}
  IN  Object(IF hits = {} THEN Append(object, Entry(key, new))
             ELSE [object EXCEPT ![Min(hits)].value = new])

-----------------------------------------------------------------------------
(* The parser.  Positions count from 1; a result says where it stopped. *)

Parsed(v, next) == [ok |-> TRUE, value |-> v, next |-> next]
Failed          == [ok |-> FALSE, value |-> Null, next |-> 0]

At(t, i, c) == i <= Len(t) /\ t[i] = Code[c]

AtOneOf(t, i, bytes) == i <= Len(t) /\ t[i] \in bytes

FirstOf(positions, default) == IF positions = {} THEN default ELSE Min(positions)

LineEnd(t, i) == FirstOf({j \in i..Len(t) : At(t, j, "\n")}, Len(t) + 1)

(* Fault: the star that opens the comment may close it too. *)
BlockEndEarly(t, i) ==
  FirstOf({j \in i + 3..Len(t) + 1 : At(t, j - 2, "*") /\ At(t, j - 1, "/")}, Len(t) + 1)

BlockEnd(t, i) ==
  FirstOf({j \in i + 4..Len(t) + 1 : At(t, j - 2, "*") /\ At(t, j - 1, "/")}, Len(t) + 1)

RECURSIVE Skip(_, _)
Skip(t, i) ==
  IF AtOneOf(t, i, {32, 9, 13, 10}) THEN Skip(t, i + 1)
  ELSE IF At(t, i, "/") /\ At(t, i + 1, "/") THEN Skip(t, LineEnd(t, i))
  ELSE IF At(t, i, "/") /\ At(t, i + 1, "*") THEN Skip(t, BlockEnd(t, i))
  ELSE i

Literal(t, i, word, v) ==
  IF i + Len(word) - 1 <= Len(t) /\ SubSeq(t, i, i + Len(word) - 1) = Bytes(word)
  THEN Parsed(v, i + Len(word)) ELSE Failed

(* Behind the opening quote, with what was read so far. *)
RECURSIVE ParseString(_, _, _)
ParseString(t, i, out) ==
  LET hex == i + 2..i + 5
      code == FoldLeft(LAMBDA sum, j : 16 * sum + Hex(t[j]), 0, <<i + 2, i + 3, i + 4, i + 5>>)
  IN IF i > Len(t) THEN Failed
     ELSE IF At(t, i, "\"") THEN Parsed(out, i + 1)
     ELSE IF ~At(t, i, "\\") THEN ParseString(t, i + 1, Append(out, t[i]))
     ELSE CASE AtOneOf(t, i + 1, DOMAIN Unescaped) ->
                 ParseString(t, i + 2, Append(out, Unescaped[t[i + 1]]))
            [] At(t, i + 1, "u") /\ \A j \in hex : AtOneOf(t, j, HexDigit) ->
                 ParseString(t, i + 6, out \o Utf8(code))
            [] OTHER -> Failed

DigitsEnd(t, i) == FirstOf({j \in i..Len(t) : t[j] \notin Digit}, Len(t) + 1)

Signed(t, i) == IF At(t, i, "-") \/ At(t, i, "+") THEN i + 1 ELSE i

DigitsIn(t, from, to) == [j \in 1..to - from |-> t[from + j - 1] - 48]

FractionEnd(t, whole) == IF At(t, whole, ".") THEN DigitsEnd(t, whole + 1) ELSE whole

Exponent(t, from, to, down) ==
  FoldLeft(LAMBDA sum, d : 10 * sum + (IF down THEN -d ELSE d), 0, DigitsIn(t, from, to))

(* Behind the digits, with how many of them lie before the point. *)
Scaled(t, end, negative, digits, point) ==
  LET power == Signed(t, end + 1)
      next  == DigitsEnd(t, power)
  IN IF digits = <<>> THEN Failed
     ELSE IF At(t, end, "e") \/ At(t, end, "E")
     THEN Parsed(Number(Decimal(negative, digits, point + Exponent(t, power, next, At(t, end + 1, "-")))), next)
     ELSE Parsed(Number(Decimal(negative, digits, point)), end)

Mantissa(t, start, whole, end, negative) ==
  Scaled(t, end, negative, DigitsIn(t, start, whole) \o DigitsIn(t, whole + 1, end), whole - start)

ParseNumber(t, i) ==
  LET start == Signed(t, i)
      whole == DigitsEnd(t, start)
  IN  Mantissa(t, start, whole, FractionEnd(t, whole), At(t, i, "-"))

RECURSIVE ParseValue(_, _)

MemberValue(key, v) ==
  IF key.ok /\ v.ok THEN Parsed(Entry(key.value, v.value), v.next) ELSE Failed

BehindKey(t, key, colon) ==
  IF At(t, colon, ":") THEN MemberValue(key, ParseValue(t, Skip(t, colon + 1))) ELSE Failed

AfterQuote(t, key) == IF key.ok THEN BehindKey(t, key, Skip(t, key.next)) ELSE Failed

Member(t, i) == IF At(t, i, "\"") THEN AfterQuote(t, ParseString(t, i + 1, <<>>)) ELSE Failed

Item(t, i, close) == IF close = "}" THEN Member(t, i) ELSE ParseValue(t, i)

(* The loop of parseObject() and of parseArray(), and what it does behind an item. *)
RECURSIVE Items(_, _, _, _)

(* Fault: the end of the text closes a list. *)
BehindItemOrAtTheEnd(t, after, close, items) ==
  CASE At(t, after, ",") -> Items(t, Skip(t, after + 1), close, items)
    [] At(t, after, close) -> Parsed(items, after + 1)
    [] OTHER -> IF after > Len(t) THEN Parsed(items, after) ELSE Failed

BehindItem(t, after, close, items) ==
  CASE At(t, after, ",") -> Items(t, Skip(t, after + 1), close, items)
    [] At(t, after, close) -> Parsed(items, after + 1)
    [] OTHER -> Failed

AfterItem(t, item, close, items) ==
  IF item.ok THEN BehindItem(t, Skip(t, item.next), close, Append(items, item.value)) ELSE Failed

Items(t, i, close, items) ==
  IF At(t, i, close) THEN Parsed(items, i + 1)   \* a trailing comma, or none at all
  ELSE AfterItem(t, Item(t, i, close), close, items)

(* What was parsed, made a value. *)
As(Make(_), result) == IF result.ok THEN Parsed(Make(result.value), result.next) ELSE Failed

ParseValue(t, i) ==
  CASE At(t, i, "{")  -> As(Object, Items(t, Skip(t, i + 1), "}", <<>>))
    [] At(t, i, "[")  -> As(Array, Items(t, Skip(t, i + 1), "]", <<>>))
    [] At(t, i, "\"") -> As(String, ParseString(t, i + 1, <<>>))
    [] At(t, i, "t")  -> Literal(t, i, "true", Bool(TRUE))
    [] At(t, i, "f")  -> Literal(t, i, "false", Bool(FALSE))
    [] At(t, i, "n")  -> Literal(t, i, "null", Null)
    [] OTHER          -> ParseNumber(t, i)

WholeText(t, result) == IF result.ok /\ Skip(t, result.next) = Len(t) + 1 THEN result ELSE Failed

ParseText(t) == WholeText(t, ParseValue(t, Skip(t, 1)))

-----------------------------------------------------------------------------
(* The writer. *)

Repeated(b, n) == [i \in 1..n |-> b]

Break(indent, depth) == IF indent < 0 THEN <<>> ELSE <<NewLine>> \o Repeated(32, indent * depth)

Ascending(digits) == [i \in DOMAIN digits |-> 48 + digits[i]]

Pad2(n) == <<48 + n \div 10, 48 + (n % 10)>>   \* printf writes two digits or more

(* %lld for what is whole and below 1e15, else %.10g. *)
Magnitude(n) ==
  LET digits == Ascending(n.digits)
      x      == n.point - 1
      power  == IF x < 0 THEN -x ELSE x
  IN IF n.digits = <<>> THEN Bytes("0")
     ELSE IF Len(digits) <= n.point /\ n.point <= 15
     THEN digits \o Repeated(48, n.point - Len(digits))
     ELSE CASE x < -4 \/ x >= 10 ->
                 <<digits[1]>> \o (IF Len(digits) = 1 THEN <<>> ELSE Bytes(".") \o Tail(digits))
                   \o Bytes(IF x < 0 THEN "e-" ELSE "e+")
                   \o (IF power < 100 THEN Pad2(power) ELSE <<48 + power \div 100>> \o Pad2(power % 100))
            [] x \in -4..-1 -> Bytes("0.") \o Repeated(48, -n.point) \o digits
            [] OTHER -> SubSeq(digits, 1, n.point) \o Bytes(".") \o SubSeq(digits, n.point + 1, Len(digits))

DumpNumber(n) == (IF n.negative THEN Bytes("-") ELSE <<>>) \o Magnitude(n)

HexDigits == Bytes("0123456789abcdef")

UnicodeEscape(b) == Bytes("\\u00") \o <<HexDigits[b \div 16 + 1], HexDigits[(b % 16) + 1]>>

Escaped(b) ==
  IF \E p \in Escapes : p[2] = b
  THEN Bytes("\\") \o Bytes((CHOOSE p \in Escapes : p[2] = b)[1])
  ELSE IF b < 32 THEN UnicodeEscape(b) ELSE <<b>>

DumpString(s) == Bytes("\"") \o FlattenSeq([i \in DOMAIN s |-> Escaped(s[i])]) \o Bytes("\"")

(* "Short all-number arrays (ranges, mostly) stay on one line." *)
Inline(a) == Len(a) <= 4 /\ \A i \in DOMAIN a : a[i].type \in {"number", "bool"}

Between(parts, comma) ==
  FlattenSeq([i \in DOMAIN parts |-> (IF i = 1 THEN <<>> ELSE comma) \o parts[i]])

RECURSIVE DumpValue(_, _, _)
DumpValue(v, indent, depth) ==
  LET Inner(w)   == DumpValue(w, indent, depth + 1)
      breakIn    == Break(indent, depth + 1)
      breakOut   == Break(indent, depth)
      colon      == Bytes(IF indent < 0 THEN ":" ELSE ": ")
  IN CASE v.type = "null"   -> Bytes("null")
       [] v.type = "bool"   -> Bytes(IF v.bool THEN "true" ELSE "false")
       [] v.type = "number" -> DumpNumber(v.number)
       [] v.type = "string" -> DumpString(v.string)
       [] v.type = "array"  ->
            LET items == [i \in DOMAIN v.array |-> Inner(v.array[i])]
            IN IF items = <<>> THEN Bytes("[]")
               ELSE IF Inline(v.array)
               THEN Bytes("[") \o Between(items, Bytes(", ")) \o Bytes("]")
               ELSE Bytes("[") \o breakIn \o Between(items, Bytes(",") \o breakIn)
                      \o breakOut \o Bytes("]")
       [] OTHER ->
            LET items == [i \in DOMAIN v.object |->
                            DumpString(v.object[i].key) \o colon \o Inner(v.object[i].value)]
            IN IF items = <<>> THEN Bytes("{}")
               ELSE Bytes("{") \o breakIn \o Between(items, Bytes(",") \o breakIn)
                      \o breakOut \o Bytes("}")

Dump(v, indent) == DumpValue(v, indent, 0) \o Break(indent, 0)
=============================================================================
