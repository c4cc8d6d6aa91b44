------------------------ MODULE SettingBindingProofs ------------------------
(* For any settings a module may describe, any values the file may have for them
   and any number of edits: what SettingSet leaves in a module's members is usable,
   follows the file alone, and of keys is what their names promise. *)
EXTENDS SettingBinding, WellFoundedInduction, TLAPS

-----------------------------------------------------------------------------
(* Reading one value. *)

LEMMA TruncateType ==
  ASSUME NEW n \in Int
  PROVE  Truncate(n) \in Int
BY DEF Truncate

LEMMA ClampType ==
  ASSUME NEW n \in Int, NEW low \in Int, NEW high \in Int, low <= high
  PROVE  Clamp(n, low, high) \in low..high
BY DEF Clamp

LEMMA OrderedRangeIsUsable ==
  ASSUME NEW a \in Int, NEW b \in Int
  PROVE  LET t == OrderedRange(a, b)
         IN t.min \in Int /\ t.max \in Int /\ t.min <= t.max /\ t.min >= 0
<1> DEFINE lo == IF b < a THEN b ELSE a
           hi == IF b < a THEN a ELSE b
<1>1. lo \in Int /\ hi \in Int /\ lo <= hi
  OBVIOUS
<1>2. OrderedRange(a, b) =
        IF lo < 0 THEN [min |-> 0, max |-> IF hi < 0 THEN 0 ELSE hi] ELSE [min |-> lo, max |-> hi]
  BY DEF OrderedRange
<1> HIDE DEF lo, hi
<1>3. CASE lo < 0 /\ hi < 0
  BY <1>1, <1>2, <1>3
<1>4. CASE lo < 0 /\ hi >= 0
  BY <1>1, <1>2, <1>4
<1>5. CASE lo >= 0
  BY <1>1, <1>2, <1>5
<1> QED
  BY <1>1, <1>3, <1>4, <1>5

(* A value of the file is one of these. *)
LEMMA ValueForms ==
  ASSUME NEW v \in Value
  PROVE  \/ v.type = "bool" /\ v.bool \in BOOLEAN
         \/ v.type = "number" /\ v.number \in Int
         \/ v.type = "array" /\ v.array[1] \in Int /\ v.array[2] \in Int
         \/ v.type = "string" /\ v.text \in STRING /\ v.number \in Int
<1>1. CASE v \in [type: {"bool"}, bool: BOOLEAN]
  BY <1>1
<1>2. CASE v \in [type: {"number"}, number: Int]
  BY <1>2
<1>3. CASE v \in [type: {"array"}, array: Int \X Int]
  BY <1>3
<1>4. CASE v \in [type: {"string"}, text: STRING, number: Int, rest: STRING]
  BY <1>4
<1> QED
  BY <1>1, <1>2, <1>3, <1>4 DEF Value

LEMMA KeyValueForms ==
  ASSUME NEW v \in KeyValue
  PROVE  \/ v.type \in {"bool", "array"}
         \/ v.type = "number" /\ v.number \in Int
         \/ v.type = "string" /\ v.name \in Name
<1>1. CASE v \in [type: {"bool"}, bool: BOOLEAN] \cup [type: {"array"}, array: Int \X Int]
  BY <1>1
<1>2. CASE v \in [type: {"number"}, number: Int]
  BY <1>2
<1>4. CASE v \in [type: {"string"}, name: Name]
  BY <1>4
<1> QED
  BY <1>1, <1>2, <1>4 DEF KeyValue

LEMMA SettingForms ==
  ASSUME NEW d \in Setting
  PROVE  /\ d.kind \in {"bool", "int", "number", "chance", "key", "text", "range", "enum"}
         /\ d.kind = "int" => d.min \in Int /\ d.max \in Int /\ d.def \in Int
         /\ d.kind \in {"number", "chance", "key"} => d.def \in Int
<1>1. CASE d \in [key: STRING, kind: {"bool"}, def: BOOLEAN]
  BY <1>1
<1>2. CASE d \in [key: STRING, kind: {"int"}, def: Int, min: Int, max: Int]
  BY <1>2
<1>3. CASE d \in [key: STRING, kind: {"number", "chance", "key"}, def: Int]
  BY <1>3
<1>4. CASE d \in [key: STRING, kind: {"text"}, def: STRING]
  BY <1>4
<1>5. CASE d \in [key: STRING, kind: {"range"}, def: [min: Int, max: Int]]
  BY <1>5
<1>6. CASE d \in [key: STRING, kind: {"enum"}, def: STRING, choices: SUBSET STRING]
  <2>1. d.kind = "enum"
    BY <1>6, SMTT(30)
  <2> QED
    BY <2>1
<1> QED
  BY <1>1, <1>2, <1>3, <1>4, <1>5, <1>6 DEF Setting

(* A name that is known names a code SettingSet::key() can hold. *)
LEMMA WordCodes == DOMAIN kKeys = 1..37 /\ \A w \in 1..37 : kKeys[w][2] \in 1..255
<1>1. DOMAIN kKeys = 1..37
  BY DEF kKeys
<1>2. \A w \in 1..37 : kKeys[w][2] \in 1..255
  BY DEF kKeys
<1> QED
  BY <1>1, <1>2

LEMMA NameForms ==
  ASSUME NEW n \in Name
  PROVE  \/ n.form = "word" /\ n.at \in 1..37
         \/ n.form = "letter" /\ n.at \in 0..25
         \/ n.form = "digit" /\ n.at \in 0..9
         \/ n.form \in {"function", "numeral", "other"} /\ n.at \in Int
<1>1. CASE n \in [form: {"word"}, at: Words]
  <2>1. Words = 1..37
    BY WordCodes DEF Words
  <2> QED
    BY <1>1, <2>1
<1>2. CASE n \in [form: {"letter"}, at: 0..25] \cup [form: {"digit"}, at: 0..9]
  BY <1>2
<1>3. CASE n \in Name \ ([form: {"word"}, at: Words] \cup [form: {"letter"}, at: 0..25]
                           \cup [form: {"digit"}, at: 0..9])
  BY <1>3 DEF Name
<1> QED
  BY <1>1, <1>2, <1>3

LEMMA ParsedKeyInRange ==
  ASSUME NEW n \in Name
  PROVE  parseKeyName(n, -1) \in -1..511
<1>1. CASE n.form = "word" /\ n.at \in 1..37
  <2>1. parseKeyName(n, -1) = kKeys[n.at][2]
    BY <1>1 DEF parseKeyName, Numeric
  <2> DEFINE w == n.at
  <2>2. w \in 1..37
    BY <1>1
  <2> HIDE DEF w
  <2>3. kKeys[w][2] \in 1..255
    BY <2>2, WordCodes
  <2> QED
    BY <2>1, <2>3 DEF w
<1>2. CASE n.form = "letter" /\ n.at \in 0..25
  BY <1>2 DEF parseKeyName, Numeric
<1>3. CASE n.form = "digit" /\ n.at \in 0..9
  BY <1>3 DEF parseKeyName, Numeric
<1>4. CASE n.form \in {"function", "numeral", "other"} /\ n.at \in Int
  <2>1. CASE n.form = "function"
    BY <1>4, <2>1 DEF parseKeyName, Numeric
  <2>2. CASE n.form = "numeral"
    BY <1>4, <2>2 DEF parseKeyName, Numeric
  <2>3. CASE n.form = "other"
    BY <2>3 DEF parseKeyName, Numeric
  <2> QED
    BY <1>4, <2>1, <2>2, <2>3
<1>5. \/ n.form = "word" /\ n.at \in 1..37
      \/ n.form = "letter" /\ n.at \in 0..25
      \/ n.form = "digit" /\ n.at \in 0..9
      \/ n.form \in {"function", "numeral", "other"} /\ n.at \in Int
  BY NameForms
<1> QED
  BY <1>1, <1>2, <1>3, <1>4, <1>5

(* Reading and being usable, kind by kind. *)
LEMMA ReadByKind ==
  ASSUME NEW d, NEW v
  PROVE  /\ d.kind = "bool" => Read(d, v) = boolean(v, d.def)
         /\ d.kind = "int" => Read(d, v) = integer(v, d.def, d.min, d.max)
         /\ d.kind = "number" => Read(d, v) = number(v, d.def)
         /\ d.kind = "text" => Read(d, v) = text(v, d.def)
         /\ d.kind = "chance" => Read(d, v) = chance(v, d.def)
         /\ d.kind = "range" => Read(d, v) = range(v, d.def)
         /\ d.kind = "key" => Read(d, v) = key(v, d.def)
         /\ d.kind = "enum" => Read(d, v) = choice(v, d.def, d.choices)
BY DEF Read
LEMMA UsableByKind ==
  ASSUME NEW d, NEW t
  PROVE  /\ d.kind = "bool" => (Usable(d, t) <=> t \in BOOLEAN)
         /\ d.kind = "int" => (Usable(d, t) <=> t \in d.min..d.max)
         /\ d.kind = "number" => (Usable(d, t) <=> t \in Int)
         /\ d.kind = "text" => (Usable(d, t) <=> t \in STRING)
         /\ d.kind = "chance" => (Usable(d, t) <=> t \in 0..100)
         /\ d.kind = "range" => (Usable(d, t) <=> t.min <= t.max /\ (t.min < 0 => t.min = t.max))
         /\ d.kind = "key" => (Usable(d, t) <=> \/ t \in 0..511
                               \/ \E v \in Values[d.key] : v.type = "number" /\ t = Truncate(v.number))
         /\ d.kind = "enum" => (Usable(d, t) <=> t \in d.choices)
BY DEF Usable
(* What is read of a value is usable: only what cannot be read is replaced by the
   default, and what is out of range ends up within it. *)
LEMMA ReadIsUsable ==
  ASSUME NEW i \in DOMAIN Described, NEW v \in Values[Described[i].key]
  PROVE  Usable(Described[i], Read(Described[i], v))
<1> DEFINE d == Described[i]
<1>1. /\ d \in Setting /\ Usable(d, d.def)
      /\ Values[d.key] \subseteq IF d.kind = "key" THEN KeyValue ELSE Value
  BY DescribedAssumption
<1>2. v \in Values[d.key]
  OBVIOUS
<1> SUFFICES Usable(d, Read(d, v))
  OBVIOUS
<1> HIDE DEF d
<1>3. /\ d.kind # "key" => v \in Value
      /\ d.kind = "key" => v \in KeyValue
  BY <1>1, <1>2
<1>4. CASE d.kind = "bool"
  <2>1. v \in Value /\ d.def \in BOOLEAN
    BY <1>1, <1>3, <1>4, UsableByKind
  <2>2. boolean(v, d.def) \in BOOLEAN
    BY <2>1, ValueForms DEF boolean
  <2> QED
    BY <1>4, <2>2, ReadByKind, UsableByKind
<1>5. CASE d.kind = "int"
  <2>1. v \in Value /\ d.def \in d.min..d.max /\ d.min \in Int /\ d.max \in Int
    BY <1>1, <1>3, <1>5, SettingForms, UsableByKind
  <2>2. d.min <= d.max
    BY <2>1
  <2>3. integer(v, d.def, d.min, d.max) \in d.min..d.max
    BY <2>1, <2>2, ValueForms, TruncateType, ClampType DEF integer
  <2> QED
    BY <1>5, <2>3, ReadByKind, UsableByKind
<1>6. CASE d.kind = "number"
  <2>1. v \in Value /\ d.def \in Int
    BY <1>1, <1>3, <1>6, UsableByKind
  <2>2. number(v, d.def) \in Int
    BY <2>1, ValueForms DEF number
  <2> QED
    BY <1>6, <2>2, ReadByKind, UsableByKind
<1>7. CASE d.kind = "text"
  <2>1. v \in Value /\ d.def \in STRING
    BY <1>1, <1>3, <1>7, UsableByKind
  <2>2. text(v, d.def) \in STRING
    BY <2>1, ValueForms DEF text
  <2> QED
    BY <1>7, <2>2, ReadByKind, UsableByKind
<1>8. CASE d.kind = "chance"
  <2>1. v \in Value /\ d.def \in 0..100
    BY <1>1, <1>3, <1>8, UsableByKind
  <2> DEFINE parsed == CASE v.type = "number" -> IF v.number > 100 THEN Percent(v.number) ELSE v.number
                         [] v.type = "string" /\ v.rest = "%" -> Percent(v.number)
                         [] v.type = "string" /\ v.rest = "" ->
                              IF v.number > 100 THEN Percent(v.number) ELSE v.number
                         [] OTHER -> d.def
  <2>2. v.type \in {"number", "string"} => v.number \in Int /\ Percent(v.number) \in Int
    BY <2>1, ValueForms DEF Percent
  <2>3. parsed \in Int
    <3>1. CASE v.type = "number"
      BY <2>2, <3>1
    <3>2. CASE v.type = "string" /\ v.rest = "%"
      BY <2>2, <3>2
    <3>3. CASE v.type = "string" /\ v.rest = ""
      BY <2>2, <3>3
    <3>4. CASE v.type = "string" /\ v.rest \notin {"%", ""}
      <4>1. parsed = d.def
        BY <3>4
      <4> HIDE DEF parsed
      <4> QED
        BY <2>1, <4>1
    <3>5. CASE v.type \notin {"number", "string"}
      <4>1. parsed = d.def
        BY <3>5
      <4> HIDE DEF parsed
      <4> QED
        BY <2>1, <4>1
    <3> QED
      BY <3>1, <3>2, <3>3, <3>4, <3>5
  <2>4. chance(v, d.def) = Clamp(parsed, 0, 100)
    BY DEF chance
  <2> HIDE DEF parsed
  <2>5. Clamp(parsed, 0, 100) \in 0..100
    BY <2>3 DEF Clamp
  <2> QED
    BY <1>8, <2>4, <2>5, ReadByKind, UsableByKind
<1>9. CASE d.kind = "range"
  <2> DEFINE t == range(v, d.def)
  <2>1. v \in Value /\ d.def.min <= d.def.max /\ (d.def.min < 0 => d.def.min = d.def.max)
    BY <1>1, <1>3, <1>9, UsableByKind
  <2>2. t.min <= t.max /\ (t.min < 0 => t.min = t.max)
    <3>1. CASE v.type = "number"
      <4>1. v.number \in Int
        BY <2>1, <3>1, ValueForms
      <4>2. t = [min |-> Truncate(v.number), max |-> Truncate(v.number)]
        BY <3>1 DEF range
      <4> HIDE DEF t
      <4> QED
        BY <4>1, <4>2, TruncateType
    <3>2. CASE v.type = "array"
      <4>1. Truncate(v.array[1]) \in Int /\ Truncate(v.array[2]) \in Int
        BY <2>1, <3>2, ValueForms, TruncateType
      <4>2. t = OrderedRange(Truncate(v.array[1]), Truncate(v.array[2]))
        BY <3>2 DEF range
      <4> HIDE DEF t
      <4>3. t.min \in Int /\ t.max \in Int /\ t.min <= t.max /\ t.min >= 0
        BY <4>1, <4>2, OrderedRangeIsUsable
      <4> QED
        BY <4>3
    <3>3. CASE v.type \notin {"number", "array"}
      <4>1. t = d.def
        BY <3>3 DEF range
      <4> QED
        BY <2>1, <4>1
    <3> QED
      BY <3>1, <3>2, <3>3
  <2> HIDE DEF t
  <2>3. Read(d, v) = t
    BY <1>9, ReadByKind DEF t
  <2> QED
    BY <1>9, <2>2, <2>3, UsableByKind
<1>10. CASE d.kind = "key"
  <2>1. v \in KeyValue /\ d.def \in Int
    BY <1>1, <1>3, <1>10, SettingForms
  <2>2. Read(d, v) = key(v, d.def)
    BY <1>10, ReadByKind
  <2>3. CASE v.type = "number"
    <3>1. key(v, d.def) = Truncate(v.number)
      BY <2>3 DEF key
    <3> QED
      BY <1>2, <1>10, <2>2, <2>3, <3>1, UsableByKind
  <2>4. CASE v.type = "string" /\ parseKeyName(v.name, -1) >= 0
    <3>1. key(v, d.def) = parseKeyName(v.name, -1)
      BY <2>4 DEF key
    <3>2. parseKeyName(v.name, -1) \in -1..511
      BY <2>1, <2>4, KeyValueForms, ParsedKeyInRange
    <3>3. key(v, d.def) \in 0..511
      BY <2>4, <3>1, <3>2
    <3> QED
      BY <1>10, <2>2, <3>3, UsableByKind
  <2>5. CASE ~(v.type = "number") /\ ~(v.type = "string" /\ parseKeyName(v.name, -1) >= 0)
    <3>1. key(v, d.def) = d.def
      BY <2>5 DEF key
    <3> QED
      BY <1>1, <2>2, <3>1
  <2> QED
    BY <2>3, <2>4, <2>5
<1>11. CASE d.kind = "enum"
  <2>1. choice(v, d.def, d.choices) \in d.choices
    BY <1>1, <1>11, UsableByKind DEF choice
  <2> QED
    BY <1>11, <2>1, ReadByKind, UsableByKind
<1>12. d.kind \in {"bool", "int", "number", "chance", "key", "text", "range", "enum"}
  BY <1>1, SettingForms
<1> QED
  BY <1>4, <1>5, <1>6, <1>7, <1>8, <1>9, <1>10, <1>11, <1>12

-----------------------------------------------------------------------------
(* config.cpp: the passes.  Within one, the settings that were bound follow the
   file, and the file stays what it was. *)

Typed ==
  /\ DOMAIN section \subseteq DOMAIN Values
  /\ \A k \in DOMAIN section : section[k] \in Values[k]
  /\ target = [i \in DOMAIN Described |-> target[i]]
  /\ \A i \in DOMAIN Described : Usable(Described[i], target[i])
  /\ next \in 0..Len(Described) + 1 /\ edits \in 0..MaxEdits
  /\ claimed \subseteq Known /\ unknown \subseteq DOMAIN Values

(* What a module that was just loaded would make of the file. *)
Fresh(d) == IF d.key \in DOMAIN section THEN Read(d, section[d.key]) ELSE d.def

Follows == next # 0 => \A i \in DOMAIN Described : i < next => target[i] = Fresh(Described[i])

Inv == Typed /\ Follows

LEMMA DescribedType ==
  /\ Len(Described) \in Nat /\ DOMAIN Described = 1..Len(Described)
  /\ \A i \in DOMAIN Described : Described[i].key \in DOMAIN Values
  /\ \A i \in DOMAIN Described : Usable(Described[i], Described[i].def)
<1>1. Described \in Seq(Setting)
  BY DescribedAssumption
<1>2. \A i \in DOMAIN Described : Described[i].key \in DOMAIN Values /\ Usable(Described[i], Described[i].def)
  BY DescribedAssumption
<1> QED
  BY <1>1, <1>2

LEMMA BoundIsUsable ==
  ASSUME Typed, NEW i \in DOMAIN Described
  PROVE  Usable(Described[i], Fresh(Described[i]))
<1>1. CASE Described[i].key \in DOMAIN section
  <2>1. section[Described[i].key] \in Values[Described[i].key]
    BY <1>1 DEF Typed
  <2>2. Usable(Described[i], Read(Described[i], section[Described[i].key]))
    BY <2>1, ReadIsUsable
  <2> QED
    BY <1>1, <2>2 DEF Fresh
<1>2. CASE Described[i].key \notin DOMAIN section
  BY <1>2, DescribedType DEF Fresh
<1> QED
  BY <1>1, <1>2

LEMMA InitInv == Init => Inv
<1> SUFFICES ASSUME Init
             PROVE  Inv
  OBVIOUS
<1> USE DEF Init
<1>1. DOMAIN section = {}
  OBVIOUS
<1>2. \A i \in DOMAIN Described : target[i] = Described[i].def
  OBVIOUS
<1>3. \A i \in DOMAIN Described : Usable(Described[i], target[i])
  BY <1>2, DescribedType
<1>4. target = [i \in DOMAIN Described |-> target[i]]
  OBVIOUS
<1>5. next \in 0..Len(Described) + 1 /\ edits \in 0..MaxEdits
  BY DescribedType, EditsAssumption
<1> QED
  BY <1>1, <1>3, <1>4, <1>5 DEF Inv, Typed, Follows

LEMMA TypedNext ==
  ASSUME Typed, [Next]_vars
  PROVE  Typed'
<1> USE DEF Typed
<1>0. Len(Described) \in Nat /\ DOMAIN Described = 1..Len(Described)
  BY DescribedType
<1>1. CASE Edit
  <2>1. UNCHANGED <<target, next, claimed, unknown>> /\ edits' \in 0..MaxEdits
    BY <1>1, EditsAssumption DEF Edit
  <2>2. /\ DOMAIN section' \subseteq DOMAIN Values
        /\ \A k \in DOMAIN section' : section'[k] \in Values[k]
    BY <1>1 DEF Edit, With, Without
  <2> QED
    BY <2>1, <2>2
<1>2. CASE Begin
  BY <1>0, <1>2 DEF Begin
<1>3. CASE Bind
  <2>1. /\ UNCHANGED <<section, unknown, edits>> /\ next \in DOMAIN Described /\ next' = next + 1
        /\ claimed' = claimed \cup {Described[next].key}
        /\ target' = [target EXCEPT ![next] = Bound(Described[next], target[next])]
    BY <1>3 DEF Bind, Claim
  <2>2. Bound(Described[next], target[next]) = Fresh(Described[next])
    BY DEF Bound, Fresh
  <2>3. Usable(Described[next], Fresh(Described[next]))
    BY <2>1, BoundIsUsable
  <2>4. /\ target' = [i \in DOMAIN Described |-> target'[i]]
        /\ \A i \in DOMAIN Described : target'[i] = IF i = next THEN Fresh(Described[next]) ELSE target[i]
    BY <2>1, <2>2
  <2>5. \A i \in DOMAIN Described : Usable(Described[i], target'[i])
    BY <2>3, <2>4
  <2>6. next' \in 0..Len(Described) + 1
    BY <1>0, <2>1
  <2>7. claimed' \subseteq Known
    BY <2>1 DEF Known
  <2> QED
    BY <2>1, <2>4, <2>5, <2>6, <2>7 DEF Known
<1>4. CASE Report
  <2>1. UNCHANGED <<section, target, claimed, edits>> /\ next' = 0 /\ unknown' \subseteq DOMAIN Values
    BY <1>4 DEF Report, UnknownKeys
  <2> QED
    BY <1>0, <2>1
<1>5. CASE UNCHANGED vars
  BY <1>5 DEF vars
<1> QED
  BY <1>1, <1>2, <1>3, <1>4, <1>5 DEF Next

LEMMA FollowsNext ==
  ASSUME Typed, Follows, [Next]_vars
  PROVE  Follows'
<1>0. Len(Described) \in Nat /\ DOMAIN Described = 1..Len(Described) /\ next \in Nat
  BY DescribedType DEF Typed
<1>1. CASE Edit
  BY <1>1 DEF Edit, Follows
<1>2. CASE Begin
  <2>1. next' = 1
    BY <1>2 DEF Begin
  <2> QED
    BY <1>0, <2>1 DEF Follows
<1>3. CASE Bind
  <2>1. /\ section' = section /\ next \in DOMAIN Described /\ next' = next + 1 /\ next # 0
        /\ target' = [target EXCEPT ![next] = Bound(Described[next], target[next])]
    BY <1>0, <1>3 DEF Bind
  <2>2. Bound(Described[next], target[next]) = Fresh(Described[next])
    BY DEF Bound, Fresh
  <2>3. \A i \in DOMAIN Described : target'[i] = IF i = next THEN Fresh(Described[next]) ELSE target[i]
    BY <2>1, <2>2 DEF Typed
  <2>4. \A i \in DOMAIN Described : i < next' => i < next \/ i = next
    BY <1>0, <2>1
  <2>5. \A i \in DOMAIN Described : i < next' => target'[i] = Fresh(Described[i])
    BY <2>1, <2>3, <2>4 DEF Follows
  <2> QED
    BY <2>1, <2>5 DEF Follows, Fresh
<1>4. CASE Report
  BY <1>4 DEF Report, Follows
<1>5. CASE UNCHANGED vars
  BY <1>5 DEF vars, Follows, Fresh
<1> QED
  BY <1>1, <1>2, <1>3, <1>4, <1>5 DEF Next

LEMMA Invariant == Spec => []Inv
<1>1. Inv /\ [Next]_vars => Inv'
  BY TypedNext, FollowsNext DEF Inv
<1> QED
  BY <1>1, InitInv, PTL DEF Spec

(* Whatever a file says, and in whatever order it comes to say it, every member of
   every module holds a value the module can work with. *)
THEOREM TypeCorrect == Spec => []TypeOK
<1>1. Inv => TypeOK
  BY DEF Inv, Typed, TypeOK
<1> QED
  BY <1>1, Invariant, PTL

(* A pass that ends leaves the members as a module that was just loaded would have
   them: nothing of an earlier file stays. *)
THEOREM PassFollowsTheFile == Spec => FollowsTheFile
<1>1. Inv /\ [Next]_vars =>
        [next # 0 /\ next' = 0 =>
           \A i \in DOMAIN Described :
             target'[i] = LET d == Described[i] IN
                          IF d.key \in DOMAIN section THEN Read(d, section[d.key]) ELSE d.def]_vars
  <2> SUFFICES ASSUME Inv, Next, next # 0, next' = 0, NEW i \in DOMAIN Described
               PROVE  target'[i] = Fresh(Described[i])
    BY DEF Fresh
  <2>0. Len(Described) \in Nat /\ DOMAIN Described = 1..Len(Described) /\ next \in Nat
    BY DescribedType DEF Inv, Typed
  <2>1. Report
    BY <2>0 DEF Next, Edit, Begin, Bind
  <2>2. target' = target /\ next = Len(Described) + 1
    BY <2>1 DEF Report
  <2>3. i < next
    BY <2>0, <2>2
  <2> QED
    BY <2>2, <2>3 DEF Inv, Follows
<1> QED
  BY <1>1, Invariant, PTL DEF Spec, FollowsTheFile

-----------------------------------------------------------------------------
(* keyboard_gameactivity.cpp and keycodes.cpp: the tables, for every code. *)

(* The table gives each code one Android code, no two the same, and none of those the
   ranges give. *)
LEMMA TableIsOneToOne ==
  /\ \A e, f \in AndroidTable : e[2] = f[2] => e[1] = f[1]
  /\ \A e, f \in AndroidTable : e[1] = f[1] => e[2] = f[2]
  /\ \A e \in AndroidTable : e[2] \in Nat \ {0}
  /\ \A e \in AndroidTable : e[2] \notin 7..16 \cup 144..153 \cup 29..54 \cup 131..142
<1>1. \A e, f \in AndroidTable : e[2] = f[2] => e[1] = f[1]
  BY DEF AndroidTable
<1>2. \A e, f \in AndroidTable : e[1] = f[1] => e[2] = f[2]
  BY DEF AndroidTable
<1>3. \A e \in AndroidTable : e[2] \in Nat \ {0}
  BY DEF AndroidTable
<1>4. \A e \in AndroidTable : e[2] \notin 7..16 \cup 144..153 \cup 29..54 \cup 131..142
  BY DEF AndroidTable
<1> QED
  BY <1>1, <1>2, <1>3, <1>4

LEMMA WordsAreInTheTable ==
  \A w \in 1..37 : \E e \in AndroidTable : e[1] = kKeys[w][2]
BY DEF AndroidTable, kKeys

LEMMA AndroidCodeIs ==
  ASSUME NEW c \in Int
  PROVE  \/ AndroidRange(c) # 0 /\ androidKeyCode(c) = AndroidRange(c)
         \/ AndroidRange(c) = 0 /\ \E e \in AndroidTable : e[1] = c /\ androidKeyCode(c) = e[2]
         \/ androidKeyCode(c) = 0 /\ ~ \E e \in AndroidTable : e[1] = c
<1>1. CASE AndroidRange(c) # 0
  BY <1>1 DEF androidKeyCode
<1>2. CASE AndroidRange(c) = 0 /\ \E e \in AndroidTable : e[1] = c
  <2> DEFINE e == CHOOSE e \in AndroidTable : e[1] = c
  <2>1. e \in AndroidTable /\ e[1] = c
    BY <1>2
  <2>2. androidKeyCode(c) = e[2]
    BY <1>2 DEF androidKeyCode
  <2> HIDE DEF e
  <2> QED
    BY <1>2, <2>1, <2>2
<1>3. CASE AndroidRange(c) = 0 /\ ~ \E e \in AndroidTable : e[1] = c
  BY <1>3 DEF androidKeyCode
<1> QED
  BY <1>1, <1>2, <1>3

LEMMA RangesAreOneToOne ==
  ASSUME NEW c \in Int, NEW d \in Int, AndroidRange(c) # 0
  PROVE  /\ AndroidRange(c) \in 7..16 \cup 144..153 \cup 29..54 \cup 131..142
         /\ AndroidRange(c) = AndroidRange(d) => c = d
<1>1. \/ c \in 48..57 /\ AndroidRange(c) = c - 41
      \/ c \in 96..105 /\ AndroidRange(c) = c + 48
      \/ c \in 65..90 /\ AndroidRange(c) = c - 36
      \/ c \in 112..123 /\ AndroidRange(c) = c + 19
  BY DEF AndroidRange
<1>2. \/ d \in 48..57 /\ AndroidRange(d) = d - 41
      \/ d \in 96..105 /\ AndroidRange(d) = d + 48
      \/ d \in 65..90 /\ AndroidRange(d) = d - 36
      \/ d \in 112..123 /\ AndroidRange(d) = d + 19
      \/ AndroidRange(d) = 0
  BY DEF AndroidRange
<1> QED
  BY <1>1, <1>2

(* No two codes are handed over as the same key. *)
LEMMA HandedOverApart ==
  ASSUME NEW c \in Int, NEW d \in Int, androidKeyCode(c) # 0, androidKeyCode(c) = androidKeyCode(d)
  PROVE  c = d
<1>1. CASE AndroidRange(c) # 0 /\ AndroidRange(d) # 0
  BY <1>1, RangesAreOneToOne DEF androidKeyCode
<1>2. CASE AndroidRange(c) # 0 /\ AndroidRange(d) = 0
  BY <1>2, RangesAreOneToOne, AndroidCodeIs, TableIsOneToOne
<1>3. CASE AndroidRange(c) = 0 /\ AndroidRange(d) # 0
  BY <1>3, RangesAreOneToOne, AndroidCodeIs, TableIsOneToOne
<1>4. CASE AndroidRange(c) = 0 /\ AndroidRange(d) = 0
  <2>1. PICK e \in AndroidTable : e[1] = c /\ androidKeyCode(c) = e[2]
    BY <1>4, AndroidCodeIs
  <2>2. PICK f \in AndroidTable : f[1] = d /\ androidKeyCode(d) = f[2]
    BY <1>4, AndroidCodeIs
  <2>3. e[2] = f[2]
    BY <2>1, <2>2
  <2>4. e[1] = f[1]
    BY <2>3, TableIsOneToOne
  <2> QED
    BY <2>1, <2>2, <2>4
<1> QED
  BY <1>1, <1>2, <1>3, <1>4

(* A set of numbers that is not empty has a least one. *)
Below == {ss \in Nat \X Nat : ss[1] < ss[2]}

LEMMA LeastIsMin ==
  ASSUME NEW T, T \subseteq Nat, T # {}
  PROVE  Min(T) \in T
<1>1. IsWellFoundedOn(Below, Nat)
  BY NatLessThanWellFounded DEF OpToRel, Below
<1>2. PICK n \in T : \A m \in T : ~ (<<m, n>> \in Below)
  BY <1>1, WFMin
<1>3. \A m \in T : ~(m < n)
  BY <1>2 DEF Below
<1>4. \A m \in T : n <= m
  BY <1>3
<1> QED
  BY <1>4 DEF Min

(* The first word of the table that has a code. *)
LEMMA KeyNameWord ==
  ASSUME NEW c \in Int, keyName(c).form = "word"
  PROVE  keyName(c).at \in 1..37 /\ kKeys[keyName(c).at][2] = c % 256
<1> DEFINE I == {w \in 1..Len(kKeys) : kKeys[w][2] = c % 256}
           n == SelectInSeq(kKeys, LAMBDA e : e[2] = c % 256)
<1>1. \E w \in Words : kKeys[w][2] = c % 256
  BY DEF keyName
<1>2. keyName(c) = [form |-> "word", at |-> n]
  BY <1>1 DEF keyName
<1>3. Len(kKeys) = 37 /\ Words = 1..37
  <2>1. Len(kKeys) = 37
    BY DEF kKeys
  <2> QED
    BY <2>1, WordCodes DEF Words
<1>4. n = IF I # {} THEN Min(I) ELSE 0
  BY DEF SelectInSeq
<1>5. I \in SUBSET Nat /\ I # {}
  BY <1>1, <1>3
<1>6. n \in I
  BY <1>4, <1>5, LeastIsMin
<1> HIDE DEF n
<1> QED
  BY <1>2, <1>3, <1>6

LEMMA KeyNameForms ==
  ASSUME NEW c \in Int
  PROVE  LET k == keyName(c)
             low == c % 256
         IN \/ k.form = "word" /\ \E w \in 1..37 : kKeys[w][2] = low
            \/ k.form = "letter" /\ low \in 65..90 /\ k.at = low - 65
            \/ k.form = "digit" /\ low \in 48..57 /\ k.at = low - 48
            \/ k.form = "function" /\ low \in 112..123 /\ k.at = low - 111
            \/ k.form = "other"
<1> DEFINE low == c % 256
<1>1. Words = 1..37
  BY WordCodes DEF Words
<1>2. CASE \E w \in Words : kKeys[w][2] = low
  BY <1>1, <1>2 DEF keyName
<1>3. CASE ~ \E w \in Words : kKeys[w][2] = low
  <2>1. keyName(c) =
          CASE low \in 65..90   -> [form |-> "letter", at |-> low - 65]
            [] low \in 48..57   -> [form |-> "digit", at |-> low - 48]
            [] low \in 112..123 -> [form |-> "function", at |-> low - 111]
            [] OTHER            -> [form |-> "other", at |-> 0]
    BY <1>3 DEF keyName
  <2> HIDE DEF low
  <2>2. CASE low \in 65..90
    BY <2>1, <2>2 DEF low
  <2>3. CASE low \in 48..57
    BY <2>1, <2>3 DEF low
  <2>4. CASE low \in 112..123
    BY <2>1, <2>4 DEF low
  <2>5. CASE low \notin 65..90 \cup 48..57 \cup 112..123
    BY <2>1, <2>5 DEF low
  <2> QED
    BY <2>2, <2>3, <2>4, <2>5
<1> QED
  BY <1>2, <1>3

(* keycodes.h: keyName() is the canonical name, so it reads back as the code. *)
LEMMA NameReadsBack ==
  ASSUME NEW c \in Int, keyName(c).form \in {"word", "letter", "function"}
  PROVE  parseKeyName(keyName(c), -1) = c % 256
<1>0. c % 256 \in 0..255
  OBVIOUS
<1>1. CASE keyName(c).form = "word"
  <2>1. parseKeyName(keyName(c), -1) = kKeys[keyName(c).at][2]
    BY <1>1 DEF parseKeyName, Numeric
  <2> QED
    BY <1>1, <2>1, KeyNameWord
<1>2. CASE keyName(c).form = "letter"
  <2>1. keyName(c).at = (c % 256) - 65
    BY <1>2, KeyNameForms
  <2>2. parseKeyName(keyName(c), -1) = keyName(c).at + 65
    BY <1>2 DEF parseKeyName, Numeric
  <2> QED
    BY <1>0, <2>1, <2>2
<1>3. CASE keyName(c).form = "function"
  <2>1. keyName(c).at = (c % 256) - 111 /\ c % 256 \in 112..123
    BY <1>3, KeyNameForms
  <2>2. keyName(c).at \in 1..12
    BY <2>1
  <2>3. parseKeyName(keyName(c), -1) = keyName(c).at + 111
    BY <1>3, <2>2 DEF parseKeyName, Numeric
  <2> QED
    BY <1>0, <2>1, <2>3
<1> QED
  BY <1>1, <1>2, <1>3

(* A digit reads back as itself only where strtol() makes nothing of it. *)
LEMMA DigitReadsBack ==
  ASSUME NEW c \in Int, keyName(c).form = "digit"
  PROVE  parseKeyName(keyName(c), -1) = IF keyName(c).at = 0 THEN c % 256 ELSE keyName(c).at
<1>1. keyName(c).at = (c % 256) - 48 /\ c % 256 \in 48..57
  BY KeyNameForms
<1>2. CASE keyName(c).at = 0
  <2>1. ~Numeric(keyName(c))
    BY <1>2 DEF Numeric
  <2>2. parseKeyName(keyName(c), -1) = keyName(c).at + 48
    BY <2>1 DEF parseKeyName
  <2> QED
    BY <1>1, <1>2, <2>2
<1>3. CASE keyName(c).at # 0
  <2>1. Numeric(keyName(c))
    BY <1>1, <1>3 DEF Numeric
  <2> QED
    BY <1>3, <2>1 DEF parseKeyName
<1> QED
  BY <1>2, <1>3

(* keyboard_gameactivity.cpp has an Android key for every code with a name. *)
LEMMA NamedIsHandedOver ==
  ASSUME NEW c \in Int, Injectable(c), keyName(c).form # "other"
  PROVE  androidKeyCode(c) # 0
<1>1. c \in 1..255 /\ c % 256 = c
  BY DEF Injectable
<1>2. (\E w \in 1..37 : kKeys[w][2] = c) \/ c \in 65..90 \cup 48..57 \cup 112..123
  BY <1>1, KeyNameForms
<1>3. CASE \E w \in 1..37 : kKeys[w][2] = c
  <2>1. \E e \in AndroidTable : e[1] = c
    BY <1>3, WordsAreInTheTable
  <2> QED
    BY <2>1, AndroidCodeIs, TableIsOneToOne
<1>4. CASE c \in 65..90 \cup 48..57 \cup 112..123
  <2>1. AndroidRange(c) # 0
    BY <1>4 DEF AndroidRange
  <2> QED
    BY <2>1 DEF androidKeyCode
<1> QED
  BY <1>2, <1>3, <1>4

(* Of the keys a module can be set to, whatever the file says, no two come to one
   Android key, the named ones all come to one, and each name reads back as its code
   but those of the digits from 1 to 9, which read back as the number. *)
THEOREM CodesKeepTheirNames == Spec => []CodesAndNamesAgree
<1>1. Inv => CodesAndNamesAgree
  <2> SUFFICES ASSUME Inv
               PROVE  CodesAndNamesAgree
    OBVIOUS
  <2>1. Codes \subseteq Int
    <3> SUFFICES ASSUME NEW i \in DOMAIN Described, Described[i].kind = "key"
                 PROVE  target[i] \in Int
      BY DEF Codes
    <3>1. Usable(Described[i], target[i])
      BY DEF Inv, Typed
    <3>2. \/ target[i] \in 0..511
          \/ \E v \in Values[Described[i].key] : v.type = "number" /\ target[i] = Truncate(v.number)
      BY <3>1, UsableByKind
    <3>3. Values[Described[i].key] \subseteq KeyValue
      BY DescribedAssumption
    <3>4. ASSUME NEW v \in Values[Described[i].key], v.type = "number"
          PROVE  Truncate(v.number) \in Int
      BY <3>3, <3>4, KeyValueForms, TruncateType
    <3> QED
      BY <3>2, <3>4
  <2>2. \A c, d \in {k \in Codes : Injectable(k) /\ androidKeyCode(k) # 0} :
          c # d => androidKeyCode(c) # androidKeyCode(d)
    BY <2>1, HandedOverApart
  <2>3. \A c \in Codes :
          /\ keyName(c).form \in {"word", "letter", "function"} => parseKeyName(keyName(c), -1) = c % 256
          /\ keyName(c).form = "digit" =>
               parseKeyName(keyName(c), -1) = IF keyName(c).at = 0 THEN c % 256 ELSE keyName(c).at
          /\ Injectable(c) /\ keyName(c).form # "other" => androidKeyCode(c) # 0
    BY <2>1, NameReadsBack, DigitReadsBack, NamedIsHandedOver
  <2> QED
    BY <2>2, <2>3 DEF CodesAndNamesAgree
<1> QED
  BY <1>1, Invariant, PTL
=============================================================================
