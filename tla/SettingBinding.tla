--------------------------- MODULE SettingBinding ---------------------------
(* SettingSet of config.cpp and the pass of ModuleManager::applyConfig() that
   binds a module's settings to its section of jpr.json: one after the other,
   over whatever the last pass left, with what is unusable replaced by the
   default, and the names nothing claimed reported.  The names of keys, and what
   a key comes to when it is injected, are KeyNames'.

   Numbers are in hundredths, so 85 is the 0.85 of the file and 8500 its 85. *)
EXTENDS KeyNames, FiniteSets

CONSTANTS
  Described,   \* the module's settings, in order: [key, kind, def] records, with the
               \* choices of an "enum" and the min and max of an "int"
  Values,      \* for each key a section may have, what it may say there
  MaxEdits     \* edits in one run

Known == {Described[i].key : i \in DOMAIN Described}

VARIABLES
  section,   \* the module's object in the file, as far as it has keys
  target,    \* the module's members, by the place of their setting
  next,      \* the setting bound next; 0 between passes
  claimed,   \* SettingSet::claimed_ of the pass
  unknown,   \* what the last pass reported
  edits      \* edits so far

vars == <<section, target, next, claimed, unknown, edits>>

-----------------------------------------------------------------------------
(* The settings a module may describe, by what they are bound to. *)
Setting ==
  [key: STRING, kind: {"bool"}, def: BOOLEAN]
    \cup [key: STRING, kind: {"int"}, def: Int, min: Int, max: Int]
    \cup [key: STRING, kind: {"number", "chance", "key"}, def: Int]
    \cup [key: STRING, kind: {"text"}, def: STRING]
    \cup [key: STRING, kind: {"range"}, def: [min: Int, max: Int]]
    \cup [key: STRING, kind: {"enum"}, def: STRING, choices: SUBSET STRING]

(* The JSON types a file may use: Bool(b), Number(n), Text(s) with what strtod()
   makes of it, Spelt(n) for a string that is to name a key, and Pair(a, b) for
   an array of two. *)
Bool(b)            == [type |-> "bool", bool |-> b]
Number(n)          == [type |-> "number", number |-> n]
Text(s, n, rest)   == [type |-> "string", text |-> s, number |-> n, rest |-> rest]
Spelt(n)           == [type |-> "string", name |-> n]
Pair(a, b)         == [type |-> "array", array |-> <<a, b>>]

Value ==
  [type: {"bool"}, bool: BOOLEAN] \cup [type: {"number"}, number: Int]
    \cup [type: {"array"}, array: Int \X Int]
    \cup [type: {"string"}, text: STRING, number: Int, rest: STRING]

KeyValue ==
  [type: {"bool"}, bool: BOOLEAN] \cup [type: {"number"}, number: Int]
    \cup [type: {"array"}, array: Int \X Int] \cup [type: {"string"}, name: Name]

(* (int) of a double: towards zero. *)
Truncate(n) == IF n >= 0 THEN n \div 100 ELSE -((-n) \div 100)

Clamp(n, low, high) == IF n < low THEN low ELSE IF n > high THEN high ELSE n

boolean(v, def) ==
  CASE v.type = "bool" -> v.bool
    [] v.type = "number" -> v.number # 0
    [] OTHER -> def

integer(v, def, min, max) ==
  IF v.type = "number" THEN Clamp(Truncate(v.number), min, max) ELSE def

number(v, def) == IF v.type = "number" THEN v.number ELSE def

text(v, def) == IF v.type = "string" THEN v.text ELSE def

(* A probability above 1 is a percentage, and so is whatever ends on a %. *)
Percent(n) == n \div 100

chance(v, def) ==
  LET parsed == CASE v.type = "number" -> IF v.number > 100 THEN Percent(v.number) ELSE v.number
                  [] v.type = "string" /\ v.rest = "%" -> Percent(v.number)
                  [] v.type = "string" /\ v.rest = "" ->
                       IF v.number > 100 THEN Percent(v.number) ELSE v.number
                  [] OTHER -> def
  IN Clamp(parsed, 0, 100)

OrderedRangeClamped(a, b) == [min |-> IF a < 0 THEN 0 ELSE a, max |-> b]   \* Fault: no swap

(* Reversed bounds are swapped, and then a negative one is clamped. *)
OrderedRange(a, b) ==
  LET lo == IF b < a THEN b ELSE a
      hi == IF b < a THEN a ELSE b
  IN IF lo < 0 THEN [min |-> 0, max |-> IF hi < 0 THEN 0 ELSE hi] ELSE [min |-> lo, max |-> hi]

range(v, def) ==
  CASE v.type = "number" -> [min |-> Truncate(v.number), max |-> Truncate(v.number)]
    [] v.type = "array" -> OrderedRange(Truncate(v.array[1]), Truncate(v.array[2]))
    [] OTHER -> def

(* A number as it stands, a name if it is known. *)
key(v, def) ==
  CASE v.type = "number" -> Truncate(v.number)
    [] v.type = "string" /\ parseKeyName(v.name, -1) >= 0 -> parseKeyName(v.name, -1)
    [] OTHER -> def

choice(v, def, choices) == IF v.type = "string" /\ v.text \in choices THEN v.text ELSE def

Read(d, v) ==
  CASE d.kind = "bool" -> boolean(v, d.def)
    [] d.kind = "int" -> integer(v, d.def, d.min, d.max)
    [] d.kind = "number" -> number(v, d.def)
    [] d.kind = "text" -> text(v, d.def)
    [] d.kind = "chance" -> chance(v, d.def)
    [] d.kind = "range" -> range(v, d.def)
    [] d.kind = "key" -> key(v, d.def)
    [] d.kind = "enum" -> choice(v, d.def, d.choices)

(* The value a setting takes; old is the member as the last pass left it. *)
BoundOverOld(d, old) ==   \* Fault: a setting that is not there is left alone
  IF d.key \in DOMAIN section THEN Read(d, section[d.key]) ELSE old

Bound(d, old) == IF d.key \in DOMAIN section THEN Read(d, section[d.key]) ELSE d.def

-----------------------------------------------------------------------------
(* Before its first pass a module has the values its members are declared with,
   which are the defaults. *)
Init ==
  /\ section = << >>
  /\ target = [i \in DOMAIN Described |-> Described[i].def]
  /\ next = 0 /\ claimed = {} /\ unknown = {} /\ edits = 0

(* The player saves the section with one key added, changed or removed; the file
   is read in one piece, so not within a pass. *)
With(k, v) == [j \in DOMAIN section \cup {k} |-> IF j = k THEN v ELSE section[j]]

Without(k) == [j \in DOMAIN section \ {k} |-> section[j]]

Edit ==
  /\ next = 0 /\ edits < MaxEdits
  /\ \E k \in DOMAIN Values :
       \/ \E v \in Values[k] : section' = With(k, v)
       \/ k \in DOMAIN section /\ section' = Without(k)
  /\ edits' = edits + 1
  /\ UNCHANGED <<target, next, claimed, unknown>>

(* A SettingSet is made for every pass. *)
Begin ==
  next = 0 /\ next' = 1 /\ claimed' = {} /\ UNCHANGED <<section, target, unknown, edits>>

Claim(k) == claimed \cup {k}

Bind ==
  /\ next \in DOMAIN Described
  /\ LET d == Described[next] IN
       /\ claimed' = Claim(d.key)
       /\ target' = [target EXCEPT ![next] = Bound(d, @)]
  /\ next' = next + 1
  /\ UNCHANGED <<section, unknown, edits>>

UnknownKeys == DOMAIN section \ claimed

Report ==
  /\ next = Len(Described) + 1
  /\ unknown' = UnknownKeys
  /\ next' = 0
  /\ UNCHANGED <<section, target, claimed, edits>>

Next == Edit \/ Begin \/ Bind \/ Report

Spec == Init /\ [][Next]_vars

-----------------------------------------------------------------------------
(* What a module can work with. *)
Usable(d, t) ==
  CASE d.kind = "bool" -> t \in BOOLEAN
    [] d.kind = "int" -> t \in d.min..d.max
    [] d.kind = "number" -> t \in Int
    [] d.kind = "text" -> t \in STRING
    [] d.kind = "chance" -> t \in 0..100
    [] d.kind = "range" -> t.min <= t.max /\ (t.min < 0 => t.min = t.max)
    [] d.kind = "key" -> \/ t \in 0..511
                         \/ \E v \in Values[d.key] : v.type = "number" /\ t = Truncate(v.number)
    [] d.kind = "enum" -> t \in d.choices

(* The modules describe each setting once, and with a default that is one of its
   values; a string in the place of a key is there to name one. *)
ASSUME DescribedAssumption ==
  /\ Described \in Seq(Setting)
  /\ \A i, j \in DOMAIN Described : Described[i].key = Described[j].key => i = j
  /\ \A i \in DOMAIN Described :
       LET d == Described[i] IN
       /\ Usable(d, d.def) /\ d.key \in DOMAIN Values
       /\ Values[d.key] \subseteq IF d.kind = "key" THEN KeyValue ELSE Value
ASSUME EditsAssumption == MaxEdits \in Nat

(* Type invariant.  Whatever the file says, a member holds a value the module can
   work with; of a range, README: "reversed bounds are swapped rather than
   rejected", and only a bare number waits no time at all by being negative. *)
TypeOK ==
  /\ DOMAIN section \subseteq DOMAIN Values
  /\ \A k \in DOMAIN section : section[k] \in Values[k]
  /\ \A i \in DOMAIN Described : Usable(Described[i], target[i])
  /\ next \in 0..Len(Described) + 1 /\ edits \in 0..MaxEdits
  /\ claimed \subseteq Known /\ unknown \subseteq DOMAIN Values

(* The codes the key settings have. *)
Codes == {target[i] : i \in {j \in DOMAIN Described : Described[j].kind = "key"}}

(* The key a setting is bound to, on its way to the game and back to a name.  Two
   Minecraft codes never come to one Android key, so settings bound to different
   codes never press each other's key.  keycodes.h calls keyName() the canonical
   name: a word, a letter and a function key read back as the code they name, and
   so does the digit 0; a digit from 1 to 9 reads back as that number, which is no
   digit's code, and for 8 and 9 is backspace and tab (README, "Where code and
   documents part").  And none of the keys with a name is one
   keyboard_gameactivity.cpp skips for having "no Android equivalent". *)
CodesAndNamesAgree ==
  /\ \A c, d \in {k \in Codes : Injectable(k) /\ androidKeyCode(k) # 0} :
       c # d => androidKeyCode(c) # androidKeyCode(d)
  /\ \A c \in Codes :
       /\ keyName(c).form \in {"word", "letter", "function"} => parseKeyName(keyName(c), -1) = c % 256
       /\ keyName(c).form = "digit" =>
            parseKeyName(keyName(c), -1) = IF keyName(c).at = 0 THEN c % 256 ELSE keyName(c).at
       /\ Injectable(c) /\ keyName(c).form # "other" => androidKeyCode(c) # 0

(* A pass leaves nothing of the one before: the members are what a module that
   was just loaded would make of the file, keys taken out of it included. *)
FollowsTheFile ==
  [][next # 0 /\ next' = 0 =>
       \A i \in DOMAIN Described :
         target'[i] = LET d == Described[i] IN
                      IF d.key \in DOMAIN section THEN Read(d, section[d.key]) ELSE d.def]_vars

=============================================================================
