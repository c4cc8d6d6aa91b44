------------------------------ MODULE KeyNames ------------------------------
(* The name of a key, from jpr.json to the code the game is handed: SettingSet
   ::key() and parseKeyName() turn it into a Minecraft key code, queue() lets
   the code through or not, and androidKeyCode() is what a GameActivity build is
   sent.  keyName() is the way back, used for jpr.defaults.json.

   A name is what spelling it comes to: a word by its place in the table, a
   letter, digit or function key by its number, a numeral of more than one digit,
   or something else.  Case and separators are gone, as normalise() leaves it. *)
EXTENDS Integers, Sequences, SequencesExt

kKeys ==
  <<<<"backspace", 8>>, <<"tab", 9>>, <<"enter", 13>>, <<"return", 13>>,
    <<"shift", 16>>, <<"ctrl", 17>>, <<"control", 17>>, <<"pause", 19>>,
    <<"capslock", 20>>, <<"escape", 27>>, <<"esc", 27>>, <<"space", 32>>,
    <<"pageup", 33>>, <<"pagedown", 34>>, <<"end", 35>>, <<"home", 36>>,
    <<"left", 37>>, <<"up", 38>>, <<"right", 39>>, <<"down", 40>>,
    <<"insert", 45>>, <<"delete", 46>>, <<"alt", 18>>, <<"menu", 255>>,
    <<"numlock", 144>>, <<"scrolllock", 145>>, <<"semicolon", 186>>,
    <<"equal", 187>>, <<"comma", 188>>, <<"minus", 189>>, <<"period", 190>>,
    <<"slash", 191>>, <<"grave", 192>>, <<"leftbracket", 219>>,
    <<"backslash", 220>>, <<"rightbracket", 221>>, <<"apostrophe", 222>>>>

Words == DOMAIN kKeys

Name ==
  [form: {"word"}, at: Words] \cup [form: {"letter"}, at: 0..25] \cup [form: {"digit"}, at: 0..9]
    \cup [form: {"function", "numeral", "other"}, at: Int]

-----------------------------------------------------------------------------
(* strtol() reads the whole of it, into 1..511. *)
Numeric(n) == n.form \in {"digit", "numeral"} /\ n.at \in 1..511

parseKeyName(n, fallback) ==
  CASE Numeric(n) -> n.at
    [] n.form = "word" -> kKeys[n.at][2]
    [] n.form = "letter" -> n.at + 65
    [] n.form = "digit" /\ ~Numeric(n) -> n.at + 48
    [] n.form = "function" /\ n.at \in 1..12 -> n.at + 111
    [] OTHER -> fallback

(* The canonical name of a code, as jpr.defaults.json has it. *)
keyName(c) ==
  LET low == c % 256 IN
  IF \E w \in Words : kKeys[w][2] = low
  THEN [form |-> "word", at |-> SelectInSeq(kKeys, LAMBDA e : e[2] = low)]
  ELSE CASE low \in 65..90   -> [form |-> "letter", at |-> low - 65]
         [] low \in 48..57   -> [form |-> "digit", at |-> low - 48]
         [] low \in 112..123 -> [form |-> "function", at |-> low - 111]
         [] OTHER            -> [form |-> "other", at |-> 0]

(* queue() and gameKeyDown() refuse the rest. *)
Injectable(c) == c \in 1..255

AndroidTable ==
  {<<4, 4>>, <<8, 67>>, <<9, 61>>, <<13, 66>>, <<16, 59>>, <<17, 113>>, <<18, 57>>,
   <<19, 121>>, <<20, 115>>, <<27, 111>>, <<32, 62>>, <<33, 92>>, <<34, 93>>,
   <<35, 123>>, <<36, 122>>, <<37, 21>>, <<38, 19>>, <<39, 22>>, <<40, 20>>,
   <<45, 124>>, <<46, 112>>, <<144, 143>>, <<145, 116>>, <<186, 74>>, <<187, 70>>,
   <<188, 55>>, <<189, 69>>, <<190, 56>>, <<191, 76>>, <<192, 68>>, <<219, 71>>,
   <<220, 73>>, <<221, 72>>, <<222, 75>>, <<255, 82>>, <<106, 155>>, <<107, 157>>,
   <<109, 156>>, <<110, 158>>, <<111, 154>>}

AndroidRangeAstray(c) ==   \* Fault: the numpad lands on the function keys
  CASE c \in 48..57   -> c - 48 + 7
    [] c \in 96..105  -> c - 96 + 131
    [] c \in 65..90   -> c - 65 + 29
    [] c \in 112..123 -> c - 112 + 131
    [] OTHER -> 0

AndroidRange(c) ==
  CASE c \in 48..57   -> c - 48 + 7
    [] c \in 96..105  -> c - 96 + 144
    [] c \in 65..90   -> c - 65 + 29
    [] c \in 112..123 -> c - 112 + 131
    [] OTHER -> 0

androidKeyCode(c) ==
  IF AndroidRange(c) # 0 THEN AndroidRange(c)
  ELSE IF \E e \in AndroidTable : e[1] = c
       THEN (CHOOSE e \in AndroidTable : e[1] = c)[2] ELSE 0
=============================================================================
