------------------------- MODULE MCSignatureTargets -------------------------
(* Files that declare any of five targets, each by symbol, by pattern, by both or
   by neither, the misleading ways included; and one target whose pattern is
   written in every style, or scanned for in every text of seven over two bytes. *)
EXTENDS SignatureTargets

a == 72   \* 48
b == 11   \* 0B

(* How people write a byte and a wildcard: IDA style, the same without blanks, as a
   C string, with 0x, and with one ? for a wildcard. *)
Styles == {"ida", "dense", "string", "0x", "single"}

Hexed(n) == CASE n = a -> <<"4", "8">> [] n = b -> <<"0", "B">>

InStyle(style, e) ==
  CASE style = "ida"    -> (IF e = Wild THEN <<"?", "?">> ELSE Hexed(e)) \o <<" ">>
    [] style = "dense"  -> IF e = Wild THEN <<"?", "?">> ELSE Hexed(e)
    [] style = "string" -> IF e = Wild THEN <<"\\", "x", "?", "?">> ELSE <<"\\", "x">> \o Hexed(e)
    [] style = "0x"     -> (IF e = Wild THEN <<"?", "?">> ELSE <<"0", "x">> \o Hexed(e)) \o <<" ">>
    [] style = "single" -> <<" ">> \o (IF e = Wild THEN <<"?">> ELSE Hexed(e))

Spell(style, pattern) == FlattenSeq([i \in DOMAIN pattern |-> InStyle(style, pattern[i])])

unique == <<b, a, Wild, b, a, a, b>>
twice == <<a, a, b, a>>
nowhere == <<b, b, b, b>>

E(name, kind, symbol, means, occurrence) ==
  [name |-> name, object |-> TRUE, kind |-> kind, symbol |-> symbol,
   pattern |-> Spell("ida", means), means |-> means, occurrence |-> occurrence, offset |-> 8]

NotAnObject(name) == [E(name, "", "exported", <<>>, 0) EXCEPT !.object = FALSE]

Meaningless(e, spelt) == [e EXCEPT !.pattern = spelt, !.means = << >>]

(* Too short, a wildcard in front, half a byte masked, a half byte at the end, an
   unfinished escape and a word. *)
NoPatterns ==
  {Spell("ida", p) : p \in {<<a, b, Wild, a>>, <<Wild, a, a, b, a>>}}
    \cup {Spell("dense", <<a, a, b>>) \o rest : rest \in
            {<<"4", "?">>, <<"4">>, <<"\\", "4", "8">>, <<"\\", "x">>, <<"z">>}}

Maybe(entries) == {<<>>} \cup {<<e>> : e \in entries}

Hurts ==
  {E("local_player_hurt", kind, "", p[1], p[2]) :
     kind \in {"mob_hurt", "local_player_hurt", ""}, p \in {<<unique, 0>>, <<unique, -1>>, <<twice, 1>>}}
Pointers == {E("local_player_pointer", "pointer", "gone", nowhere, 0),
             E("local_player_pointer", "pointer", "gone", unique, 0)}
Getters  == {E("local_player_getter", "getter", "exported", <<>>, 0), NotAnObject("local_player_getter")}
Causes   == {E("damage_cause_offset", "offset", "", unique, 0)}
Ticks    == {Meaningless(E("game_tick", "tick", "exported", <<>>, 0), <<"z">>),
             E("game_tick", "tick", "", <<>>, 0)}

AllFiles ==
  {h \o p \o g \o c \o t : h \in Maybe(Hurts), p \in Maybe(Pointers), g \in Maybe(Getters),
     c \in Maybe(Causes), t \in Maybe(Ticks)}
    \cup {p \o h \o t : h \in Maybe(Hurts), p \in Maybe(Pointers), t \in Maybe(Ticks)}

Either(files) == (files \X {Invalid}) \cup ({NoFile} \X files) \cup {<<Invalid, << >>>>, <<NoFile, NoFile>>}

MCByte == {a, b}

Fours == [1..4 -> MCByte]

(* Four bytes, with nothing, a wildcard behind any of them, or two within. *)
Patterns ==
  Fours \cup {InsertAt(p, i, Wild) : p \in Fours, i \in 2..5}
    \cup {InsertAt(InsertAt(p, i, Wild), i, Wild) : p \in Fours, i \in {2, 4}}

Hurt(means, style, n) ==
  [E("local_player_hurt", "local_player_hurt", "gone", means, n) EXCEPT !.pattern = Spell(style, means)]

Only(e) == <<<<e>>, Invalid>>

Texts == [1..7 -> MCByte]

Scans ==
  ({Only(Hurt(p, "ida", n)) : p \in Patterns, n \in {0, 1}} \X Texts)
    \cup ({Only(Hurt(p, "ida", n)) : p \in Fours, n \in {-1, 3}} \X Texts)
    \cup ({Only(Hurt(<<c, c, c, c>>, "ida", 4)) : c \in MCByte} \X [1..8 -> MCByte])

Written ==
  ({Only(Hurt(p, style, 0)) : p \in Patterns, style \in Styles}
     \cup {Only(Meaningless(Hurt(<<a>>, "ida", 0), spelt)) : spelt \in NoPatterns})
    \X {<<b, a, a, b, a, a, b, a>>, <<a, b, b, b, a, a, b, b>>}

MCStarts ==
  (Either(AllFiles) \X {<<>>, <<b, a, a, b, a, a, b, a>>}) \cup Scans \cup Written

MCExported == [s \in {"exported"} |-> 1000]
=============================================================================
