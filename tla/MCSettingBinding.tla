-------------------------- MODULE MCSettingBinding --------------------------
(* One setting of each kind auto_jump_reset has, a number and a text, which
   SettingSet offers and no module uses yet, and a misspelt one; the values
   are usable ones, ones out of range and ones of the wrong type; the key names are
   every word, digit and function key, and codes about the ends of the ranges. *)
EXTENDS SettingBinding

MCDescribed ==
  <<[key |-> "enabled", kind |-> "bool", def |-> FALSE],
    [key |-> "chance", kind |-> "chance", def |-> 85],
    [key |-> "hold_ms", kind |-> "range", def |-> [min |-> 90, max |-> 160]],
    [key |-> "debug_auto_fire_ms", kind |-> "int", def |-> 0, min |-> 0, max |-> 600000],
    [key |-> "a_number", kind |-> "number", def |-> 0],
    [key |-> "a_text", kind |-> "text", def |-> "info"],
    [key |-> "distribution", kind |-> "enum", def |-> "normal", choices |-> {"normal", "uniform"}],
    [key |-> "key", kind |-> "key", def |-> 32],
    [key |-> "debug_trigger_key", kind |-> "key", def |-> 0]>>

Wrong == {Bool(TRUE), Text("x", 0, "x"), Pair(100, 200)}

Of(form, at) == {Spelt([form |-> form, at |-> n]) : n \in at}

MCKeys ==
  Of("word", Words) \cup Of("letter", {0, 22, 25}) \cup Of("digit", 0..9)
    \cup Of("function", {0, 1, 12, 13}) \cup Of("other", {0})
    \cup Of("numeral", {16, 56, 90, 96, 105, 256, 272, 511, 512, 600})
    \cup {Number(n) : n \in {-500, 0, 3250, 30000}} \cup {Bool(TRUE)}

MCValues ==
  [k \in {Described[i].key : i \in DOMAIN Described} \cup {"hold_ms_"} |->
    CASE k = "enabled" -> {Bool(TRUE), Bool(FALSE), Number(0), Number(50), Text("x", 0, "x")}
      [] k = "chance" ->
           {Number(n) : n \in {-20, 0, 85, 100, 8500, 20000}} \cup Wrong \cup
           {Text("85%", 8500, "%"), Text("85", 8500, ""), Text("0.85", 85, ""), Text("-5%", -500, "%")}
      [] k = "hold_ms" ->
           {Pair(a, b) : a, b \in {-3000, -50, 4000, 9000}} \cup {Number(4050), Number(-700), Bool(TRUE)}
      [] k = "debug_auto_fire_ms" -> {Number(n) : n \in {-100, 50, 30000, 90000000}} \cup Wrong
      [] k \in {"a_number", "a_text"} -> {Number(-50), Text("x", 0, "x")}
      [] k = "distribution" -> {Text("uniform", 0, "uniform"), Text("x", 0, "x"), Number(0)}
      [] k \in {"key", "debug_trigger_key"} -> MCKeys
      [] k = "hold_ms_" -> {Pair(4000, 9000)}]
=============================================================================
