------------------------------ MODULE JsonEdits -----------------------------
(* A JSON document that is edited by hand and read by json.cpp.  json.h promises
   that "hand edited config files do not blow up": comments and trailing commas
   are read over. *)
EXTENDS JsonText

CONSTANTS
  Values,       \* what the documents mean before they are edited
  Ignored,      \* texts JSON readers with comments skip between two tokens
  Respellings,  \* pairs of tokens that mean the same
  MaxEdits      \* bound: how many edits are made

ASSUME EditsAssumption ==
  /\ Ignored \subseteq Seq(Byte) /\ MaxEdits \in Nat
  /\ \A r \in Respellings : r \in Seq(Byte) \X Seq(Byte)

VARIABLES
  value,   \* what the document means
  tokens,  \* its text, token by token, with what lies between them
  edits    \* how many edits were made

vars == <<value, tokens, edits>>

(* Tokens spells a value token by token, as RFC 8259 has it. *)

Opening == {Bytes("{"), Bytes("["), Bytes(":"), Bytes(",")}

Closing == {Bytes("}"), Bytes("]")}

Comma == Bytes(",")

RECURSIVE Tokens(_)
Tokens(v) ==
  CASE v.type = "array" ->
         <<Bytes("[")>> \o Between([i \in DOMAIN v.array |-> Tokens(v.array[i])], <<Comma>>)
           \o <<Bytes("]")>>
    [] v.type = "object" ->
         <<Bytes("{")>>
           \o Between([i \in DOMAIN v.object |->
                <<DumpString(v.object[i].key), Bytes(":")>> \o Tokens(v.object[i].value)], <<Comma>>)
           \o <<Bytes("}")>>
    [] OTHER -> <<DumpValue(v, -1, 0)>>

Text == FlattenSeq(tokens)

Init ==
  /\ value \in Values
  /\ tokens = Tokens(value)
  /\ edits = 0

Edit(new) ==
  /\ edits < MaxEdits /\ edits' = edits + 1
  /\ tokens' = new
  /\ UNCHANGED value

InsertedAt(i, what) == SubSeq(tokens, 1, i) \o what \o SubSeq(tokens, i + 1, Len(tokens))

(* Space or a comment, anywhere between two tokens; *)
Annotate == \E i \in 0..Len(tokens), text \in Ignored : Edit(InsertedAt(i, <<text>>))

(* a comma behind the last item of a list; *)
TrailComma ==
  \E i \in 2..Len(tokens) :
    /\ tokens[i] \in Closing /\ tokens[i - 1] \notin Ignored \cup Opening
    /\ Edit(InsertedAt(i - 1, <<Comma>>))

(* another spelling of a string or a number; *)
Respell == \E i \in DOMAIN tokens, r \in Respellings :
             tokens[i] = r[1] /\ Edit([tokens EXCEPT ![i] = r[2]])

(* a second entry of the name of the first one, at the end, which does not count. *)
Repeat ==
  /\ value.type = "object" /\ value.object # <<>>
  /\ tokens[Len(tokens)] = Bytes("}") /\ tokens[Len(tokens) - 1] \notin Ignored \cup Opening
  /\ Edit(InsertedAt(Len(tokens) - 1,
            <<Comma, DumpString(value.object[1].key), Bytes(":"), Bytes("null")>>))

Next == Annotate \/ TrailComma \/ Respell \/ Repeat

Spec == Init /\ [][Next]_vars

-----------------------------------------------------------------------------
(* All that the lookups of the mod can tell about a value. *)
RECURSIVE Meaning(_)
Meaning(v) ==
  CASE v.type = "array"  -> Array([i \in DOMAIN v.array |-> Meaning(v.array[i])])
    [] v.type = "object" ->
         Object([key \in {v.object[i].key : i \in DOMAIN v.object} |-> Meaning(Find(v, key))])
    [] OTHER -> v

Is(result, v) == result.ok /\ Meaning(result.value) = Meaning(v)

(* json.h: "tolerates // and /* */ comments and trailing commas": whatever of it
   an editor leaves behind, and however he spells a string or a number, the
   document is read as what it means. *)
HandEditsRead == Is(ParseText(Text), value)

Damaged ==
  {FlattenSeq([tokens EXCEPT ![i] = Bytes(" ")]) :
     i \in {j \in DOMAIN tokens : tokens[j] \in Opening \cup Closing}}
  \cup {SubSeq(Text, 1, n) : n \in 0..Len(Text) - 1}

Harmless(result) == result.ok /\ result.value.type = "object" => Is(result, value)

(* A document that lost one of its brackets, colons or commas, or that is cut
   short in the middle of a save, is refused, if it does not still mean the same:
   it is never read as an object with other settings. *)
DamageRefused == \A t \in Damaged : Harmless(ParseText(t))

SetIsFound(read, set, key) ==
  \A i \in DOMAIN read.object : LET other == read.object[i].key IN
    Find(set, other) = IF other = key THEN Null ELSE Find(read, other)

WrittenReads(read) ==
  /\ \A indent \in {-1, 2} : ParseText(Dump(read, indent)).value = read
  /\ read.type = "object" =>
       \A i \in DOMAIN read.object : LET key == read.object[i].key IN
         SetIsFound(read, Set(read, key, Null), key)

(* What dump() writes, indented or not, parse() reads back: the settings reference
   next to the config can be copied from.  set() on what was read is seen by find(),
   also where a name stands twice. *)
WhatIsWrittenReads == WrittenReads(ParseText(Text).value)
=============================================================================
