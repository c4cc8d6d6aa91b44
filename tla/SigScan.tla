------------------------------- MODULE SigScan ------------------------------
(* sigscan.cpp: parsePattern() reads a pattern as the signature file spells it,
   scan() looks for a given match of it in the game's text, countMatches() tells
   whether it is ambiguous.  Both go from match to match with findFrom().

   A spelling is a sequence of characters, each a string, and a pattern one of
   bytes and Wild.  Positions in the text are 1..Len(text); 0 is the null that is
   returned when there is no match. *)
EXTENDS Integers, FiniteSets, SequencesExt

CONSTANTS
  Wild,     \* what matches any byte
  Garbled   \* stands where parsePattern() gave up

Digits   == <<"0", "1", "2", "3", "4", "5", "6", "7", "8", "9", "a", "b", "c", "d", "e", "f">>
Capitals == <<"A", "B", "C", "D", "E", "F">>

IsHex(c) == c \in ToSet(Digits) \cup ToSet(Capitals)

hexDigit(c) == IF c \in ToSet(Digits) THEN SelectInSeq(Digits, LAMBDA d : d = c) - 1
               ELSE SelectInSeq(Capitals, LAMBDA d : d = c) + 9

(* One blank stands for all of them. *)
isspace(c) == c = " "

(* The character at a place, or none behind the end. *)
None == ""
CharAt(spelt, i) == IF i \in DOMAIN spelt THEN spelt[i] ELSE None

(* "\x" and "0x" in front of a byte, as signature dumps have them. *)
Prefix(spelt, i) == CharAt(spelt, i) \in {"\\", "0"} /\ CharAt(spelt, i + 1) \in {"x", "X"}

HexByte(spelt, i) == IsHex(CharAt(spelt, i)) /\ IsHex(CharAt(spelt, i + 1))

OneWildEach(spelt, i) == 1   \* Fault: the second ? is a wildcard of its own

(* How many characters the wildcard at i takes. *)
WildLength(spelt, i) == IF CharAt(spelt, i + 1) = "?" THEN 2 ELSE 1

(* What lies at a place says: nothing, a wildcard, a byte, or that it is no pattern. *)
Says(spelt, i) ==
  CASE isspace(CharAt(spelt, i)) \/ Prefix(spelt, i) -> << >>
    [] CharAt(spelt, i) = "?" -> <<Wild>>
    [] HexByte(spelt, i) -> <<16 * hexDigit(spelt[i]) + hexDigit(spelt[i + 1])>>
    [] OTHER -> <<Garbled>>

(* How many characters that takes; who gives up reads none of the rest. *)
Takes(spelt, i) ==
  CASE isspace(CharAt(spelt, i)) -> 1
    [] CharAt(spelt, i) = "?" -> WildLength(spelt, i)
    [] Prefix(spelt, i) \/ HexByte(spelt, i) -> 2
    [] OTHER -> Len(spelt) + 1 - i

parsePattern(spelt) ==
  LET from[i \in 1..Len(spelt) + 2] ==
        IF i > Len(spelt) THEN << >> ELSE Says(spelt, i) \o from[i + Takes(spelt, i)]
  IN from[1]

Concrete(pattern) == {i \in DOMAIN pattern : pattern[i] # Wild}

(* What parsePattern() lets through: it begins with a byte, and has four. *)
Usable(pattern) ==
  /\ Garbled \notin ToSet(pattern)
  /\ pattern # << >> /\ pattern[1] # Wild
  /\ Cardinality(Concrete(pattern)) >= 4

(* The last start from which the pattern still fits. *)
Limit(text, pattern) == Len(text) - Len(pattern) + 1

Compares(text, pattern, p) ==
  \A i \in 2..Len(pattern) : pattern[i] = Wild \/ text[p + i - 1] = pattern[i]

(* The candidates memchr() stops at, until one compares. *)
findFrom(text, pattern, from) ==
  LET found == {p \in from..Limit(text, pattern) :
                  text[p] = pattern[1] /\ Compares(text, pattern, p)}
  IN IF found = {} THEN 0 ELSE Min(found)

(* Matches may overlap: the next search starts one byte on. *)
Behind(match, pattern) == match + 1

(* The matches one after the other, from the 0th. *)
Found(text, pattern) ==
  LET found[k \in 0..Len(text)] ==
        IF k = 0 THEN findFrom(text, pattern, 1)
        ELSE IF found[k - 1] = 0 THEN 0
        ELSE findFrom(text, pattern, Behind(found[k - 1], pattern))
  IN found

scanFromOne(text, pattern, occurrence) ==   \* Fault: the first match is the 1st, not the 0th
  IF occurrence \in 1..Len(text) THEN Found(text, pattern)[occurrence - 1] ELSE 0

(* An occurrence is a size_t, so a negative one is never reached. *)
scan(text, pattern, occurrence) ==
  IF occurrence \in 0..Len(text) THEN Found(text, pattern)[occurrence] ELSE 0

Counted(limit) == 0..limit - 1

countMatches(text, pattern, limit) ==
  LET found == Found(text, pattern) IN
  Cardinality({k \in Counted(limit) \cap DOMAIN found : found[k] # 0})

-----------------------------------------------------------------------------
(* The reference: the places where the pattern lies, found all at once. *)
Matches(text, pattern) ==
  {p \in DOMAIN text :
     \A i \in DOMAIN pattern :
       p + i - 1 \in DOMAIN text /\ pattern[i] \in {Wild, text[p + i - 1]}}
=============================================================================
