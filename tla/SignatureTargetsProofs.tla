----------------------- MODULE SignatureTargetsProofs -----------------------
(* For any signature files, any exported symbols and any text: the scanner finds the
   match asked for or there is none, a target is where its own entry says, and the
   hooks that go in are those that can be told to see the player alone. *)
EXTENDS SignatureTargets, WellFoundedInduction, SequenceTheorems, FiniteSetTheorems, TLAPS

-----------------------------------------------------------------------------
(* Induction over data, with sets for the predicates. *)

Below == {p \in Nat \X Nat : p[1] < p[2]}

LEMMA LeastNumber ==
  ASSUME NEW T, T \subseteq Nat, T # {}
  PROVE  \E n \in T : \A m \in T : n <= m
<1>1. IsWellFoundedOn(Below, Nat)
  BY NatLessThanWellFounded DEF OpToRel, Below
<1>2. PICK n \in T : \A m \in T : ~ (<<m, n>> \in Below)
  BY <1>1, WFMin
<1>3. \A m \in T : ~(m < n)
  BY <1>2 DEF Below
<1> QED
  BY <1>3

LEMMA ByInduction ==
  ASSUME NEW T, 0 \in T, \A n \in Nat : n \in T => n + 1 \in T
  PROVE  Nat \subseteq T
<1> SUFFICES ASSUME NEW x \in Nat, x \notin T
             PROVE  FALSE
  OBVIOUS
<1>1. PICK n \in Nat \ T : \A m \in Nat \ T : n <= m
  <2> DEFINE U == Nat \ T
  <2>1. U \subseteq Nat /\ U # {}
    OBVIOUS
  <2> HIDE DEF U
  <2>2. \E n \in U : \A m \in U : n <= m
    BY <2>1, LeastNumber
  <2> QED
    BY <2>2 DEF U
<1>2. n # 0
  BY <1>1
<1>3. n - 1 \in Nat /\ (n - 1) + 1 = n
  BY <1>2
<1>4. n - 1 \in T
  BY <1>1, <1>3
<1> QED
  BY <1>1, <1>3, <1>4

LEMMA LeastIsMin ==
  ASSUME NEW T, T \subseteq Nat, T # {}
  PROVE  Min(T) \in T /\ \A m \in T : Min(T) <= m
BY LeastNumber DEF Min

-----------------------------------------------------------------------------
(* sigscan.cpp. *)

Symbols == Int \cup {Wild, Garbled}

LEMMA Regrouped ==
  \A x, y, z \in Seq(Symbols) : (x \o y) \o z = x \o (y \o z)
OBVIOUS

LEMMA HexDigitType ==
  ASSUME NEW c, IsHex(c)
  PROVE  hexDigit(c) \in Int
<1>1. CASE c \in ToSet(Digits)
  <2> DEFINE I == {i \in 1..Len(Digits) : Digits[i] = c}
  <2>1. Len(Digits) = 16 /\ DOMAIN Digits = 1..16
    BY DEF Digits
  <2>2. I \subseteq Nat /\ I # {}
    BY <1>1, <2>1 DEF ToSet
  <2>3. Min(I) \in Int
    BY <2>2, LeastIsMin
  <2>4. SelectInSeq(Digits, LAMBDA d : d = c) = Min(I)
    BY <2>2 DEF SelectInSeq
  <2> QED
    BY <1>1, <2>3, <2>4 DEF hexDigit
<1>2. CASE c \notin ToSet(Digits)
  <2> DEFINE I == {i \in 1..Len(Capitals) : Capitals[i] = c}
  <2>1. Len(Capitals) = 6 /\ DOMAIN Capitals = 1..6
    BY DEF Capitals
  <2>2. I \subseteq Nat /\ I # {}
    BY <1>2, <2>1 DEF ToSet, IsHex
  <2>3. Min(I) \in Int
    BY <2>2, LeastIsMin
  <2>4. SelectInSeq(Capitals, LAMBDA d : d = c) = Min(I)
    BY <2>2 DEF SelectInSeq
  <2> QED
    BY <1>2, <2>3, <2>4 DEF hexDigit
<1> QED
  BY <1>1, <1>2

(* The characters parsePattern() tells apart. *)
LEMMA CharsApart ==
  /\ \A c : IsHex(c) => c # None /\ ~isspace(c) /\ c # "?" /\ c # "\\" /\ c # "x" /\ c # "X"
  /\ \A c : isspace(c) => c # "?" /\ c # "\\" /\ c # "0"
  /\ None # "?"
<1> DEFINE Others == {" ", "", "?", "\\", "x", "X"}
<1>1. ASSUME NEW c \in ToSet(Digits)
      PROVE  c \notin Others
  <2>1. DOMAIN Digits = 1..16 /\ \A j \in 1..16 : Digits[j] \notin Others
    BY DEF Digits
  <2> QED
    BY <1>1, <2>1 DEF ToSet
<1>2. ASSUME NEW c \in ToSet(Capitals)
      PROVE  c \notin Others
  <2>1. DOMAIN Capitals = 1..6 /\ \A j \in 1..6 : Capitals[j] \notin Others
    BY DEF Capitals
  <2> QED
    BY <1>2, <2>1 DEF ToSet
<1>3. ASSUME NEW c, IsHex(c)
      PROVE  c # None /\ ~isspace(c) /\ c # "?" /\ c # "\\" /\ c # "x" /\ c # "X"
  <2>1. c \notin Others
    BY <1>1, <1>2, <1>3 DEF IsHex
  <2> QED
    BY <2>1, Zenon DEF None, isspace
<1>4. ASSUME NEW c, isspace(c)
      PROVE  c # "?" /\ c # "\\" /\ c # "0"
  BY <1>4, Zenon DEF isspace
<1>5. None # "?"
  BY Zenon DEF None
<1> QED
  BY <1>3, <1>4, <1>5

LEMMA SaysType ==
  ASSUME NEW spelt \in Seq(STRING), NEW i \in 1..Len(spelt)
  PROVE  Says(spelt, i) \in Seq(Symbols)
<1>1. << >> \in Seq(Symbols) /\ <<Wild>> \in Seq(Symbols) /\ <<Garbled>> \in Seq(Symbols)
  BY DEF Symbols
<1>2. ASSUME HexByte(spelt, i)
      PROVE  <<16 * hexDigit(spelt[i]) + hexDigit(spelt[i + 1])>> \in Seq(Symbols)
  <2>1. ~IsHex(None)
    BY CharsApart
  <2>2. IsHex(spelt[i]) /\ IsHex(spelt[i + 1])
    BY <1>2, <2>1 DEF HexByte, CharAt
  <2>3. hexDigit(spelt[i]) \in Int /\ hexDigit(spelt[i + 1]) \in Int
    BY <2>2, HexDigitType
  <2>4. 16 * hexDigit(spelt[i]) + hexDigit(spelt[i + 1]) \in Symbols
    BY <2>3 DEF Symbols
  <2> QED
    BY <2>4
<1> QED
  BY <1>1, <1>2 DEF Says

LEMMA TakesType ==
  ASSUME NEW spelt \in Seq(STRING), NEW i \in 1..Len(spelt)
  PROVE  i + Takes(spelt, i) \in i + 1..Len(spelt) + 2
<1>1. Len(spelt) \in Nat
  OBVIOUS
<1>2. Takes(spelt, i) \in {1, 2, Len(spelt) + 1 - i}
  BY DEF Takes, WildLength
<1> QED
  BY <1>1, <1>2

(* What the spelling says from i on, given what it says from each later place on. *)
FromHere(spelt, from, i) ==
  IF i > Len(spelt) THEN << >> ELSE Says(spelt, i) \o from[i + Takes(spelt, i)]

LEMMA FromHereType ==
  ASSUME NEW spelt \in Seq(STRING), NEW i \in 1..Len(spelt) + 2,
         NEW from, \A j \in i + 1..Len(spelt) + 2 : from[j] \in Seq(Symbols)
  PROVE  FromHere(spelt, from, i) \in Seq(Symbols)
<1>1. Len(spelt) \in Nat
  OBVIOUS
<1>2. CASE i > Len(spelt)
  BY <1>2, EmptySeq DEF FromHere
<1>3. CASE ~(i > Len(spelt))
  <2>1. i \in 1..Len(spelt)
    BY <1>1, <1>3
  <2>2. from[i + Takes(spelt, i)] \in Seq(Symbols) /\ Says(spelt, i) \in Seq(Symbols)
    BY <2>1, TakesType, SaysType
  <2>3. Says(spelt, i) \o from[i + Takes(spelt, i)] \in Seq(Symbols)
    BY <2>2, ConcatProperties
  <2> QED
    BY <1>3, <2>3 DEF FromHere
<1> QED
  BY <1>2, <1>3

LEMMA FromHereDepends ==
  ASSUME NEW spelt \in Seq(STRING), NEW i \in 1..Len(spelt) + 2, NEW f, NEW g,
         \A j \in i + 1..Len(spelt) + 2 : f[j] = g[j]
  PROVE  FromHere(spelt, f, i) = FromHere(spelt, g, i)
<1>1. Len(spelt) \in Nat
  OBVIOUS
<1>2. CASE ~(i > Len(spelt))
  <2>1. i \in 1..Len(spelt)
    BY <1>1, <1>2
  <2>2. f[i + Takes(spelt, i)] = g[i + Takes(spelt, i)]
    BY <2>1, TakesType
  <2> QED
    BY <1>2, <2>2 DEF FromHere
<1>3. CASE i > Len(spelt)
  BY <1>3 DEF FromHere
<1> QED
  BY <1>2, <1>3

(* What the rest of the spelling says, place by place. *)
Reads(spelt, from) ==
  /\ \A i \in 1..Len(spelt) + 2 : from[i] = FromHere(spelt, from, i) /\ from[i] \in Seq(Symbols)
  /\ parsePattern(spelt) = from[1]

(* parsePattern() comes to an end, whatever it is given. *)
LEMMA ParsedFrom ==
  ASSUME NEW spelt \in Seq(STRING)
  PROVE  \E from : Reads(spelt, from)
<1> DEFINE N == Len(spelt) + 2
           D == 1..N
           Good(f, n) == /\ f \in [D -> Seq(Symbols)]
                         /\ \A i \in D : N - n < i => f[i] = FromHere(spelt, f, i)
           Goods == {n \in Nat : \E f : Good(f, n)}
<1>0. N \in Nat /\ N >= 2
  OBVIOUS
<1> HIDE DEF N
<1>1. 0 \in Goods
  <2>1. Good([i \in D |-> << >>], 0)
    BY <1>0
  <2> QED
    BY <2>1
<1>2. ASSUME NEW n \in Nat, n \in Goods
      PROVE  n + 1 \in Goods
  <2>1. PICK f : Good(f, n)
    BY <1>2
  <2> DEFINE p == N - n
             g == [f EXCEPT ![p] = FromHere(spelt, f, p)]
  <2>2. CASE p \notin D
    <3>1. \A i \in D : N - (n + 1) < i => N - n < i
      BY <1>0, <2>2
    <3>2. Good(f, n + 1)
      BY <2>1, <3>1
    <3> HIDE DEF Good
    <3> QED
      BY <3>2
  <2>3. CASE p \in D
    <3>1. FromHere(spelt, f, p) \in Seq(Symbols)
      <4>1. \A j \in p + 1..Len(spelt) + 2 : f[j] \in Seq(Symbols)
        BY <2>1, <2>3, <1>0 DEF N
      <4> QED
        BY <4>1, <2>3, FromHereType DEF N
    <3>2. g \in [D -> Seq(Symbols)]
      BY <2>1, <3>1
    <3>3. ASSUME NEW i \in D, p <= i
          PROVE  g[i] = FromHere(spelt, g, i)
      <4>1. \A j \in i + 1..Len(spelt) + 2 : f[j] = g[j]
        BY <2>1, <2>3, <3>3, <1>0 DEF N
      <4>2. FromHere(spelt, f, i) = FromHere(spelt, g, i)
        BY <4>1, FromHereDepends DEF N
      <4>3. CASE i = p
        BY <4>2, <4>3, <2>1, <2>3
      <4>4. CASE i # p
        <5>1. p < i
          BY <4>4, <3>3, <2>3, <1>0
        <5> QED
          BY <5>1, <4>2, <4>4, <2>1
      <4> QED
        BY <4>3, <4>4
    <3>4. \A i \in D : N - (n + 1) < i => p <= i
      BY <1>0
    <3>5. Good(g, n + 1)
      BY <3>2, <3>3, <3>4
    <3> HIDE DEF Good, g
    <3> QED
      BY <3>5
  <2> QED
    BY <2>2, <2>3
<1>3. N \in Goods
  <2> HIDE DEF Goods
  <2> QED
    BY <1>0, <1>1, <1>2, ByInduction
<1>4. PICK f : Good(f, N)
  BY <1>3
<1>5. f = [i \in D |-> FromHere(spelt, f, i)]
  BY <1>4, <1>0
<1> DEFINE from == CHOOSE h : h = [i \in D |-> FromHere(spelt, h, i)]
<1>6. from = [i \in D |-> FromHere(spelt, from, i)]
  BY <1>5
<1>7. parsePattern(spelt) = from[1]
  BY DEF parsePattern, FromHere, N
<1> HIDE DEF from
<1> DEFINE Same == {n \in Nat : \A i \in D : N - n < i => from[i] \in Seq(Symbols)}
<1>8. 0 \in Same
  BY <1>0
<1>9. ASSUME NEW n \in Nat, n \in Same
      PROVE  n + 1 \in Same
  <2>1. SUFFICES ASSUME NEW i \in D, N - (n + 1) < i
                 PROVE  from[i] \in Seq(Symbols)
    OBVIOUS
  <2>2. \A j \in i + 1..Len(spelt) + 2 : from[j] \in Seq(Symbols)
    BY <1>9, <2>1, <1>0 DEF N
  <2>3. FromHere(spelt, from, i) \in Seq(Symbols)
    BY <2>2, FromHereType DEF N
  <2> QED
    BY <2>3, <1>6
<1>10. N \in Same
  <2> HIDE DEF Same
  <2> QED
    BY <1>0, <1>8, <1>9, ByInduction
<1>11. ASSUME NEW i \in D
       PROVE  from[i] = FromHere(spelt, from, i) /\ from[i] \in Seq(Symbols)
  <2>1. N - N < i
    BY <1>0
  <2>2. from[i] \in Seq(Symbols)
    BY <1>10, <2>1
  <2>3. from[i] = FromHere(spelt, from, i)
    BY <1>6, Zenon
  <2> QED
    BY <2>2, <2>3
<1>12. Reads(spelt, from)
  BY <1>7, <1>11 DEF Reads, N
<1> QED
  BY <1>12

(* It says bytes, wildcards and the mark of where it gave up. *)
LEMMA ParsedType ==
  ASSUME NEW spelt \in Seq(STRING)
  PROVE  parsePattern(spelt) \in Seq(Symbols)
<1>1. PICK from : Reads(spelt, from)
  BY ParsedFrom
<1>2. 1 \in 1..Len(spelt) + 2
  OBVIOUS
<1> QED
  BY <1>1, <1>2 DEF Reads

(* The words a pattern is written in. *)
HexChars  == ToSet(Digits) \cup ToSet(Capitals)
Blanks    == {<<" ">>}
Escapes   == {<<p, x>> : p \in {"\\", "0"}, x \in {"x", "X"}}
Wildcards == {<<"?">>, <<"?", "?">>}
Bytes     == {<<c, d>> : c \in HexChars, d \in HexChars}
Words     == Blanks \cup Escapes \cup Wildcards \cup Bytes

MeansOf(w) == IF w \in Blanks \cup Escapes THEN << >> ELSE IF w \in Wildcards THEN <<Wild>>
              ELSE <<16 * hexDigit(w[1]) + hexDigit(w[2])>>

(* The parts lie one behind the other in s, each from its place. *)
Laid(s, parts, place) ==
  /\ place \in [1..Len(parts) + 1 -> 1..Len(s) + 1] /\ place[1] = 1
  /\ \A k \in 1..Len(parts) :
       /\ place[k + 1] = place[k] + Len(parts[k])
       /\ \A j \in 1..Len(parts[k]) : s[place[k] + j - 1] = parts[k][j]

Joined(s, parts) == \E place : Laid(s, parts, place) /\ place[Len(parts) + 1] = Len(s) + 1

Meanings(words) == [k \in 1..Len(words) |-> MeansOf(words[k])]

(* No two of them run into one, as ? and ? do. *)
Apart(words) == \A k \in 1..Len(words) - 1 : words[k] = <<"?">> => words[k + 1][1] # "?"

(* No word lies at this place. *)
NoWord(s, i) == \A w \in Words : \E j \in 1..Len(w) : CharAt(s, i + j - 1) # w[j]

(* A word is one of these. *)
Blank(w)  == Len(w) = 1 /\ isspace(w[1]) /\ MeansOf(w) = << >>
Escape(w) == Len(w) = 2 /\ w[1] \in {"\\", "0"} /\ w[2] \in {"x", "X"} /\ MeansOf(w) = << >>
Lone(w)   == Len(w) = 1 /\ w[1] = "?" /\ MeansOf(w) = <<Wild>>
Double(w) == Len(w) = 2 /\ w[1] = "?" /\ w[2] = "?" /\ MeansOf(w) = <<Wild>>
Hexed(w)  == /\ Len(w) = 2 /\ IsHex(w[1]) /\ IsHex(w[2])
             /\ MeansOf(w) = <<16 * hexDigit(w[1]) + hexDigit(w[2])>>

LEMMA WordKinds ==
  ASSUME NEW w \in Words
  PROVE  Blank(w) \/ Escape(w) \/ (w = <<"?">> /\ Lone(w)) \/ Double(w) \/ Hexed(w)
<1>1. \A b \in Blanks : Len(b) = 1 /\ isspace(b[1])
  <2>1. \A b \in Blanks : \E c : isspace(c) /\ b = <<c>>
    BY Zenon DEF Blanks, isspace
  <2> QED
    BY <2>1
<1>2. \A e \in Escapes : Len(e) = 2 /\ e[1] \in {"\\", "0"} /\ e[2] \in {"x", "X"}
  BY DEF Escapes
<1>3. CASE w \in Blanks
  BY <1>1, <1>3 DEF Blank, MeansOf
<1>4. CASE w \in Escapes
  BY <1>2, <1>4 DEF Escape, MeansOf
<1>5. CASE w \in Wildcards
  <2>1. w[1] = "?" /\ ((w = <<"?">> /\ Len(w) = 1) \/ (Len(w) = 2 /\ w[2] = "?"))
    BY <1>5 DEF Wildcards
  <2>2. w \notin Blanks \cup Escapes
    BY <1>1, <1>2, <2>1, CharsApart
  <2> QED
    BY <1>5, <2>1, <2>2 DEF Lone, Double, MeansOf
<1>6. CASE w \in Bytes
  <2>1. Len(w) = 2 /\ IsHex(w[1]) /\ IsHex(w[2])
    BY <1>6 DEF Bytes, HexChars, IsHex
  <2>2. w \notin Blanks \cup Escapes
    BY <1>1, <1>2, <2>1, CharsApart
  <2>3. w \notin Wildcards
    <3>1. \A v \in Wildcards : v[1] = "?"
      BY DEF Wildcards
    <3> QED
      BY <2>1, <3>1, CharsApart
  <2> QED
    BY <2>1, <2>2, <2>3 DEF Hexed, MeansOf
<1> QED
  BY <1>3, <1>4, <1>5, <1>6 DEF Words

(* Where a word lies parsePattern() says what it means, and goes on behind it. *)
LEMMA WordIsRead ==
  ASSUME NEW spelt \in Seq(STRING), NEW w \in Words, NEW i \in 1..Len(spelt),
         \A j \in 1..Len(w) : CharAt(spelt, i + j - 1) = w[j],
         w = <<"?">> => CharAt(spelt, i + 1) # "?"
  PROVE  Says(spelt, i) = MeansOf(w) /\ Takes(spelt, i) = Len(w)
<1> DEFINE c == CharAt(spelt, i)
           d == CharAt(spelt, i + 1)
<1>0. /\ Len(w) >= 1 => c = w[1]
      /\ Len(w) >= 2 => d = w[2]
  OBVIOUS
<1>1. CASE Blank(w)
  <2>1. isspace(c) /\ c # "?" /\ ~Prefix(spelt, i) /\ ~HexByte(spelt, i)
    BY <1>0, <1>1, CharsApart DEF Blank, Prefix, HexByte
  <2>2. Says(spelt, i) = << >>
    BY <2>1 DEF Says
  <2>3. Takes(spelt, i) = 1
    BY <2>1 DEF Takes
  <2> QED
    BY <1>1, <2>2, <2>3 DEF Blank
<1>2. CASE Escape(w)
  <2>1. Prefix(spelt, i) /\ ~isspace(c) /\ c # "?" /\ ~HexByte(spelt, i)
    BY <1>0, <1>2, CharsApart DEF Escape, Prefix, HexByte
  <2>2. Says(spelt, i) = << >>
    BY <2>1 DEF Says
  <2>3. Takes(spelt, i) = 2
    BY <2>1 DEF Takes
  <2> QED
    BY <1>2, <2>2, <2>3 DEF Escape
<1>3. CASE w = <<"?">> /\ Lone(w)
  <2>1. c = "?" /\ d # "?"
    BY <1>0, <1>3 DEF Lone
  <2>2. ~Prefix(spelt, i) /\ ~HexByte(spelt, i) /\ ~isspace(c) /\ WildLength(spelt, i) = 1
    BY <2>1, CharsApart DEF Prefix, HexByte, WildLength
  <2>3. Says(spelt, i) = <<Wild>>
    BY <2>1, <2>2 DEF Says
  <2>4. Takes(spelt, i) = 1
    BY <2>1, <2>2 DEF Takes
  <2> QED
    BY <1>3, <2>3, <2>4 DEF Lone
<1>4. CASE Double(w)
  <2>1. c = "?" /\ d = "?"
    BY <1>0, <1>4 DEF Double
  <2>2. ~Prefix(spelt, i) /\ ~HexByte(spelt, i) /\ ~isspace(c) /\ WildLength(spelt, i) = 2
    BY <2>1, CharsApart DEF Prefix, HexByte, WildLength
  <2>3. Says(spelt, i) = <<Wild>>
    BY <2>1, <2>2 DEF Says
  <2>4. Takes(spelt, i) = 2
    BY <2>1, <2>2 DEF Takes
  <2> QED
    BY <1>4, <2>3, <2>4 DEF Double
<1>5. CASE Hexed(w)
  <2>1. c = w[1] /\ d = w[2] /\ IsHex(c) /\ IsHex(d)
    BY <1>0, <1>5 DEF Hexed
  <2>2. d # "x" /\ d # "X" /\ c # None /\ d # None /\ ~isspace(c) /\ c # "?"
    BY <2>1, CharsApart
  <2>3. ~Prefix(spelt, i) /\ HexByte(spelt, i)
    BY <2>1, <2>2 DEF Prefix, HexByte
  <2>4. spelt[i] = w[1] /\ spelt[i + 1] = w[2]
    BY <2>1, <2>2 DEF CharAt
  <2>5. Says(spelt, i) = <<16 * hexDigit(w[1]) + hexDigit(w[2])>>
    BY <2>2, <2>3, <2>4 DEF Says
  <2>6. Takes(spelt, i) = 2
    BY <2>2, <2>3 DEF Takes
  <2> QED
    BY <1>5, <2>5, <2>6 DEF Hexed
<1> QED
  BY <1>1, <1>2, <1>3, <1>4, <1>5, WordKinds

LEMMA NoWordGivesUp ==
  ASSUME NEW spelt \in Seq(STRING), NEW i \in 1..Len(spelt), NoWord(spelt, i)
  PROVE  Says(spelt, i) = <<Garbled>>
<1> DEFINE c == CharAt(spelt, i)
           d == CharAt(spelt, i + 1)
<1>1. ~isspace(c)
  <2> SUFFICES ASSUME isspace(c) PROVE FALSE
    OBVIOUS
  <2>1. <<c>> \in Words
    BY Zenon DEF Words, Blanks, isspace
  <2>2. PICK j \in 1..Len(<<c>>) : CharAt(spelt, i + j - 1) # <<c>>[j]
    BY <2>1 DEF NoWord
  <2> QED
    BY <2>2
<1>2. c # "?"
  <2>1. <<"?">> \in Words
    BY DEF Words, Wildcards
  <2>2. PICK j \in 1..Len(<<"?">>) : CharAt(spelt, i + j - 1) # <<"?">>[j]
    BY <2>1 DEF NoWord
  <2> QED
    BY <2>2
<1>3. ASSUME NEW p, NEW x, <<p, x>> \in Words, c = p, d = x
      PROVE  FALSE
  <2>1. \E j \in 1..Len(<<p, x>>) : CharAt(spelt, i + j - 1) # <<p, x>>[j]
    BY <1>3 DEF NoWord
  <2>2. PICK j \in 1..2 : CharAt(spelt, i + j - 1) # <<p, x>>[j]
    BY <2>1
  <2>3. CASE j = 1
    BY <1>3, <2>2, <2>3
  <2>4. CASE j = 2
    BY <1>3, <2>2, <2>4
  <2> QED
    BY <2>3, <2>4
<1>4. ~Prefix(spelt, i)
  <2> SUFFICES ASSUME Prefix(spelt, i) PROVE FALSE
    OBVIOUS
  <2>1. c \in {"\\", "0"} /\ d \in {"x", "X"}
    BY DEF Prefix
  <2>2. <<c, d>> \in Words
    BY <2>1 DEF Words, Escapes
  <2> QED
    BY <1>3, <2>2
<1>5. ~HexByte(spelt, i)
  <2> SUFFICES ASSUME HexByte(spelt, i) PROVE FALSE
    OBVIOUS
  <2>1. c \in HexChars /\ d \in HexChars
    BY DEF HexByte, IsHex, HexChars
  <2>2. <<c, d>> \in Words
    BY <2>1 DEF Words, Bytes
  <2> QED
    BY <1>3, <2>2
<1> QED
  BY <1>1, <1>2, <1>4, <1>5 DEF Says

(* A word means nothing, or one symbol. *)
LEMMA WordType ==
  ASSUME NEW w \in Words
  PROVE  /\ Len(w) \in {1, 2}
         /\ MeansOf(w) = << >> \/ \E e \in Symbols : MeansOf(w) = <<e>>
<1>1. CASE Blank(w) \/ Escape(w)
  BY <1>1 DEF Blank, Escape
<1>2. CASE Lone(w) \/ Double(w)
  BY <1>2 DEF Lone, Double, Symbols
<1>3. CASE Hexed(w)
  <2>1. 16 * hexDigit(w[1]) + hexDigit(w[2]) \in Symbols
    BY <1>3, HexDigitType DEF Hexed, Symbols
  <2> QED
    BY <1>3, <2>1 DEF Hexed
<1> QED
  BY <1>1, <1>2, <1>3, WordKinds

(* The last word does not run into what follows. *)
EndsThere(spelt, words, stop) ==
  \A k \in 1..Len(words) : k = Len(words) /\ words[k] = <<"?">> => CharAt(spelt, stop) # "?"

(* The words lie in the spelling from its start, up to the place that is called stop. *)
UpTo(spelt, words, place, stop) ==
  Laid(spelt, words, place) /\ stop = place[Len(words) + 1] /\ EndsThere(spelt, words, stop)

(* What parsePattern() makes of words: what they mean, and what is left behind them. *)
LEMMA WordsAreRead ==
  ASSUME NEW spelt \in Seq(STRING), NEW words \in Seq(Words), Apart(words),
         NEW pattern \in Seq(Symbols), Joined(pattern, Meanings(words)),
         NEW from, Reads(spelt, from),
         NEW place, NEW stop, UpTo(spelt, words, place, stop)
  PROVE  from[1] = pattern \o from[stop]
<1> DEFINE n == Len(words)
           N == Len(spelt)
           L == Len(pattern)
           ms == Meanings(words)
<1>0. n \in Nat /\ N \in Nat /\ L \in Nat /\ Len(ms) = n /\ \A k \in 1..n : ms[k] = MeansOf(words[k])
  BY DEF Meanings
<1>1. PICK start : Laid(pattern, ms, start) /\ start[n + 1] = L + 1
  BY <1>0 DEF Joined
<1> HIDE DEF n, N, L, ms
<1>2. /\ place \in [1..n + 1 -> 1..N + 1] /\ place[1] = 1
      /\ \A k \in 1..n : /\ place[k + 1] = place[k] + Len(words[k])
                         /\ \A j \in 1..Len(words[k]) : spelt[place[k] + j - 1] = words[k][j]
  BY DEF UpTo, Laid, n, N
<1>3. /\ start \in [1..n + 1 -> 1..L + 1] /\ start[1] = 1 /\ start[n + 1] = L + 1
      /\ \A k \in 1..n : /\ start[k + 1] = start[k] + Len(MeansOf(words[k]))
                         /\ \A j \in 1..Len(MeansOf(words[k])) :
                              pattern[start[k] + j - 1] = MeansOf(words[k])[j]
  <2>1. /\ start \in [1..n + 1 -> 1..L + 1] /\ start[1] = 1
        /\ \A k \in 1..n : /\ start[k + 1] = start[k] + Len(ms[k])
                           /\ \A j \in 1..Len(ms[k]) : pattern[start[k] + j - 1] = ms[k][j]
    BY <1>0, <1>1 DEF Laid, L
  <2>2. ASSUME NEW k \in 1..n
        PROVE  /\ start[k + 1] = start[k] + Len(MeansOf(words[k]))
               /\ \A j \in 1..Len(MeansOf(words[k])) :
                    pattern[start[k] + j - 1] = MeansOf(words[k])[j]
    <3>1. ms[k] = MeansOf(words[k])
      BY <1>0
    <3> QED
      BY <2>1, <3>1
  <2> QED
    BY <1>1, <2>1, <2>2
<1>4. stop = place[n + 1] /\ stop \in 1..N + 1
  <2>1. stop = place[n + 1]
    BY DEF UpTo, n
  <2>2. n + 1 \in 1..n + 1
    BY <1>0
  <2> QED
    BY <1>2, <2>1, <2>2
<1>5. from[stop] \in Seq(Symbols)
  BY <1>0, <1>4 DEF Reads, N
<1> DEFINE Rest(k) == SubSeq(pattern, start[k], L)
           P(k) == from[place[k]] = Rest(k) \o from[stop]
           T == {m \in Nat : m <= n => P(n + 1 - m)}
<1>6. 0 \in T
  <2>1. Rest(n + 1) = << >>
    BY <1>0, <1>3, SubSeqEmpty
  <2>2. << >> \o from[stop] = from[stop]
    BY <1>5, ConcatEmptySeq
  <2>3. P(n + 1) /\ n + 1 - 0 = n + 1
    BY <1>0, <1>4, <2>1, <2>2
  <2> HIDE DEF P
  <2> QED
    BY <2>3
<1>7. ASSUME NEW m \in Nat, m \in T
      PROVE  m + 1 \in T
  <2> SUFFICES ASSUME m + 1 <= n
               PROVE  P(n + 1 - (m + 1))
    <3> HIDE DEF P
    <3> QED
      OBVIOUS
  <2> DEFINE k == n - m
             w == words[k]
             i == place[k]
             next == place[k + 1]
  <2>1. k \in 1..n /\ n + 1 - (m + 1) = k /\ n + 1 - m = k + 1
    BY <1>0
  <2>2. from[next] = Rest(k + 1) \o from[stop]
    <3>1. m <= n
      BY <1>0
    <3>2. P(k + 1)
      <4> HIDE DEF P, k
      <4> QED
        BY <1>7, <2>1, <3>1
    <3> QED
      BY <3>2
  <2>3. w \in Words
    BY <2>1 DEF n
  <2>4. Len(w) \in {1, 2} /\ next = i + Len(w) /\ i \in 1..N + 1 /\ next \in 1..N + 1
    <3> HIDE DEF k
    <3>1. k \in 1..n + 1 /\ k + 1 \in 1..n + 1
      BY <1>0, <2>1
    <3>2. i \in 1..N + 1 /\ next \in 1..N + 1
      BY <1>2, <3>1
    <3>3. Len(w) \in {1, 2}
      BY <2>3, WordType
    <3>4. next = i + Len(w)
      BY <1>2, <2>1
    <3> QED
      BY <3>2, <3>3, <3>4
  <2>5. i \in 1..N
    <3> DEFINE l == Len(w)
    <3>1. l \in {1, 2} /\ next = i + l /\ i \in 1..N + 1 /\ next \in 1..N + 1
      BY <2>4
    <3> HIDE DEF i, next, l
    <3> QED
      BY <1>0, <3>1
  <2>6. ASSUME NEW j \in 1..Len(w)
        PROVE  CharAt(spelt, i + j - 1) = w[j]
    <3>1. spelt[i + j - 1] = w[j]
      BY <1>2, <2>1
    <3>2. i + j - 1 \in 1..N
      <4> DEFINE l == Len(w)
      <4>1. l \in {1, 2} /\ next = i + l /\ i \in 1..N /\ next \in 1..N + 1 /\ j \in 1..l
        BY <2>4, <2>5
      <4> HIDE DEF w, i, next, l
      <4> QED
        BY <1>0, <4>1
    <3> QED
      BY <3>1, <3>2 DEF CharAt, N
  <2>7. ASSUME w = <<"?">>
        PROVE  CharAt(spelt, i + 1) # "?"
    <3>1. next = i + 1
      BY <2>4, <2>7
    <3>2. CASE k = n
      <4>1. CharAt(spelt, stop) # "?"
        <5> HIDE DEF k
        <5>1. k \in 1..Len(words) /\ k = Len(words) /\ words[k] = <<"?">>
          BY <2>1, <2>7, <3>2 DEF n
        <5> QED
          BY <5>1 DEF UpTo, EndsThere
      <4>2. stop = i + 1
        BY <1>4, <3>1, <3>2
      <4> QED
        BY <4>1, <4>2
    <3>3. CASE k # n
      <4>1. k \in 1..Len(words) - 1 /\ k + 1 \in 1..n
        BY <1>0, <2>1, <3>3 DEF n
      <4>2. words[k + 1][1] # "?"
        BY <2>7, <4>1 DEF Apart
      <4>3. words[k + 1] \in Words
        BY <4>1 DEF n
      <4>4. Len(words[k + 1]) \in {1, 2}
        BY <4>3, WordType
      <4> HIDE DEF k
      <4>5. spelt[next] = words[k + 1][1]
        <5>0. 1 \in 1..Len(words[k + 1])
          <6> DEFINE l == Len(words[k + 1])
          <6>1. l \in {1, 2}
            BY <4>4
          <6> HIDE DEF l
          <6>2. 1 \in 1..l
            BY <6>1
          <6> QED
            BY <6>2 DEF l
        <5>1. \A j \in 1..Len(words[k + 1]) : spelt[next + j - 1] = words[k + 1][j]
          BY <1>2, <4>1
        <5> HIDE DEF next
        <5>2. spelt[next + 1 - 1] = words[k + 1][1]
          BY <5>0, <5>1
        <5>3. next + 1 - 1 = next
          BY <2>4
        <5> QED
          BY <5>2, <5>3
      <4>6. next \in 1..N
        <5>1. place[k + 1 + 1] = next + Len(words[k + 1]) /\ place[k + 1 + 1] \in 1..N + 1
          BY <1>0, <1>2, <4>1
        <5> DEFINE l == Len(words[k + 1])
        <5>2. l \in {1, 2} /\ next \in 1..N + 1 /\ next + l \in 1..N + 1
          <6>1. l \in {1, 2}
            BY <4>4
          <6>2. next \in 1..N + 1
            BY <2>4
          <6> HIDE DEF next
          <6> QED
            BY <5>1, <6>1, <6>2
        <5> HIDE DEF next, l
        <5> QED
          BY <1>0, <5>2
      <4>7. CharAt(spelt, next) = words[k + 1][1]
        BY <4>5, <4>6 DEF CharAt, N
      <4> QED
        BY <3>1, <4>2, <4>7
    <3> QED
      BY <3>2, <3>3
  <2>8. Says(spelt, i) = MeansOf(w) /\ Takes(spelt, i) = Len(w)
    <3> HIDE DEF w, i
    <3> QED
      BY <2>3, <2>5, <2>6, <2>7, WordIsRead DEF N
  <2>9. from[i] = MeansOf(w) \o from[next]
    <3>1. from[i] = FromHere(spelt, from, i)
      BY <1>0, <2>5 DEF Reads, N
    <3>2. ~(i > Len(spelt))
      BY <1>0, <2>5 DEF N
    <3> QED
      BY <2>4, <2>8, <3>1, <3>2 DEF FromHere
  <2>10. start[k] \in 1..L + 1 /\ start[k + 1] \in 1..L + 1
    BY <1>0, <1>3, <2>1
  <2>11. Rest(k) \in Seq(Symbols) /\ Rest(k + 1) \in Seq(Symbols)
    <3>1. \A s \in 1..L + 1 : SubSeq(pattern, s, L) \in Seq(Symbols)
      BY SubSeqProperties, <1>0 DEF L
    <3> QED
      BY <2>10, <3>1
  <2>12. MeansOf(w) \in Seq(Symbols) /\ MeansOf(w) \o Rest(k + 1) = Rest(k)
    <3>1. CASE MeansOf(w) = << >>
      <4>1. start[k + 1] = start[k]
        <5>1. start[k + 1] = start[k] + Len(MeansOf(w))
          BY <1>3, <2>1
        <5>2. Len(MeansOf(w)) = 0
          BY <3>1
        <5> HIDE DEF k, w
        <5> QED
          BY <2>10, <5>1, <5>2
      <4> QED
        BY <2>11, <3>1, <4>1, EmptySeq, ConcatEmptySeq
    <3>2. ASSUME NEW e \in Symbols, MeansOf(w) = <<e>>
          PROVE  MeansOf(w) \in Seq(Symbols) /\ MeansOf(w) \o Rest(k + 1) = Rest(k)
      <4>1. start[k + 1] = start[k] + 1 /\ pattern[start[k]] = e
        <5>1. Len(MeansOf(w)) = 1 /\ MeansOf(w)[1] = e
          BY <3>2
        <5> HIDE DEF k
        <5>2. start[k + 1] = start[k] + 1
          BY <1>3, <2>1, <5>1
        <5>3. pattern[start[k] + 1 - 1] = e
          <6>1. \A j \in 1..Len(MeansOf(w)) : pattern[start[k] + j - 1] = MeansOf(w)[j]
            BY <1>3, <2>1
          <6>2. 1 \in 1..Len(MeansOf(w))
            BY <5>1
          <6> HIDE DEF w
          <6> QED
            BY <5>1, <6>1, <6>2
        <5>4. start[k] + 1 - 1 = start[k]
          BY <2>10
        <5> QED
          BY <5>2, <5>3, <5>4
      <4>2. start[k] \in 1..L
        BY <1>0, <2>10, <4>1
      <4>3. Rest(k) = <<pattern[start[k]]>> \o SubSeq(pattern, start[k] + 1, L)
        <5> DEFINE b == start[k]
        <5>1. b \in 1..Len(pattern) /\ L \in b..Len(pattern)
          BY <1>0, <4>2 DEF L
        <5> HIDE DEF b
        <5>2. SubSeq(pattern, b, L) = <<pattern[b]>> \o SubSeq(pattern, b + 1, L)
          BY <5>1, SubSeqRecursiveFirst
        <5> QED
          BY <5>2 DEF b
      <4> QED
        BY <3>2, <4>1, <4>3
    <3> QED
      BY <2>3, <3>1, <3>2, WordType
  <2> HIDE DEF Rest, w, i, next, k
  <2>13. from[i] = Rest(k) \o from[stop]
    <3> DEFINE r == Rest(k + 1)
               f == from[stop]
               s == MeansOf(w)
    <3>0. r \in Seq(Symbols) /\ f \in Seq(Symbols) /\ s \in Seq(Symbols)
      BY <1>5, <2>11, <2>12
    <3> HIDE DEF r, f, s
    <3>1. (s \o r) \o f = s \o (r \o f)
      BY <3>0, Regrouped, Zenon
    <3>2. (MeansOf(w) \o Rest(k + 1)) \o from[stop] = MeansOf(w) \o (Rest(k + 1) \o from[stop])
      BY <3>1 DEF r, f, s
    <3> QED
      BY <2>2, <2>9, <2>12, <3>2
  <2>14. P(k)
    BY <2>13 DEF i
  <2> HIDE DEF P
  <2> QED
    BY <2>1, <2>14
<1>8. n \in T
  <2> HIDE DEF T
  <2> QED
    BY <1>0, <1>6, <1>7, ByInduction
<1>9. from[place[1]] = Rest(1) \o from[stop]
  <2>1. n + 1 - n = 1
    BY <1>0
  <2>2. P(1)
    <3> HIDE DEF P
    <3> QED
      BY <1>0, <1>8, <2>1
  <2> QED
    BY <2>2
<1>10. Rest(1) = pattern
  BY <1>3, SubSeqFull DEF L
<1> QED
  BY <1>2, <1>9, <1>10

(* Words, and then something that is none. *)
Broken(spelt, words) ==
  \E place : /\ Laid(spelt, words, place)
             /\ place[Len(words) + 1] <= Len(spelt) /\ NoWord(spelt, place[Len(words) + 1])

(* sigscan.cpp, parsePattern(): however a pattern is written, in capitals or not, with or
   without blanks, as \x48, 0x48 or 48, as ? or ??, and all of it mixed, what it says is
   what its words mean, *)
THEOREM PatternsReadAsWritten ==
  ASSUME NEW spelt \in Seq(STRING), NEW words \in Seq(Words), Apart(words), Joined(spelt, words),
         NEW pattern \in Seq(Symbols), Joined(pattern, Meanings(words))
  PROVE  parsePattern(spelt) = pattern
<1>1. PICK place : Laid(spelt, words, place) /\ place[Len(words) + 1] = Len(spelt) + 1
  BY DEF Joined
<1>2. PICK from : Reads(spelt, from)
  BY ParsedFrom
<1> DEFINE stop == place[Len(words) + 1]
<1>3. CharAt(spelt, stop) # "?"
  <2>1. stop \notin DOMAIN spelt
    BY <1>1
  <2> QED
    BY <2>1, CharsApart DEF CharAt
<1>4. from[stop] = << >>
  <2>1. from[Len(spelt) + 1] = FromHere(spelt, from, Len(spelt) + 1)
    BY <1>2 DEF Reads
  <2> QED
    BY <1>1, <2>1 DEF FromHere
<1>5. from[1] = pattern \o from[stop]
  <2>1. UpTo(spelt, words, place, stop)
    BY <1>1, <1>3 DEF UpTo, EndsThere
  <2> HIDE DEF stop
  <2> QED
    BY <1>2, <2>1, WordsAreRead
<1> QED
  BY <1>2, <1>4, <1>5, ConcatEmptySeq DEF Reads

(* and what is no such thing, from the first place on where no word lies, is not taken:
   "unexpected character", "pattern ends on a half byte", "expected a hex digit". *)
THEOREM NoPatternIsRefused ==
  ASSUME NEW spelt \in Seq(STRING), NEW words \in Seq(Words), Apart(words), Broken(spelt, words),
         NEW pattern \in Seq(Symbols), Joined(pattern, Meanings(words))
  PROVE  ~Usable(parsePattern(spelt))
<1>1. PICK place : /\ Laid(spelt, words, place)
                   /\ place[Len(words) + 1] <= Len(spelt) /\ NoWord(spelt, place[Len(words) + 1])
  BY DEF Broken
<1>2. PICK from : Reads(spelt, from)
  BY ParsedFrom
<1> DEFINE stop == place[Len(words) + 1]
<1>3. stop \in 1..Len(spelt)
  <2>1. Len(words) + 1 \in 1..Len(words) + 1
    OBVIOUS
  <2>2. place \in [1..Len(words) + 1 -> 1..Len(spelt) + 1]
    BY <1>1 DEF Laid
  <2>3. stop \in 1..Len(spelt) + 1
    BY <2>1, <2>2, Zenon
  <2>4. stop <= Len(spelt) /\ Len(spelt) \in Nat
    BY <1>1
  <2> HIDE DEF stop
  <2> QED
    BY <2>3, <2>4
<1>4. Says(spelt, stop) = <<Garbled>>
  BY <1>1, <1>3, NoWordGivesUp
<1>5. CharAt(spelt, stop) # "?"
  <2> SUFFICES ASSUME CharAt(spelt, stop) = "?" PROVE FALSE
    OBVIOUS
  <2>1. <<"?">> \in Words
    BY DEF Words, Wildcards
  <2>2. PICK j \in 1..Len(<<"?">>) : CharAt(spelt, stop + j - 1) # <<"?">>[j]
    BY <1>1, <2>1 DEF NoWord
  <2> HIDE DEF stop
  <2> QED
    BY <1>3, <2>2
<1>6. from[1] = pattern \o from[stop]
  <2>1. UpTo(spelt, words, place, stop)
    BY <1>1, <1>5 DEF UpTo, EndsThere
  <2> HIDE DEF stop
  <2> QED
    BY <1>2, <2>1, WordsAreRead
<1> DEFINE rest == from[stop + Takes(spelt, stop)]
<1>7. from[stop] = <<Garbled>> \o rest /\ rest \in Seq(Symbols)
  <2>1. stop + Takes(spelt, stop) \in 1..Len(spelt) + 2
    BY <1>3, TakesType
  <2>2. stop \in 1..Len(spelt) + 2 /\ ~(stop > Len(spelt))
    BY <1>3
  <2>3. from[stop] = FromHere(spelt, from, stop) /\ rest \in Seq(Symbols)
    BY <1>2, <2>1, <2>2 DEF Reads
  <2> QED
    BY <1>4, <2>2, <2>3 DEF FromHere
<1> HIDE DEF stop, rest
<1>8. <<Garbled>> \in Seq(Symbols)
  BY DEF Symbols
<1> DEFINE p == pattern \o (<<Garbled>> \o rest)
<1>9. Len(pattern) + 1 \in DOMAIN p /\ p[Len(pattern) + 1] = Garbled
  BY <1>7, <1>8
<1>10. parsePattern(spelt) = p
  BY <1>2, <1>6, <1>7 DEF Reads
<1>11. Garbled \in ToSet(p)
  BY <1>9 DEF ToSet
<1> QED
  BY <1>10, <1>11 DEF Usable

(* The parts reach up to a place; a part lies at one. *)
Reach(s, parts, stop) == \E place : Laid(s, parts, place) /\ place[Len(parts) + 1] = stop
Lies(s, w, i) == i + Len(w) <= Len(s) + 1 /\ \A j \in 1..Len(w) : s[i + j - 1] = w[j]
Measured(P) == \A w \in P : Len(w) \in Nat

(* One more part behind those that are laid. *)
LEMMA PartIsLaid ==
  ASSUME NEW P, Measured(P), NEW X, NEW s \in Seq(X), NEW parts \in Seq(P), NEW w \in P,
         NEW stop, Reach(s, parts, stop), Lies(s, w, stop)
  PROVE  Reach(s, Append(parts, w), stop + Len(w))
<1>0. PICK place : Laid(s, parts, place) /\ stop = place[Len(parts) + 1]
  BY DEF Reach
<1> DEFINE n == Len(parts)
           N == Len(s)
           more == Append(parts, w)
           longer == [k \in 1..n + 2 |-> IF k <= n + 1 THEN place[k] ELSE stop + Len(w)]
<1>1. n \in Nat /\ N \in Nat /\ Len(w) \in Nat
  BY DEF Measured
<1>2. Len(more) = n + 1 /\ more[n + 1] = w /\ \A k \in 1..n : more[k] = parts[k]
  OBVIOUS
<1>3. place \in [1..n + 1 -> 1..N + 1] /\ place[1] = 1
  BY <1>0 DEF Laid
<1>4. stop \in 1..N + 1
  <2>1. n + 1 \in 1..n + 1
    BY <1>1
  <2>2. place[n + 1] \in 1..N + 1
    <3> HIDE DEF n, N
    <3> QED
      BY <1>3, <2>1
  <2> QED
    BY <1>0, <2>2
<1>5. stop + Len(w) \in 1..N + 1
  <2> DEFINE l == Len(w)
  <2>1. l \in Nat /\ stop + l <= N + 1
    BY <1>1 DEF Lies
  <2> HIDE DEF l, N
  <2>2. stop + l \in 1..N + 1
    BY <1>1, <1>4, <2>1
  <2> QED
    BY <2>2 DEF l
<1>6. longer \in [1..n + 2 -> 1..N + 1] /\ longer[1] = 1 /\ longer[n + 2] = stop + Len(w)
  <2>1. \A k \in 1..n + 2 : k <= n + 1 => k \in 1..n + 1
    BY <1>1
  <2> HIDE DEF n, N
  <2> QED
    BY <1>1, <1>3, <1>5, <2>1
<1>7. \A k \in 1..n + 1 : longer[k] = place[k]
  <2> HIDE DEF n
  <2> QED
    BY <1>1
<1>8. ASSUME NEW k \in 1..n + 1
      PROVE  /\ longer[k + 1] = longer[k] + Len(more[k])
             /\ \A j \in 1..Len(more[k]) : s[longer[k] + j - 1] = more[k][j]
  <2>1. CASE k = n + 1
    <3>1. longer[k + 1] = stop + Len(w) /\ longer[k] = stop /\ more[k] = w
      <4>1. n + 1 + 1 = n + 2 /\ n + 1 \in 1..n + 1 /\ stop = place[n + 1]
        BY <1>0, <1>1
      <4> HIDE DEF longer, more, n
      <4> QED
        BY <1>2, <1>6, <1>7, <2>1, <4>1
    <3> QED
      BY <3>1 DEF Lies
  <2>2. CASE k # n + 1
    <3>1. k \in 1..n /\ k + 1 \in 1..n + 1
      BY <1>1, <2>2
    <3>2. longer[k + 1] = place[k + 1] /\ longer[k] = place[k] /\ more[k] = parts[k]
      <4> HIDE DEF longer, more, n
      <4> QED
        BY <1>2, <1>7, <3>1
    <3>3. /\ place[k + 1] = place[k] + Len(parts[k])
          /\ \A j \in 1..Len(parts[k]) : s[place[k] + j - 1] = parts[k][j]
      BY <1>0, <3>1 DEF Laid
    <3> QED
      BY <3>2, <3>3
  <2> QED
    BY <2>1, <2>2
<1> HIDE DEF longer, more, N
<1>9. Laid(s, more, longer)
  <2>1. n + 1 + 1 = n + 2
    BY <1>1
  <2> HIDE DEF n
  <2> QED
    BY <1>2, <1>6, <1>8, <2>1 DEF Laid, N
<1>10. longer[Len(more) + 1] = stop + Len(w)
  <2>1. n + 1 + 1 = n + 2
    BY <1>1
  <2> HIDE DEF n
  <2> QED
    BY <1>2, <1>6, <2>1
<1> QED
  BY <1>9, <1>10 DEF more, Reach

(* What stands behind them does not matter. *)
LEMMA StillLaid ==
  ASSUME NEW P, Measured(P), NEW X, NEW s \in Seq(X), NEW t \in Seq(X), NEW parts \in Seq(P),
         NEW stop, Reach(s, parts, stop)
  PROVE  Reach(s \o t, parts, stop)
<1>0. PICK place : Laid(s, parts, place) /\ stop = place[Len(parts) + 1]
  BY DEF Reach
<1> DEFINE n == Len(parts)
           N == Len(s)
<1>1. n \in Nat /\ N \in Nat /\ Len(s \o t) \in Nat /\ Len(s \o t) >= N
  OBVIOUS
<1>2. place \in [1..n + 1 -> 1..N + 1] /\ place[1] = 1
  BY <1>0 DEF Laid
<1>3. \A i \in 1..N : (s \o t)[i] = s[i]
  OBVIOUS
<1>4. place \in [1..n + 1 -> 1..Len(s \o t) + 1]
  <2>1. 1..N + 1 \subseteq 1..Len(s \o t) + 1
    BY <1>1
  <2> HIDE DEF n, N
  <2> QED
    BY <1>2, <2>1
<1>5. ASSUME NEW k \in 1..n
      PROVE  /\ place[k + 1] = place[k] + Len(parts[k])
             /\ \A j \in 1..Len(parts[k]) : (s \o t)[place[k] + j - 1] = parts[k][j]
  <2>1. /\ place[k + 1] = place[k] + Len(parts[k])
        /\ \A j \in 1..Len(parts[k]) : s[place[k] + j - 1] = parts[k][j]
    BY <1>0 DEF Laid
  <2>2. k \in 1..n + 1 /\ k + 1 \in 1..n + 1
    BY <1>1
  <2>3. place[k] \in 1..N + 1 /\ place[k + 1] \in 1..N + 1
    <3> HIDE DEF n, N
    <3> QED
      BY <1>2, <2>2
  <2>4. Len(parts[k]) \in Nat
    BY DEF Measured
  <2>5. ASSUME NEW j \in 1..Len(parts[k])
        PROVE  place[k] + j - 1 \in 1..N
    <3> DEFINE l == Len(parts[k])
               i == place[k]
               next == place[k + 1]
    <3>1. l \in Nat /\ i \in 1..N + 1 /\ next \in 1..N + 1 /\ next = i + l /\ j \in 1..l
      BY <2>1, <2>3, <2>4
    <3> HIDE DEF l, i, next, N
    <3>2. i + j - 1 \in 1..N
      BY <1>1, <3>1
    <3> QED
      BY <3>2 DEF i
  <2> HIDE DEF N
  <2> QED
    BY <1>3, <2>1, <2>5
<1>6. Laid(s \o t, parts, place)
  BY <1>2, <1>4, <1>5 DEF Laid
<1> QED
  BY <1>0, <1>6 DEF Reach

(* Words lie one behind the other up to the place `stop`, and the pattern is what they mean. *)
Told(spelt, words, pattern, stop) ==
  /\ words \in Seq(Words) /\ pattern \in Seq(Symbols)
  /\ Apart(words) /\ Joined(pattern, Meanings(words))
  /\ Reach(spelt, words, stop)
  /\ words # << >> /\ words[Len(words)] = <<"?">> => CharAt(spelt, stop) # "?"

(* No character of a word is the one that stands for the end. *)
LEMMA WordsAreThere ==
  ASSUME NEW w \in Words
  PROVE  \A j \in 1..Len(w) : w[j] # None
<1>1. \A c : isspace(c) => c # None
  BY Zenon DEF isspace, None
<1>2. \A c : c \in {"\\", "0"} \/ c \in {"x", "X"} => c # None
  BY Zenon DEF None
<1>3. CASE Blank(w)
  BY <1>1, <1>3 DEF Blank
<1>4. CASE Escape(w)
  <2>1. Len(w) = 2 /\ w[1] # None /\ w[2] # None
    BY <1>2, <1>4, Zenon DEF Escape
  <2> QED
    BY <2>1
<1>5. CASE Lone(w) \/ Double(w)
  <2>1. \A j \in 1..Len(w) : w[j] = "?"
    BY <1>5 DEF Lone, Double
  <2> QED
    BY <2>1, CharsApart
<1>6. CASE Hexed(w)
  <2>1. \A j \in 1..Len(w) : IsHex(w[j])
    BY <1>6 DEF Hexed
  <2> QED
    BY <2>1, CharsApart
<1> QED
  BY <1>3, <1>4, <1>5, <1>6, WordKinds

LEMMA MeaningType ==
  ASSUME NEW w \in Words
  PROVE  MeansOf(w) \in Seq(Symbols)
<1>1. CASE MeansOf(w) = << >>
  BY <1>1
<1>2. ASSUME NEW e \in Symbols, MeansOf(w) = <<e>>
      PROVE  MeansOf(w) \in Seq(Symbols)
  BY <1>2
<1> QED
  BY <1>1, <1>2, WordType

LEMMA PlaceReached ==
  ASSUME NEW spelt \in Seq(STRING), NEW words, NEW pattern, NEW stop,
         Told(spelt, words, pattern, stop)
  PROVE  stop \in 1..Len(spelt) + 1
<1> DEFINE n == Len(words)
           N == Len(spelt)
<1>1. PICK place : Laid(spelt, words, place) /\ place[n + 1] = stop
  BY DEF Told, Reach
<1>2. n \in Nat
  BY DEF Told
<1>3. place \in [1..n + 1 -> 1..N + 1] /\ n + 1 \in 1..n + 1
  BY <1>1, <1>2 DEF Laid
<1> HIDE DEF n, N
<1>4. stop \in 1..N + 1
  BY <1>1, <1>3
<1> QED
  BY <1>4 DEF N

LEMMA OneMoreWord ==
  ASSUME NEW spelt \in Seq(STRING), NEW words, NEW pattern, NEW stop,
         Told(spelt, words, pattern, stop), stop <= Len(spelt), ~NoWord(spelt, stop)
  PROVE  \E more, longer, next : Told(spelt, more, longer, next) /\ next > stop
<1>1. words \in Seq(Words) /\ pattern \in Seq(Symbols)
  BY DEF Told
<1>2. stop \in 1..Len(spelt)
  <2>1. stop \in 1..Len(spelt) + 1
    BY PlaceReached
  <2> QED
    BY <2>1
<1>3. PICK v \in Words : \A j \in 1..Len(v) : CharAt(spelt, stop + j - 1) = v[j]
  BY DEF NoWord
<1> DEFINE two == v = <<"?">> /\ CharAt(spelt, stop + 1) = "?"
           w == IF two THEN <<"?", "?">> ELSE v
           l == Len(w)
           more == Append(words, w)
           longer == pattern \o MeansOf(w)
<1>4. /\ w \in Words
      /\ \A j \in 1..Len(w) : CharAt(spelt, stop + j - 1) = w[j]
      /\ w = <<"?">> => CharAt(spelt, stop + 1) # "?"
  <2>1. CASE two
    <3>1. CharAt(spelt, stop) = "?"
      <4>1. CharAt(spelt, stop + 1 - 1) = "?"
        BY <1>3, <2>1
      <4>2. stop + 1 - 1 = stop
        BY <1>2
      <4> QED
        BY <4>1, <4>2
    <3>2. w = <<"?", "?">> /\ w \in Words
      BY <2>1 DEF Words, Wildcards
    <3>3. ASSUME NEW j \in 1..2
          PROVE  CharAt(spelt, stop + j - 1) = "?"
      <4>1. stop + j - 1 \in {stop, stop + 1}
        BY <1>2
      <4> QED
        BY <2>1, <3>1, <4>1
    <3> HIDE DEF w
    <3>4. Len(w) = 2 /\ \A j \in 1..2 : w[j] = "?"
      BY <3>2
    <3>5. w # <<"?">>
      BY <3>4
    <3> QED
      BY <3>2, <3>3, <3>4, <3>5
  <2>2. CASE ~two
    BY <1>3, <2>2
  <2> QED
    BY <2>1, <2>2
<1> HIDE DEF w
<1>5. l \in {1, 2} /\ MeansOf(w) \in Seq(Symbols)
  BY <1>4, WordType, MeaningType
<1>6. ASSUME NEW j \in 1..l
      PROVE  stop + j - 1 \in 1..Len(spelt) /\ spelt[stop + j - 1] = w[j]
  <2>1. CharAt(spelt, stop + j - 1) = w[j] /\ w[j] # None
    BY <1>4, WordsAreThere
  <2> QED
    BY <2>1 DEF CharAt
<1>7. stop + l <= Len(spelt) + 1
  <2>1. l \in 1..l
    <3> HIDE DEF l
    <3> QED
      BY <1>5
  <2>2. stop + l - 1 \in 1..Len(spelt)
    BY <1>6, <2>1
  <2> DEFINE N == Len(spelt)
  <2>3. N \in Nat
    OBVIOUS
  <2> HIDE DEF l, N
  <2> QED
    BY <1>2, <1>5, <2>2, <2>3 DEF N
<1>8. Reach(spelt, more, stop + l)
  <2>1. Measured(Words)
    BY WordType DEF Measured
  <2>2. Lies(spelt, w, stop)
    BY <1>6, <1>7 DEF Lies
  <2> QED
    BY <1>1, <1>4, <2>1, <2>2, PartIsLaid DEF Told
<1>9. Joined(longer, Meanings(more))
  <2> DEFINE ms == Meanings(words)
             P == Seq(Symbols)
  <2>1. ms \in Seq(P) /\ Len(ms) = Len(words)
    <3>1. \A k \in 1..Len(words) : MeansOf(words[k]) \in P
      BY <1>1, MeaningType
    <3> QED
      BY <1>1, <3>1 DEF Meanings
  <2>2. Meanings(more) = Append(ms, MeansOf(w))
    <3>1. Len(more) = Len(words) + 1 /\ \A k \in 1..Len(words) + 1 :
            more[k] = IF k = Len(words) + 1 THEN w ELSE words[k]
      BY <1>1, <1>4
    <3> QED
      BY <1>1, <3>1 DEF Meanings
  <2> DEFINE end == Len(pattern) + 1
  <2>3. Reach(pattern, ms, end)
    BY DEF Told, Joined, Reach
  <2>4. Measured(P)
    BY DEF Measured
  <2>5. longer \in Seq(Symbols) /\ MeansOf(w) \in P
    BY <1>1, <1>5
  <2>6. Reach(longer, ms, end)
    <3> HIDE DEF ms, P, end
    <3> QED
      BY <1>1, <1>5, <2>1, <2>3, <2>4, StillLaid
  <2>7. end + Len(MeansOf(w)) = Len(longer) + 1
    BY <1>1, <1>5
  <2>8. Lies(longer, MeansOf(w), end)
    <3>1. \A j \in 1..Len(MeansOf(w)) : longer[end + j - 1] = MeansOf(w)[j]
      BY <1>1, <1>5
    <3> QED
      BY <1>1, <1>5, <2>7, <3>1 DEF Lies
  <2>9. Reach(longer, Append(ms, MeansOf(w)), end + Len(MeansOf(w)))
    <3> HIDE DEF ms, P, longer, end
    <3> QED
      BY <2>1, <2>4, <2>5, <2>6, <2>8, PartIsLaid
  <2> HIDE DEF ms, longer, end, more
  <2> QED
    BY <2>2, <2>7, <2>9 DEF Reach, Joined
<1>10. Apart(more)
  <2> SUFFICES ASSUME NEW k \in 1..Len(more) - 1, more[k] = <<"?">>
               PROVE  more[k + 1][1] # "?"
    BY DEF Apart
  <2>1. Len(more) = Len(words) + 1 /\ k \in 1..Len(words) /\ more[k] = words[k]
    BY <1>1, <1>4
  <2>2. CASE k = Len(words)
    <3>1. CharAt(spelt, stop) # "?"
      BY <2>1, <2>2 DEF Told
    <3>2. more[k + 1] = w
      BY <1>1, <1>4, <2>2
    <3>3. CharAt(spelt, stop + 1 - 1) = w[1]
      <4>1. 1 \in 1..l
        <5> HIDE DEF l
        <5> QED
          BY <1>5
      <4> QED
        BY <1>4, <4>1
    <3>4. stop + 1 - 1 = stop
      BY <1>2
    <3> QED
      BY <3>1, <3>2, <3>3, <3>4
  <2>3. CASE k # Len(words)
    <3>1. k \in 1..Len(words) - 1 /\ more[k + 1] = words[k + 1]
      BY <1>1, <1>4, <2>1, <2>3
    <3> QED
      BY <2>1, <3>1 DEF Told, Apart
  <2> QED
    BY <2>2, <2>3
<1>11. more \in Seq(Words) /\ longer \in Seq(Symbols) /\ more[Len(more)] = w
  BY <1>1, <1>4, <1>5
<1>12. w = <<"?">> => CharAt(spelt, stop + l) # "?"
  BY <1>4
<1>13. Told(spelt, more, longer, stop + l)
  <2> HIDE DEF more, longer, l
  <2> QED
    BY <1>8, <1>9, <1>10, <1>11, <1>12 DEF Told
<1>14. stop + l > stop
  <2> HIDE DEF l
  <2> QED
    BY <1>2, <1>5
<1> QED
  BY <1>13, <1>14

(* As far as words go. *)
LEMMA WordsGoSomewhere ==
  ASSUME NEW spelt \in Seq(STRING)
  PROVE  \E words, pattern, stop :
           Told(spelt, words, pattern, stop) /\ (stop = Len(spelt) + 1 \/ NoWord(spelt, stop))
<1> DEFINE N == Len(spelt)
           Ended(stop) == stop = N + 1 \/ NoWord(spelt, stop)
           T == {n \in Nat : \E words, pattern, stop :
                   Told(spelt, words, pattern, stop) /\ (stop > n \/ Ended(stop))}
<1>0. N \in Nat
  OBVIOUS
<1>1. Told(spelt, << >>, << >>, 1)
  <2> DEFINE none == << >>
             place == [k \in 1..1 |-> 1]
  <2>1. Len(none) = 0 /\ none \in Seq(Words) /\ none \in Seq(Symbols) /\ Meanings(none) = none
    BY DEF Meanings
  <2>2. \A t \in Seq(STRING) \cup Seq(Symbols) : Laid(t, none, place)
    BY <2>1 DEF Laid
  <2>3. Reach(spelt, none, 1)
    BY <2>1, <2>2 DEF Reach
  <2>4. Joined(none, Meanings(none))
    <3>1. place[1] = 1
      OBVIOUS
    <3> HIDE DEF none, place
    <3>2. Laid(none, none, place)
      BY <2>1, <2>2
    <3>3. place[Len(none) + 1] = Len(none) + 1
      BY <2>1, <3>1
    <3> QED
      BY <2>1, <3>2, <3>3 DEF Joined
  <2> QED
    BY <2>1, <2>3, <2>4 DEF Told, Apart
<1>2. 0 \in T
  BY <1>1
<1>3. ASSUME NEW n \in Nat, n \in T
      PROVE  n + 1 \in T
  <2>1. PICK words, pattern, stop : Told(spelt, words, pattern, stop) /\ (stop > n \/ Ended(stop))
    BY <1>3
  <2>2. CASE Ended(stop)
    BY <2>1, <2>2
  <2>3. CASE ~Ended(stop)
    <3>1. stop \in 1..N + 1
      BY <2>1, PlaceReached
    <3>2. stop <= N /\ ~NoWord(spelt, stop) /\ stop > n
      BY <1>0, <2>1, <2>3, <3>1
    <3>3. PICK more, longer, next : Told(spelt, more, longer, next) /\ next > stop
      BY <2>1, <3>2, OneMoreWord
    <3>4. next \in 1..N + 1
      BY <3>3, PlaceReached
    <3>5. next > n + 1
      BY <3>1, <3>2, <3>3, <3>4
    <3> QED
      BY <3>3, <3>5
  <2> QED
    BY <2>2, <2>3
<1>4. N + 1 \in T
  <2> HIDE DEF T
  <2> QED
    BY <1>0, <1>2, <1>3, ByInduction
<1>5. PICK words, pattern, stop : Told(spelt, words, pattern, stop) /\ (stop > N + 1 \/ Ended(stop))
  BY <1>4
<1>6. stop \in 1..N + 1
  BY <1>5, PlaceReached
<1>7. stop = Len(spelt) + 1 \/ NoWord(spelt, stop)
  BY <1>0, <1>5, <1>6
<1> HIDE DEF N, Ended, T
<1> QED
  BY <1>5, <1>7

(* sigscan.cpp, parsePattern(): those are all.  What is scanned for at all was written in
   words, and is what they mean: no misspelling is taken for some other pattern. *)
THEOREM OnlyWordsAreTaken ==
  ASSUME NEW spelt \in Seq(STRING), Usable(parsePattern(spelt))
  PROVE  \E words \in Seq(Words) : /\ Apart(words) /\ Joined(spelt, words)
                                   /\ Joined(parsePattern(spelt), Meanings(words))
<1>1. PICK words, pattern, stop : /\ Told(spelt, words, pattern, stop)
                                  /\ stop = Len(spelt) + 1 \/ NoWord(spelt, stop)
  BY WordsGoSomewhere
<1>2. /\ words \in Seq(Words) /\ pattern \in Seq(Symbols)
      /\ Apart(words) /\ Joined(pattern, Meanings(words))
  BY <1>1 DEF Told
<1>3. CASE stop = Len(spelt) + 1
  <2>1. Joined(spelt, words)
    BY <1>1, <1>3 DEF Told, Reach, Joined
  <2>2. parsePattern(spelt) = pattern
    BY <1>2, <2>1, PatternsReadAsWritten
  <2> QED
    BY <1>2, <2>1, <2>2
<1>4. CASE stop # Len(spelt) + 1
  <2>1. stop <= Len(spelt)
    <3>1. stop \in 1..Len(spelt) + 1
      BY <1>1, PlaceReached
    <3> QED
      BY <1>4, <3>1
  <2>2. Broken(spelt, words)
    BY <1>1, <1>4, <2>1 DEF Told, Reach, Broken
  <2>3. ~Usable(parsePattern(spelt))
    BY <1>2, <2>2, NoPatternIsRefused
  <2> QED
    BY <2>3
<1> QED
  BY <1>3, <1>4

LEMMA HexDigitIs ==
  ASSUME NEW d \in 0..15
  PROVE  Digits[d + 1] \in HexChars /\ hexDigit(Digits[d + 1]) = d
<1> DEFINE c == Digits[d + 1]
           I == {i \in 1..Len(Digits) : Digits[i] = c}
<1>1. Len(Digits) = 16 /\ DOMAIN Digits = 1..16
  BY DEF Digits
<1>2. \A i, j \in 1..16 : Digits[i] = Digits[j] => i = j
  BY DEF Digits
<1>3. c \in ToSet(Digits)
  BY <1>1 DEF ToSet
<1>4. I = {d + 1}
  BY <1>1, <1>2
<1>5. Min(I) = d + 1
  <2>1. I \subseteq Nat /\ I # {}
    BY <1>4
  <2>2. Min(I) \in I
    BY <2>1, LeastIsMin
  <2> QED
    BY <1>4, <2>2
<1>6. SelectInSeq(Digits, LAMBDA e : e = c) = Min(I)
  BY <1>1, <1>4 DEF SelectInSeq
<1>7. hexDigit(c) = (d + 1) - 1
  BY <1>3, <1>5, <1>6 DEF hexDigit
<1> QED
  BY <1>3, <1>7 DEF HexChars

(* What these speak of there is: a word for every byte, in the digits of hexDigit(). *)
THEOREM EveryByteHasAWord ==
  ASSUME NEW n \in 0..255
  PROVE  \E w \in Bytes : MeansOf(w) = <<n>>
<1> DEFINE high == n \div 16
           low == n % 16
           w == <<Digits[high + 1], Digits[low + 1]>>
<1>1. high \in 0..15 /\ low \in 0..15 /\ n = 16 * high + low
  OBVIOUS
<1> HIDE DEF high, low
<1>2. w \in Bytes
  BY <1>1, HexDigitIs DEF Bytes
<1>3. IsHex(w[1]) /\ IsHex(w[2])
  BY <1>2 DEF Bytes, HexChars, IsHex
<1>4. w \notin Blanks \cup Escapes \cup Wildcards
  <2>1. \A e \in Escapes : e[2] \in {"x", "X"}
    BY DEF Escapes
  <2>2. \A e \in Wildcards : e[1] = "?"
    BY DEF Wildcards
  <2>3. \A e \in Blanks : Len(e) = 1
    <3>1. \A e \in Blanks : \E c : e = <<c>>
      BY Zenon DEF Blanks
    <3> QED
      BY <3>1
  <2> QED
    BY <1>3, <2>1, <2>2, <2>3, CharsApart
<1>5. MeansOf(w) = <<16 * hexDigit(Digits[high + 1]) + hexDigit(Digits[low + 1])>>
  BY <1>4 DEF MeansOf
<1>6. MeansOf(w) = <<n>>
  BY <1>1, <1>5, HexDigitIs
<1> QED
  BY <1>2, <1>6

(* What may be scanned for, and the places behind from where it lies. *)
Scannable(pattern) == pattern \in Seq(Symbols) /\ pattern # << >> /\ pattern[1] # Wild

From(places, from) == {p \in places : from <= p}
Before(places, to) == {p \in places : p < to}

LEMMA MatchesType ==
  ASSUME NEW txt \in Seq(Byte), NEW pattern
  PROVE  /\ Matches(txt, pattern) \subseteq 1..Len(txt)
         /\ IsFiniteSet(Matches(txt, pattern))
         /\ Cardinality(Matches(txt, pattern)) \in Nat
         /\ Cardinality(Matches(txt, pattern)) <= Len(txt)
<1>1. Len(txt) \in Nat /\ DOMAIN txt = 1..Len(txt)
  OBVIOUS
<1>2. Matches(txt, pattern) \subseteq 1..Len(txt)
  BY <1>1 DEF Matches
<1>3. IsFiniteSet(1..Len(txt)) /\ Cardinality(1..Len(txt)) = Len(txt)
  BY <1>1, FS_Interval
<1>4. /\ IsFiniteSet(Matches(txt, pattern))
      /\ Cardinality(Matches(txt, pattern)) <= Cardinality(1..Len(txt))
  BY <1>2, <1>3, FS_Subset
<1> QED
  BY <1>2, <1>3, <1>4, FS_CardinalityType

(* memchr() and the loop behind it see exactly the matches from where they start. *)
LEMMA CandidatesAreMatches ==
  ASSUME NEW txt \in Seq(Byte), NEW pattern, Scannable(pattern), NEW from \in Nat \ {0}
  PROVE  {p \in from..Limit(txt, pattern) : txt[p] = pattern[1] /\ Compares(txt, pattern, p)}
           = From(Matches(txt, pattern), from)
<1> DEFINE C == {p \in from..Limit(txt, pattern) : txt[p] = pattern[1] /\ Compares(txt, pattern, p)}
           M == Matches(txt, pattern)
<1>1. /\ Len(txt) \in Nat /\ DOMAIN txt = 1..Len(txt)
      /\ Len(pattern) \in Nat \ {0} /\ DOMAIN pattern = 1..Len(pattern)
  BY EmptySeq DEF Scannable
<1>2. ASSUME NEW p \in C
      PROVE  p \in From(M, from)
  <2>1. p \in Nat \ {0} /\ from <= p /\ p <= Len(txt) - Len(pattern) + 1
    BY <1>1 DEF Limit
  <2>2. p \in DOMAIN txt
    BY <1>1, <2>1
  <2>3. ASSUME NEW i \in DOMAIN pattern
        PROVE  p + i - 1 \in DOMAIN txt /\ pattern[i] \in {Wild, txt[p + i - 1]}
    <3>1. p + i - 1 \in DOMAIN txt
      BY <1>1, <2>1, <2>3
    <3>2. CASE i = 1
      <4>1. p + i - 1 = p
        BY <3>2, <2>1
      <4> QED
        BY <4>1, <3>1, <3>2
    <3>3. CASE i # 1
      <4>1. i \in 2..Len(pattern)
        BY <3>3, <2>3, <1>1
      <4> QED
        BY <4>1, <3>1 DEF Compares
    <3> QED
      BY <3>2, <3>3
  <2> QED
    BY <2>1, <2>2, <2>3 DEF From, Matches
<1>3. ASSUME NEW p \in From(M, from)
      PROVE  p \in C
  <2>1. /\ p \in 1..Len(txt) /\ from <= p
        /\ \A i \in 1..Len(pattern) :
             p + i - 1 \in 1..Len(txt) /\ pattern[i] \in {Wild, txt[p + i - 1]}
    BY <1>1 DEF From, Matches
  <2>2. p \in from..Limit(txt, pattern)
    <3>1. p + Len(pattern) - 1 \in 1..Len(txt)
      BY <1>1, <2>1
    <3> QED
      BY <1>1, <2>1, <3>1 DEF Limit
  <2>3. txt[p] = pattern[1]
    <3>1. p + 1 - 1 = p /\ 1 \in 1..Len(pattern)
      BY <1>1, <2>1
    <3> QED
      BY <2>1, <3>1 DEF Scannable
  <2>4. Compares(txt, pattern, p)
    <3>1. \A i \in 2..Len(pattern) : i \in 1..Len(pattern)
      BY <1>1
    <3> QED
      BY <2>1, <3>1 DEF Compares
  <2> QED
    BY <2>2, <2>3, <2>4
<1> QED
  BY <1>2, <1>3

LEMMA FindFromIsFirst ==
  ASSUME NEW txt \in Seq(Byte), NEW pattern, Scannable(pattern), NEW from \in Nat \ {0}
  PROVE  LET p == findFrom(txt, pattern, from)
             M == Matches(txt, pattern)
         IN /\ p \in Nat
            /\ p = 0 => From(M, from) = {}
            /\ p # 0 => p \in M /\ from <= p /\ \A q \in M : from <= q => p <= q
<1> DEFINE M == Matches(txt, pattern)
           C == {p \in from..Limit(txt, pattern) : txt[p] = pattern[1] /\ Compares(txt, pattern, p)}
<1>1. C = From(M, from)
  BY CandidatesAreMatches
<1>2. findFrom(txt, pattern, from) = IF C = {} THEN 0 ELSE Min(C)
  BY DEF findFrom
<1> HIDE DEF C
<1>3. M \subseteq 1..Len(txt) /\ Len(txt) \in Nat
  BY MatchesType
<1>4. CASE C = {}
  BY <1>1, <1>2, <1>4
<1>5. CASE C # {}
  <2>1. C \subseteq Nat
    BY <1>1, <1>3 DEF From
  <2>2. Min(C) \in C /\ \A m \in C : Min(C) <= m
    BY <2>1, <1>5, LeastIsMin
  <2>3. Min(C) \in 1..Len(txt) /\ Min(C) \in M /\ from <= Min(C)
    BY <2>2, <1>1, <1>3 DEF From
  <2>4. \A q \in M : from <= q => Min(C) <= q
    BY <2>2, <1>1 DEF From
  <2> QED
    BY <1>2, <1>5, <2>3, <2>4, <1>3
<1> QED
  BY <1>4, <1>5

(* The k-th of the matches, given the ones before. *)
FoundNext(txt, pattern, found, k) ==
  IF k = 0 THEN findFrom(txt, pattern, 1)
  ELSE IF found[k - 1] = 0 THEN 0
  ELSE findFrom(txt, pattern, Behind(found[k - 1], pattern))

LEMMA FoundNextType ==
  ASSUME NEW txt \in Seq(Byte), NEW pattern, Scannable(pattern), NEW k \in Nat,
         NEW found, k # 0 => found[k - 1] \in Nat
  PROVE  FoundNext(txt, pattern, found, k) \in Nat
<1>1. CASE k = 0
  BY <1>1, FindFromIsFirst DEF FoundNext
<1>2. CASE k # 0 /\ found[k - 1] # 0
  <2>1. Behind(found[k - 1], pattern) \in Nat \ {0}
    BY <1>2 DEF Behind
  <2> QED
    BY <1>2, <2>1, FindFromIsFirst DEF FoundNext
<1>3. CASE k # 0 /\ found[k - 1] = 0
  BY <1>3 DEF FoundNext
<1> QED
  BY <1>1, <1>2, <1>3

LEMMA FoundDefined ==
  ASSUME NEW txt \in Seq(Byte), NEW pattern, Scannable(pattern)
  PROVE  /\ Found(txt, pattern) \in [0..Len(txt) -> Nat]
         /\ \A k \in 0..Len(txt) :
              Found(txt, pattern)[k] = FoundNext(txt, pattern, Found(txt, pattern), k)
<1> DEFINE D == 0..Len(txt)
           Good(f, n) == /\ f \in [D -> Nat]
                         /\ \A k \in D : k < n => f[k] = FoundNext(txt, pattern, f, k)
           Goods == {n \in Nat : \E f : Good(f, n)}
<1>0. Len(txt) \in Nat
  OBVIOUS
<1>1. 0 \in Goods
  <2>1. Good([k \in D |-> 0], 0)
    BY <1>0
  <2> HIDE DEF Good
  <2> QED
    BY <2>1
<1>2. ASSUME NEW n \in Nat, n \in Goods
      PROVE  n + 1 \in Goods
  <2>1. PICK f : Good(f, n)
    BY <1>2
  <2> DEFINE g == [f EXCEPT ![n] = FoundNext(txt, pattern, f, n)]
  <2>2. CASE n \notin D
    <3>1. \A k \in D : k < n + 1 => k < n
      BY <1>0, <2>2
    <3>2. Good(f, n + 1)
      BY <2>1, <3>1
    <3> HIDE DEF Good
    <3> QED
      BY <3>2
  <2>3. CASE n \in D
    <3>1. FoundNext(txt, pattern, f, n) \in Nat
      <4>1. n # 0 => n - 1 \in D
        BY <2>3, <1>0
      <4> QED
        BY <4>1, <2>1, FoundNextType
    <3>2. g \in [D -> Nat]
      BY <2>1, <3>1
    <3>3. ASSUME NEW k \in D, k < n + 1
          PROVE  g[k] = FoundNext(txt, pattern, g, k)
      <4>1. k # 0 => k - 1 \in D /\ k - 1 # n
        BY <3>3, <1>0
      <4>2. k # 0 => f[k - 1] = g[k - 1]
        BY <4>1, <2>1
      <4>3. FoundNext(txt, pattern, f, k) = FoundNext(txt, pattern, g, k)
        BY <4>2 DEF FoundNext
      <4>4. CASE k = n
        BY <4>3, <4>4, <2>1, <2>3
      <4>5. CASE k # n
        <5>1. k < n
          BY <4>5, <3>3, <1>0
        <5> QED
          BY <5>1, <4>3, <4>5, <2>1
      <4> QED
        BY <4>4, <4>5
    <3>4. Good(g, n + 1)
      BY <3>2, <3>3
    <3> HIDE DEF Good, g
    <3> QED
      BY <3>4
  <2> QED
    BY <2>2, <2>3
<1>3. Len(txt) + 1 \in Goods
  <2> HIDE DEF Goods
  <2> QED
    BY <1>0, <1>1, <1>2, ByInduction
<1>4. PICK f : Good(f, Len(txt) + 1)
  BY <1>3
<1>5. f = [k \in D |-> FoundNext(txt, pattern, f, k)]
  BY <1>4, <1>0
<1> DEFINE found == CHOOSE h : h = [k \in D |-> FoundNext(txt, pattern, h, k)]
<1>6. found = [k \in D |-> FoundNext(txt, pattern, found, k)]
  BY <1>5
<1>7. Found(txt, pattern) = found
  BY DEF Found, FoundNext
<1> HIDE DEF found
<1> DEFINE Typed == {n \in Nat : \A k \in D : k < n => found[k] \in Nat}
<1>8. 0 \in Typed
  BY <1>0
<1>9. ASSUME NEW n \in Nat, n \in Typed
      PROVE  n + 1 \in Typed
  <2>1. SUFFICES ASSUME NEW k \in D, k < n + 1
                 PROVE  found[k] \in Nat
    OBVIOUS
  <2>2. k # 0 => k - 1 \in D /\ k - 1 < n
    BY <1>0, <2>1
  <2>3. FoundNext(txt, pattern, found, k) \in Nat
    BY <2>2, <1>9, <1>0, FoundNextType
  <2> QED
    BY <2>3, <1>6
<1>10. Len(txt) + 1 \in Typed
  <2> HIDE DEF Typed
  <2> QED
    BY <1>0, <1>8, <1>9, ByInduction
<1>11. \A k \in D : found[k] \in Nat
  BY <1>10, <1>0
<1> QED
  BY <1>6, <1>7, <1>11

(* What the search for one match after the other comes to: the k-th that is found
   has k matches before it, overlapping ones included, and where none is found
   there are no more than k. *)
LEMMA FoundCounts ==
  ASSUME NEW txt \in Seq(Byte), NEW pattern, Scannable(pattern), NEW n \in 0..Len(txt)
  PROVE  LET p == Found(txt, pattern)[n]
             M == Matches(txt, pattern)
         IN /\ p \in Nat
            /\ p = 0 => Cardinality(M) <= n
            /\ p # 0 => p \in M /\ Cardinality(Before(M, p)) = n
<1> DEFINE found == Found(txt, pattern)
           M == Matches(txt, pattern)
           Counts(k) == /\ found[k] = 0 => Cardinality(M) <= k
                        /\ found[k] # 0 => /\ found[k] \in M
                                           /\ Cardinality(Before(M, found[k])) = k
           T == {k \in Nat : k <= Len(txt) => Counts(k)}
<1>0. Len(txt) \in Nat /\ M \subseteq 1..Len(txt) /\ IsFiniteSet(M) /\ Cardinality(M) \in Nat
  BY MatchesType
<1>1. found \in [0..Len(txt) -> Nat]
  BY FoundDefined
<1>2. \A k \in 0..Len(txt) : found[k] = FoundNext(txt, pattern, found, k)
  BY FoundDefined
<1> HIDE DEF found
<1>3. 0 \in T
  <2>1. found[0] = findFrom(txt, pattern, 1)
    BY <1>0, <1>2 DEF FoundNext
  <2>2. CASE found[0] = 0
    <3>1. From(M, 1) = {}
      BY <2>1, <2>2, FindFromIsFirst
    <3>2. M = {}
      BY <3>1, <1>0 DEF From
    <3>3. Cardinality(M) = 0
      BY <3>2, FS_EmptySet
    <3> HIDE DEF M
    <3> QED
      BY <2>2, <3>3
  <2>3. CASE found[0] # 0
    <3>1. found[0] \in M /\ \A q \in M : 1 <= q => found[0] <= q
      BY <2>1, <2>3, FindFromIsFirst
    <3> HIDE DEF M
    <3>2. Before(M, found[0]) = {}
      <4>1. found[0] \in Nat /\ \A q \in M : q \in Nat /\ 1 <= q
        BY <1>0, <1>1
      <4>2. \A q \in M : ~(q < found[0])
        BY <3>1, <4>1
      <4> QED
        BY <4>2 DEF Before
    <3>3. Cardinality(Before(M, found[0])) = 0
      BY <3>2, FS_EmptySet
    <3> QED
      BY <2>3, <3>1, <3>3
  <2> QED
    BY <2>2, <2>3
<1>4. ASSUME NEW k \in Nat, k \in T
      PROVE  k + 1 \in T
  <2> SUFFICES ASSUME k + 1 <= Len(txt)
               PROVE  Counts(k + 1)
    OBVIOUS
  <2>1. k \in 0..Len(txt) /\ k + 1 \in 0..Len(txt) /\ (k + 1) - 1 = k /\ k + 1 # 0
    BY <1>0
  <2>2. Counts(k)
    BY <1>4, <1>0, <2>1
  <2>3. found[k + 1] = IF found[k] = 0 THEN 0 ELSE findFrom(txt, pattern, found[k] + 1)
    BY <1>2, <2>1 DEF FoundNext, Behind
  <2>4. found[k] \in Nat /\ found[k + 1] \in Nat
    BY <1>1, <2>1
  <2>5. CASE found[k] = 0
    BY <2>2, <2>3, <2>5, <1>0
  <2>6. CASE found[k] # 0
    <3> DEFINE p == found[k]
               upTo == Before(M, p) \cup {p}
    <3>1. p \in M /\ p \in Nat /\ Cardinality(Before(M, p)) = k /\ p \notin Before(M, p)
      BY <2>2, <2>4, <2>6 DEF Before
    <3>2. IsFiniteSet(Before(M, p))
      <4>1. Before(M, p) \subseteq M
        BY DEF Before
      <4> QED
        BY <4>1, <1>0, FS_Subset
    <3>3. Cardinality(upTo) = k + 1
      BY <3>1, <3>2, FS_AddElement
    <3>4. p + 1 \in Nat \ {0} /\ found[k + 1] = findFrom(txt, pattern, p + 1)
      BY <2>3, <2>6, <3>1
    <3>5. CASE found[k + 1] = 0
      <4>1. From(M, p + 1) = {}
        BY <3>4, <3>5, FindFromIsFirst
      <4> HIDE DEF M
      <4>2. \A q \in M : q < p \/ q = p
        BY <4>1, <1>0, <3>1 DEF From
      <4>3. M = upTo
        BY <4>2, <3>1 DEF Before
      <4> HIDE DEF upTo
      <4>4. Cardinality(M) = k + 1
        BY <3>3, <4>3
      <4> QED
        BY <3>5, <4>4
    <3>6. CASE found[k + 1] # 0
      <4> DEFINE r == found[k + 1]
      <4>1. r \in M /\ p + 1 <= r /\ \A q \in M : p + 1 <= q => r <= q
        BY <3>4, <3>6, FindFromIsFirst
      <4> HIDE DEF M
      <4>2. r \in Nat
        BY <2>4
      <4> HIDE DEF r, p
      <4>3. \A q \in M : q < r <=> q < p \/ q = p
        BY <4>1, <4>2, <3>1, <1>0
      <4>4. Before(M, r) = upTo
        BY <4>3, <3>1 DEF Before
      <4> QED
        BY <3>3, <3>6, <4>1, <4>4 DEF r
    <3> QED
      BY <3>5, <3>6
  <2> QED
    BY <2>5, <2>6
<1>5. Nat \subseteq T
  <2> HIDE DEF T
  <2> QED
    BY <1>3, <1>4, ByInduction
<1>6. Counts(n) /\ found[n] \in Nat
  BY <1>0, <1>1, <1>5
<1> QED
  BY <1>6 DEF found

LEMMA FoundIsThere ==
  ASSUME NEW txt \in Seq(Byte), NEW pattern, Scannable(pattern), NEW n \in 0..Len(txt)
  PROVE  Found(txt, pattern)[n] # 0 <=> n < Cardinality(Matches(txt, pattern))
<1> DEFINE p == Found(txt, pattern)[n]
           M == Matches(txt, pattern)
<1>0. Len(txt) \in Nat /\ M \subseteq 1..Len(txt) /\ IsFiniteSet(M) /\ Cardinality(M) \in Nat
  BY MatchesType
<1>1. /\ p \in Nat
      /\ p = 0 => Cardinality(M) <= n
      /\ p # 0 => p \in M /\ Cardinality(Before(M, p)) = n
  BY FoundCounts
<1> HIDE DEF p, M
<1>2. ASSUME p # 0
      PROVE  n < Cardinality(M)
  <2> DEFINE upTo == Before(M, p) \cup {p}
  <2>1. Before(M, p) \subseteq M /\ p \notin Before(M, p) /\ upTo \subseteq M
    BY <1>1, <1>2 DEF Before
  <2>2. Cardinality(upTo) = n + 1
    BY <2>1, <1>0, <1>1, <1>2, FS_Subset, FS_AddElement
  <2>3. Cardinality(upTo) <= Cardinality(M)
    <3> HIDE DEF upTo
    <3> QED
      BY <2>1, <1>0, FS_Subset
  <2> HIDE DEF upTo
  <2> QED
    BY <2>2, <2>3, <1>0
<1>3. n \in Nat
  BY <1>0
<1> QED
  BY <1>0, <1>1, <1>2, <1>3 DEF p, M

(* sigscan.h: scan() "finds the `occurrence`-th (0 based) match", or null "when there
   is no such match", for every text, every usable pattern and every occurrence. *)
THEOREM ScanFindsTheOccurrence ==
  ASSUME NEW txt \in Seq(Byte), NEW pattern, Scannable(pattern), NEW occurrence \in Int
  PROVE  LET p == scan(txt, pattern, occurrence)
             M == Matches(txt, pattern)
         IN /\ p \in Nat
            /\ p = 0 => occurrence < 0 \/ Cardinality(M) <= occurrence
            /\ p # 0 => p \in M /\ Cardinality(Before(M, p)) = occurrence
<1>0. Len(txt) \in Nat /\ Cardinality(Matches(txt, pattern)) <= Len(txt)
  BY MatchesType
<1>1. CASE occurrence \in 0..Len(txt)
  BY <1>1, FoundCounts DEF scan
<1>2. CASE occurrence \notin 0..Len(txt)
  <2>1. occurrence < 0 \/ Cardinality(Matches(txt, pattern)) <= occurrence
    BY <1>0, <1>2, MatchesType
  <2> QED
    BY <1>2, <2>1 DEF scan
<1> QED
  BY <1>1, <1>2

LEMMA CountIsCapped ==
  ASSUME NEW txt \in Seq(Byte), NEW pattern, Scannable(pattern), NEW limit \in Nat
  PROVE  countMatches(txt, pattern, limit) = Min({limit, Cardinality(Matches(txt, pattern))})
<1> DEFINE found == Found(txt, pattern)
           c == Cardinality(Matches(txt, pattern))
           K == {k \in Counted(limit) \cap DOMAIN found : found[k] # 0}
           m == Min({limit, c})
<1>0. Len(txt) \in Nat /\ c \in Nat /\ c <= Len(txt)
  BY MatchesType
<1>1. DOMAIN found = 0..Len(txt) /\ \A k \in 0..Len(txt) : found[k] # 0 <=> k < c
  BY FoundDefined, FoundIsThere
<1> HIDE DEF found, c
<1>2. K = {k \in 0..limit - 1 : k < c}
  BY <1>0, <1>1 DEF Counted
<1>3. m \in {limit, c} /\ m <= limit /\ m <= c
  <2>1. {limit, c} \subseteq Nat /\ {limit, c} # {}
    BY <1>0
  <2> QED
    BY <2>1, LeastIsMin
<1> HIDE DEF m, K
<1>4. K = 0..m - 1
  BY <1>0, <1>2, <1>3
<1>5. m \in Nat
  BY <1>0, <1>3
<1>6. Cardinality(K) = m
  BY <1>4, <1>5, FS_Interval
<1> QED
  BY <1>6 DEF countMatches, K, found, m, c

-----------------------------------------------------------------------------
(* signatures.cpp and game_hooks.cpp: the invariant. *)

Phases  == {"load", "parse", "resolve", "identity", "cause", "hurt", "tick", "done"}
Located == {"identity", "cause", "hurt", "tick", "done"}

TargetType == [entry: Entry, address: Int, by: {"", "symbol", "pattern"}, matches: Int]

IsRead(i) == candidates[i] \notin {NoFile, Invalid}

Typed ==
  /\ \E s \in Starts : candidates = s[1] /\ text = s[2]
  /\ phase \in Phases /\ at \in Nat \ {0}
  /\ file \in Seq(Entry) /\ (file = << >> \/ \E i \in 1..2 : IsRead(i) /\ file = candidates[i])
  /\ targets \in Seq(TargetType)
  /\ identity \in {"none", "pointer", "getter"} /\ causeAt \in Int
  /\ hurt \in {"none", "mob_hurt", "local_player_hurt"} /\ tick \in BOOLEAN
  /\ refused \subseteq {"local_player_hurt", "game_tick"}

(* The names that are looked up. *)
Names == {"local_player_pointer", "local_player_getter", "damage_cause_offset",
          "local_player_hurt", "game_tick"}

(* The entry that counts for a name, and the target that does. *)
Declares(j, name) == file[j].name = name /\ Locatable(file[j])

FirstEntry(j, name, n) ==
  j \in 1..n /\ Declares(j, name) /\ \A l \in 1..j - 1 : ~Declares(l, name)

FirstTarget(i, name) ==
  /\ i \in 1..Len(targets) /\ targets[i].entry.name = name
  /\ \A l \in 1..i - 1 : targets[l].entry.name # name

(* The targets are the first n entries of the file, as far as they can be located. *)
AllDeclared(n) ==
  \A i \in 1..Len(targets) : \E j \in 1..n : targets[i].entry = file[j] /\ Locatable(file[j])

FirstIsFirst(n) ==
  \A name \in Names : \A i \in 1..Len(targets) : FirstTarget(i, name) =>
    \E j \in 1..n : FirstEntry(j, name, n) /\ targets[i].entry = file[j]

NoneMissed(n) ==
  \A name \in Names : (\E j \in 1..n : Declares(j, name)) =>
    \E i \in 1..Len(targets) : targets[i].entry.name = name

KeptOf(n) == AllDeclared(n) /\ FirstIsFirst(n) /\ NoneMissed(n)

Kept ==
  /\ phase = "load" => file = << >> /\ at = 1
  /\ phase = "parse" => at - 1 <= Len(file) /\ KeptOf(at - 1)
  /\ phase # "parse" => KeptOf(Len(file))

(* And they are resolved in order, each for itself. *)
IsResolved(i) == phase \in Located \/ (phase = "resolve" /\ i < at)

ResolvedInOrder ==
  \A i \in 1..Len(targets) :
    targets[i] = IF IsResolved(i) THEN Resolution(targets[i].entry)
                                  ELSE Unresolved(targets[i].entry)

Identified == Address("local_player_pointer") # 0 \/ Address("local_player_getter") # 0

HooksInv ==
  /\ phase \in {"load", "parse", "resolve", "identity"} => identity = "none"
  /\ phase \in {"cause", "hurt", "tick", "done"} => (identity # "none" <=> Identified)
  /\ phase \notin {"tick", "done"} => hurt = "none" /\ "local_player_hurt" \notin refused
  /\ phase \in {"tick", "done"} =>
       /\ hurt # "none" => /\ Address("local_player_hurt") # 0
                           /\ hurt = Replacement(HurtKind) /\ Hookable(HurtKind)
                           /\ "local_player_hurt" \notin refused
       /\ hurt = "none" /\ "local_player_hurt" \notin refused /\ Address("local_player_hurt") # 0 =>
            ~Hookable(HurtKind)
  /\ phase # "done" => tick = FALSE /\ "game_tick" \notin refused
  /\ phase = "done" => (tick <=> Address("game_tick") # 0 /\ "game_tick" \notin refused)

Inv == Typed /\ Kept /\ ResolvedInOrder /\ HooksInv

-----------------------------------------------------------------------------
(* Looking a target up. *)

LEMMA TargetIsFirst ==
  ASSUME Typed, NEW name
  PROVE  /\ Target(name) \in 0..Len(targets)
         /\ Target(name) = 0 => \A i \in 1..Len(targets) : targets[i].entry.name # name
         /\ Target(name) # 0 => FirstTarget(Target(name), name)
<1> DEFINE I == {i \in 1..Len(targets) : targets[i].entry.name = name}
<1>1. Len(targets) \in Nat
  BY DEF Typed
<1>2. Target(name) = IF I # {} THEN Min(I) ELSE 0
  BY DEF Target, SelectInSeq
<1>3. CASE I = {}
  BY <1>1, <1>2, <1>3
<1>4. CASE I # {}
  <2>0. I \subseteq Nat
    BY <1>1
  <2>1. Min(I) \in I /\ \A m \in I : Min(I) <= m
    <3> HIDE DEF I
    <3> QED
      BY <1>4, <2>0, LeastIsMin
  <2>2. Target(name) = Min(I) /\ Min(I) \in 1..Len(targets) /\ targets[Min(I)].entry.name = name
    BY <1>2, <1>4, <2>1
  <2>3. \A l \in 1..Min(I) - 1 : targets[l].entry.name # name
    BY <1>1, <2>1, <2>2
  <2> HIDE DEF I
  <2> QED
    BY <1>1, <2>2, <2>3 DEF FirstTarget
<1> QED
  BY <1>3, <1>4

LEMMA DeclaredIsFirst ==
  ASSUME Typed, NEW name
  PROVE  \E n \in 0..Len(file) :
           /\ n = 0 => \A j \in 1..Len(file) : ~Declares(j, name)
           /\ n # 0 => FirstEntry(n, name, Len(file))
           /\ n = Declaration(name)
<1> DEFINE n == SelectInSeq(file, LAMBDA e : e.name = name /\ Locatable(e))
           I == {i \in 1..Len(file) : Declares(i, name)}
<1>1. Len(file) \in Nat
  BY DEF Typed
<1>2. n = IF I # {} THEN Min(I) ELSE 0
  BY DEF SelectInSeq, Declares
<1>3. n = Declaration(name)
  BY DEF Declaration
<1> HIDE DEF n
<1>4. /\ n \in 0..Len(file)
      /\ n = 0 => \A j \in 1..Len(file) : ~Declares(j, name)
      /\ n # 0 => FirstEntry(n, name, Len(file))
  <2>0. CASE I = {}
    BY <1>1, <1>2, <2>0
  <2>1. CASE I # {}
    <3>1. Min(I) \in I /\ \A m \in I : Min(I) <= m
      BY <1>1, <2>1, LeastIsMin
    <3>2. n = Min(I) /\ n \in 1..Len(file) /\ Declares(n, name)
      BY <1>2, <2>1, <3>1
    <3>3. \A l \in 1..n - 1 : ~Declares(l, name)
      BY <1>1, <3>1, <3>2
    <3> QED
      BY <1>1, <3>2, <3>3 DEF FirstEntry
  <2> QED
    BY <2>0, <2>1
<1> QED
  BY <1>3, <1>4

LEMMA InitInv == Init => Inv
<1> SUFFICES ASSUME Init
             PROVE  Inv
  OBVIOUS
<1> USE DEF Init
<1>1. Typed
  <2>1. file \in Seq(Entry) /\ targets \in Seq(TargetType) /\ file = << >>
    BY EmptySeq
  <2>2. \E s \in Starts : candidates = s[1] /\ text = s[2]
    OBVIOUS
  <2>3. phase \in Phases /\ at \in Nat \ {0} /\ causeAt \in Int
    BY DEF Phases
  <2> QED
    BY <2>1, <2>2, <2>3 DEF Typed
<1>2. Len(targets) = 0 /\ Len(file) = 0
  OBVIOUS
<1>3. Kept
  BY <1>2 DEF Kept, KeptOf, AllDeclared, FirstIsFirst, NoneMissed
<1>4. ResolvedInOrder
  BY <1>2 DEF ResolvedInOrder
<1>5. HooksInv
  BY DEF HooksInv
<1> QED
  BY <1>1, <1>3, <1>4, <1>5 DEF Inv

(* What was read of a usable spelling is something to scan for. *)
LEMMA UsableIsScannable ==
  ASSUME NEW spelt \in Seq(STRING), Usable(parsePattern(spelt))
  PROVE  Scannable(parsePattern(spelt))
BY ParsedType DEF Usable, Scannable

LEMMA ExportedSomewhere == \A s \in DOMAIN Exported : Exported[s] \in Nat \ {0}
BY Zenon, ExportedAssumption

LEMMA UnresolvedType ==
  ASSUME NEW e \in Entry
  PROVE  Unresolved(e) \in TargetType /\ Unresolved(e).entry = e
BY DEF Unresolved, TargetType

LEMMA ResolutionType ==
  ASSUME NEW e \in Entry, text \in Seq(Byte)
  PROVE  Resolution(e) \in TargetType /\ Resolution(e).entry = e
<1> DEFINE pattern == parsePattern(e.pattern)
           match == IF Usable(pattern) THEN scan(text, pattern, e.occurrence) ELSE 0
<1>1. e.offset \in Int /\ e.occurrence \in Int /\ e.pattern \in Seq(STRING)
  BY DEF Entry
<1>2. ASSUME Usable(pattern)
      PROVE  match \in Nat /\ countMatches(text, pattern, CountLimit) \in Nat
  <2>1. Scannable(pattern)
    BY <1>1, <1>2, UsableIsScannable
  <2> HIDE DEF pattern
  <2>2. match \in Nat
    BY <1>1, <1>2, <2>1, ScanFindsTheOccurrence
  <2>3. Cardinality(Matches(text, pattern)) \in Nat /\ 4 \in Nat
    BY MatchesType
  <2>4. Min({4, Cardinality(Matches(text, pattern))}) \in Nat
    BY <2>3, LeastIsMin
  <2> QED
    BY <2>1, <2>2, <2>4, CountIsCapped DEF CountLimit
<1>3. ~Usable(pattern) => match = 0
  OBVIOUS
<1>4. Resolution(e) =
        IF e.symbol \in DOMAIN Exported
        THEN [entry |-> e, address |-> Exported[e.symbol] + e.offset, by |-> "symbol", matches |-> 0]
        ELSE IF match = 0 THEN Unresolved(e)
        ELSE [entry |-> e, address |-> match + e.offset, by |-> "pattern",
              matches |-> countMatches(text, pattern, CountLimit)]
  BY DEF Resolution
<1> HIDE DEF match, pattern
<1>5. CASE e.symbol \in DOMAIN Exported
  <2> DEFINE x == Exported[e.symbol]
  <2>1. x \in Int
    BY <1>5, ExportedSomewhere
  <2>2. x + e.offset \in Int
    <3> HIDE DEF x
    <3> QED
      BY <1>1, <2>1
  <2> QED
    BY <1>4, <1>5, <2>2 DEF TargetType
<1>6. CASE e.symbol \notin DOMAIN Exported /\ match = 0
  <2>1. Resolution(e) = Unresolved(e)
    BY <1>4, <1>6
  <2> QED
    BY <2>1, UnresolvedType
<1>7. CASE e.symbol \notin DOMAIN Exported /\ match # 0
  <2>1. match + e.offset \in Int /\ countMatches(text, pattern, CountLimit) \in Int
    BY <1>1, <1>2, <1>3, <1>7
  <2> QED
    BY <1>4, <1>7, <2>1 DEF TargetType
<1> QED
  BY <1>5, <1>6, <1>7

LEMMA TypedText ==
  ASSUME Typed
  PROVE  text \in Seq(Byte)
BY TextsAssumption DEF Typed

-----------------------------------------------------------------------------
(* Every step keeps the invariant. *)

LEMMA TypedNext ==
  ASSUME Typed, [Next]_vars
  PROVE  Typed'
<1> USE DEF Typed, IsRead
<1>0. text \in Seq(Byte) /\ Len(file) \in Nat /\ Len(targets) \in Nat
  BY TypedText
<1>1. CASE Load
  <2>1. UNCHANGED <<candidates, text, at, targets, identity, causeAt, hurt, tick, refused>>
    BY <1>1 DEF Load, world, hooks
  <2>2. /\ phase' \in Phases
        /\ file' \in Seq(Entry) /\ (file' = << >> \/ \E i \in 1..2 : IsRead(i) /\ file' = candidates[i])
    <3>1. PICK i \in 1..2 : Chosen = candidates[i]
      BY DEF Chosen
    <3>2. candidates[i] \in {NoFile, Invalid} \/ candidates[i] \in Seq(Entry)
      BY StartsAssumption
    <3>3. CASE Chosen \in {NoFile, Invalid}
      BY <1>1, <3>3 DEF Load, Phases
    <3>4. CASE Chosen \notin {NoFile, Invalid}
      <4>1. phase' = "parse" /\ file' = candidates[i]
        BY <1>1, <3>1, <3>4 DEF Load
      <4> QED
        BY <3>1, <3>2, <3>4, <4>1 DEF Phases, IsRead
    <3> QED
      BY <3>3, <3>4
  <2> QED
    BY <2>1, <2>2
<1>2. CASE Parse
  <2>1. UNCHANGED <<candidates, text, phase, file, identity, causeAt, hurt, tick, refused>>
    BY <1>2 DEF Parse, world, hooks
  <2>2. at \in 1..Len(file) /\ at' = at + 1 /\ file[at] \in Entry
    BY <1>2 DEF Parse
  <2>3. Unresolved(file[at]) \in TargetType
    BY <2>2, UnresolvedType
  <2>4. targets' \in Seq(TargetType)
    BY <1>2, <2>3, AppendProperties DEF Parse
  <2> QED
    BY <2>1, <2>2, <2>4
<1>3. CASE Parsed
  <2>1. UNCHANGED <<candidates, text, file, targets, identity, causeAt, hurt, tick, refused>>
    BY <1>3 DEF Parsed, world, hooks
  <2>2. phase' \in Phases /\ at' \in Nat \ {0}
    BY <1>3 DEF Parsed, Phases
  <2> QED
    BY <2>1, <2>2
<1>4. CASE Resolve
  <2>1. UNCHANGED <<candidates, text, phase, file, identity, causeAt, hurt, tick, refused>>
    BY <1>4 DEF Resolve, world, hooks
  <2>2. at \in 1..Len(targets) /\ at' = at + 1 /\ targets[at] \in TargetType
    BY <1>4 DEF Resolve
  <2>3. targets[at].entry \in Entry
    BY <2>2 DEF TargetType
  <2>4. Resolution(targets[at].entry) \in TargetType
    BY <1>0, <2>3, ResolutionType
  <2>5. targets' \in Seq(TargetType)
    BY <1>4, <2>2, <2>4 DEF Resolve
  <2> QED
    BY <2>1, <2>2, <2>5
<1>5. CASE Resolved
  <2>1. UNCHANGED <<candidates, text, file, at, targets, identity, causeAt, hurt, tick, refused>>
    BY <1>5 DEF Resolved, world, hooks
  <2> QED
    BY <1>5, <2>1 DEF Resolved, Phases
<1>6. CASE Identify
  <2>1. UNCHANGED <<candidates, text, file, at, targets, causeAt, hurt, tick, refused>>
    BY <1>6 DEF Identify, world
  <2> QED
    BY <1>6, <2>1 DEF Identify, Phases
<1>7. CASE ReadCause
  <2>1. UNCHANGED <<candidates, text, file, at, targets, identity, hurt, tick, refused>>
    BY <1>7 DEF ReadCause, world
  <2>2. causeAt' \in Int
    <3>1. CASE Target("damage_cause_offset") = 0
      BY <1>7, <3>1 DEF ReadCause
    <3>2. CASE Target("damage_cause_offset") # 0
      <4>1. Target("damage_cause_offset") \in 1..Len(targets)
        BY <1>0, <3>2, TargetIsFirst
      <4>2. targets[Target("damage_cause_offset")] \in TargetType
        BY <4>1
      <4>3. targets[Target("damage_cause_offset")].entry.offset \in Int
        BY <4>2 DEF TargetType, Entry
      <4> QED
        BY <1>7, <3>2, <4>3 DEF ReadCause
    <3> QED
      BY <3>1, <3>2
  <2> QED
    BY <1>7, <2>1, <2>2 DEF ReadCause, Phases
<1>8. CASE HookHurt
  <2>1. UNCHANGED <<candidates, text, file, at, targets, identity, causeAt, tick>>
    BY <1>8 DEF HookHurt, world
  <2>2. hurt' \in {"none", "mob_hurt", "local_player_hurt"}
    BY <1>8 DEF HookHurt, Replacement
  <2>3. refused' \subseteq {"local_player_hurt", "game_tick"}
    BY <1>8 DEF HookHurt
  <2> QED
    BY <1>8, <2>1, <2>2, <2>3 DEF HookHurt, Phases
<1>9. CASE HookTick
  <2>1. UNCHANGED <<candidates, text, file, at, targets, identity, causeAt, hurt>>
    BY <1>9 DEF HookTick, world
  <2>2. tick' \in BOOLEAN
    BY <1>9 DEF HookTick
  <2>3. refused' \subseteq {"local_player_hurt", "game_tick"}
    BY <1>9 DEF HookTick
  <2> QED
    BY <1>9, <2>1, <2>2, <2>3 DEF HookTick, Phases
<1>10. CASE UNCHANGED vars
  BY <1>10 DEF vars
<1> QED
  BY <1>1, <1>2, <1>3, <1>4, <1>5, <1>6, <1>7, <1>8, <1>9, <1>10 DEF Next

(* One more entry of the file read, kept or passed over. *)
LEMMA ParseKeeps ==
  ASSUME Typed, Parse, KeptOf(at - 1)
  PROVE  KeptOf(at - 1)'
<1> DEFINE n == at - 1
           L == Len(targets)
           e == file[at]
<1>1. /\ file' = file /\ at \in 1..Len(file) /\ n \in Nat /\ L \in Nat
      /\ at = n + 1 /\ at' - 1 = at /\ 1..n \subseteq 1..at
      /\ \A j \in 1..at : j \in 1..n \/ j = at
  <2>1. file' = file /\ at \in 1..Len(file) /\ Len(file) \in Nat /\ L \in Nat /\ at' = at + 1
    BY DEF Parse, Typed
  <2> QED
    BY <2>1
<1>2. KeptOf(n)
  OBVIOUS
<1> HIDE DEF n, L
<1>3. CASE ~Locatable(e)
  <2>1. targets' = targets /\ \A name \in Names : ~Declares(at, name)
    BY <1>3 DEF Parse, Declares
  <2>2. ASSUME NEW name \in Names, NEW j \in 1..n, FirstEntry(j, name, n)
        PROVE  j \in 1..at /\ FirstEntry(j, name, at)
    BY <1>1, <2>2 DEF FirstEntry
  <2>3. \A i \in 1..Len(targets) :
          \E j \in 1..at : targets[i].entry = file[j] /\ Locatable(file[j])
    BY <1>1, <1>2 DEF KeptOf, AllDeclared, FirstIsFirst, NoneMissed
  <2>4. ASSUME NEW name \in Names, NEW i \in 1..Len(targets), FirstTarget(i, name)
        PROVE  \E j \in 1..at : FirstEntry(j, name, at) /\ targets[i].entry = file[j]
    <3>1. PICK j \in 1..n : FirstEntry(j, name, n) /\ targets[i].entry = file[j]
      BY <1>2, <2>4 DEF KeptOf, AllDeclared, FirstIsFirst, NoneMissed
    <3> QED
      BY <2>2, <3>1
  <2>5. ASSUME NEW name \in Names, NEW j \in 1..at, Declares(j, name)
        PROVE  \E i \in 1..Len(targets) : targets[i].entry.name = name
    <3>1. j \in 1..n
      BY <1>1, <2>1, <2>5
    <3> QED
      BY <1>2, <2>5, <3>1 DEF KeptOf, AllDeclared, FirstIsFirst, NoneMissed
  <2>6. at' - 1 = at /\ file' = file /\ targets' = targets
    BY <1>1, <2>1
  <2>7. AllDeclared(at - 1)'
    BY <2>3, <2>6 DEF AllDeclared
  <2>8. FirstIsFirst(at - 1)'
    BY <2>4, <2>6 DEF FirstIsFirst, FirstTarget, FirstEntry, Declares
  <2>9. NoneMissed(at - 1)'
    BY <2>5, <2>6 DEF NoneMissed, Declares
  <2> QED
    BY <2>7, <2>8, <2>9 DEF KeptOf
<1>4. CASE Locatable(e)
  <2>1. /\ Len(targets') = L + 1
        /\ \A i \in 1..L : targets'[i] = targets[i]
        /\ targets'[L + 1].entry = e
    <3>1. targets' = Append(targets, Unresolved(e)) /\ targets \in Seq(TargetType)
      BY <1>4 DEF Parse, Typed
    <3>2. Unresolved(e).entry = e
      BY DEF Unresolved
    <3> HIDE DEF e
    <3> QED
      BY <3>1, <3>2 DEF L
  <2>2. \A i \in 1..L + 1 : i \in 1..L \/ i = L + 1
    BY <1>1
  <2>3. \A i \in 1..Len(targets') :
          \E j \in 1..at : targets'[i].entry = file[j] /\ Locatable(file[j])
    <3> SUFFICES ASSUME NEW i \in 1..L + 1
                 PROVE  \E j \in 1..at : targets'[i].entry = file[j] /\ Locatable(file[j])
      BY <2>1
    <3>1. CASE i \in 1..L
      <4>1. PICK j \in 1..n : targets[i].entry = file[j] /\ Locatable(file[j])
        BY <1>2, <3>1 DEF KeptOf, AllDeclared, L
      <4> QED
        BY <1>1, <2>1, <3>1, <4>1
    <3>2. CASE i = L + 1
      BY <1>1, <1>4, <2>1, <3>2
    <3> QED
      BY <2>2, <3>1, <3>2
  <2>4. ASSUME NEW name \in Names, NEW i \in 1..L + 1,
               targets'[i].entry.name = name,
               \A l \in 1..i - 1 : targets'[l].entry.name # name
        PROVE  \E j \in 1..at : FirstEntry(j, name, at) /\ targets'[i].entry = file[j]
    <3>1. CASE i \in 1..L
      <4>1. FirstTarget(i, name)
        <5>1. 1..i - 1 \subseteq 1..L /\ i - 1 < i
          BY <1>1, <3>1
        <5>2. \A l \in 1..i - 1 : targets'[l] = targets[l]
          BY <2>1, <5>1
        <5> QED
          BY <2>1, <2>4, <3>1, <5>2 DEF FirstTarget, L
      <4>2. PICK j \in 1..n : FirstEntry(j, name, n) /\ targets[i].entry = file[j]
        BY <1>2, <3>1, <4>1 DEF KeptOf, AllDeclared, FirstIsFirst, NoneMissed, L
      <4> QED
        BY <1>1, <2>1, <3>1, <4>2 DEF FirstEntry
    <3>2. CASE i = L + 1
      <4>1. \A l \in 1..L : targets[l].entry.name # name
        BY <1>1, <2>1, <2>4, <3>2
      <4>2. \A j \in 1..n : ~Declares(j, name)
        BY <1>2, <4>1 DEF KeptOf, AllDeclared, FirstIsFirst, NoneMissed, L
      <4>3. Declares(at, name)
        BY <1>4, <2>1, <2>4, <3>2 DEF Declares
      <4> QED
        BY <1>1, <2>1, <3>2, <4>2, <4>3 DEF FirstEntry
    <3> QED
      BY <2>2, <3>1, <3>2
  <2>5. ASSUME NEW name \in Names, NEW j \in 1..at, Declares(j, name)
        PROVE  \E i \in 1..L + 1 : targets'[i].entry.name = name
    <3>1. CASE j = at
      BY <1>1, <2>1, <2>5, <3>1 DEF Declares
    <3>2. CASE j \in 1..n
      <4>1. PICK i \in 1..L : targets[i].entry.name = name
        BY <1>2, <2>5, <3>2 DEF KeptOf, AllDeclared, FirstIsFirst, NoneMissed, L
      <4> QED
        BY <1>1, <2>1, <4>1
    <3> QED
      BY <1>1, <3>1, <3>2
  <2>6. at' - 1 = at /\ file' = file
    BY <1>1
  <2>7. AllDeclared(at - 1)'
    BY <2>3, <2>6 DEF AllDeclared
  <2>8. FirstIsFirst(at - 1)'
    BY <2>1, <2>4, <2>6 DEF FirstIsFirst, FirstTarget, FirstEntry, Declares
  <2>9. NoneMissed(at - 1)'
    BY <2>1, <2>5, <2>6 DEF NoneMissed, Declares
  <2> QED
    BY <2>7, <2>8, <2>9 DEF KeptOf
<1> QED
  BY <1>3, <1>4

LEMMA KeptNext ==
  ASSUME Typed, Kept, [Next]_vars
  PROVE  Kept'
<1>0. Len(file) \in Nat /\ Len(targets) \in Nat /\ at \in Nat \ {0}
  BY DEF Typed
<1>1. CASE Load
  <2>1. UNCHANGED <<at, targets>> /\ phase = "load"
    BY <1>1 DEF Load
  <2>2. file = << >> /\ KeptOf(Len(file)) /\ Len(file) = 0
    BY <2>1 DEF Kept
  <2>3. Len(targets) = 0
    BY <1>0, <2>2 DEF KeptOf, AllDeclared, FirstIsFirst, NoneMissed
  <2>4. phase' \in {"identity", "parse"}
    BY <1>1 DEF Load
  <2> QED
    <3>1. CASE phase' = "identity"
      <4>1. file' = file
        BY <1>1, <3>1 DEF Load
      <4> QED
        BY <2>1, <2>2, <3>1, <4>1 DEF Kept, KeptOf, AllDeclared, FirstIsFirst, NoneMissed, FirstTarget, FirstEntry, Declares
    <3>2. CASE phase' = "parse"
      <4>1. file' = Chosen /\ Chosen \notin {NoFile, Invalid}
        BY <1>1, <3>2 DEF Load
      <4>2. Typed'
        BY TypedNext, <1>1 DEF Next
      <4>3. Len(file') \in Nat
        BY <4>2 DEF Typed
      <4>4. at = 1
        BY <2>1 DEF Kept
      <4> QED
        BY <2>1, <2>3, <3>2, <4>3, <4>4 DEF Kept, KeptOf, AllDeclared, FirstIsFirst, NoneMissed
    <3> QED
      BY <2>4, <3>1, <3>2
<1>2. CASE Parse
  <2>1. /\ phase = "parse" /\ phase' = "parse" /\ file' = file
        /\ at \in 1..Len(file) /\ at' = at + 1
    BY <1>2 DEF Parse, Typed
  <2>2. KeptOf(at - 1)'
    BY <1>2, <2>1, ParseKeeps DEF Kept
  <2>3. at' - 1 <= Len(file')
    BY <1>0, <2>1
  <2> QED
    BY <2>1, <2>2, <2>3 DEF Kept
<1>3. CASE Parsed
  <2>1. /\ phase = "parse" /\ phase' = "resolve" /\ UNCHANGED <<file, targets>>
        /\ at \notin 1..Len(file)
    BY <1>3 DEF Parsed, Typed
  <2>2. at - 1 <= Len(file) /\ KeptOf(at - 1)
    BY <2>1 DEF Kept
  <2>3. at - 1 = Len(file)
    BY <1>0, <2>1, <2>2
  <2>4. KeptOf(Len(file))
    BY <2>2, <2>3
  <2> QED
    BY <2>1, <2>4 DEF Kept, KeptOf, AllDeclared, FirstIsFirst, NoneMissed, FirstTarget, FirstEntry, Declares
<1>4. CASE Resolve
  <2>1. /\ phase = "resolve" /\ UNCHANGED <<phase, file>> /\ at \in 1..Len(targets)
        /\ targets' = [targets EXCEPT ![at] = Resolution(@.entry)]
    BY <1>4 DEF Resolve, Typed
  <2>2. targets[at].entry \in Entry
    <3>1. targets[at] \in TargetType
      BY <2>1 DEF Typed
    <3> QED
      BY <3>1 DEF TargetType
  <2>3. Resolution(targets[at].entry).entry = targets[at].entry
    BY <2>2, TypedText, ResolutionType
  <2>4. Len(targets') = Len(targets) /\ \A i \in 1..Len(targets) : targets'[i].entry = targets[i].entry
    BY <2>1, <2>3 DEF Typed
  <2>5. KeptOf(Len(file))
    BY <2>1 DEF Kept
  <2>6. \A name : \A i \in 1..Len(targets) : FirstTarget(i, name)' <=> FirstTarget(i, name)
    <3> SUFFICES ASSUME NEW name, NEW i \in 1..Len(targets)
                 PROVE  FirstTarget(i, name)' <=> FirstTarget(i, name)
      OBVIOUS
    <3>1. \A l \in 1..i - 1 : l \in 1..Len(targets)
      BY <1>0
    <3> QED
      BY <2>4, <3>1 DEF FirstTarget
  <2>7. AllDeclared(Len(file))'
    <3>1. \A i \in 1..Len(targets) :
            \E j \in 1..Len(file) : targets'[i].entry = file[j] /\ Locatable(file[j])
      BY <2>4, <2>5 DEF KeptOf, AllDeclared
    <3> QED
      BY <2>1, <2>4, <3>1 DEF AllDeclared
  <2>8. FirstIsFirst(Len(file))'
    <3>1. \A j, n : \A name : FirstEntry(j, name, n)' <=> FirstEntry(j, name, n)
      BY <2>1 DEF FirstEntry, Declares
    <3>2. ASSUME NEW name \in Names, NEW i \in 1..Len(targets), FirstTarget(i, name)
          PROVE  \E j \in 1..Len(file) : FirstEntry(j, name, Len(file)) /\ targets'[i].entry = file[j]
      BY <2>4, <2>5, <3>2 DEF KeptOf, FirstIsFirst
    <3> QED
      BY <2>1, <2>4, <2>6, <3>2 DEF FirstIsFirst, FirstEntry, Declares
  <2>9. NoneMissed(Len(file))'
    BY <2>1, <2>4, <2>5 DEF KeptOf, NoneMissed, Declares
  <2> QED
    BY <2>1, <2>7, <2>8, <2>9 DEF Kept, KeptOf
<1>5. CASE \/ Resolved \/ Identify \/ ReadCause \/ HookHurt \/ HookTick \/ UNCHANGED vars
  <2>1. UNCHANGED <<file, targets, at>>
    BY <1>5 DEF Resolved, Identify, ReadCause, HookHurt, HookTick, vars
  <2>2. \/ phase' = phase
        \/ phase \notin {"load", "parse"} /\ phase' \notin {"load", "parse"}
    BY <1>5 DEF Resolved, Identify, ReadCause, HookHurt, HookTick, vars
  <2>3. /\ KeptOf(Len(file))' <=> KeptOf(Len(file))
        /\ KeptOf(at - 1)' <=> KeptOf(at - 1)
    BY <2>1 DEF KeptOf, AllDeclared, FirstIsFirst, NoneMissed, FirstTarget, FirstEntry, Declares
  <2> QED
    BY <2>1, <2>2, <2>3 DEF Kept
<1> QED
  BY <1>1, <1>2, <1>3, <1>4, <1>5 DEF Next

LEMMA ResolvedNext ==
  ASSUME Typed, Kept, ResolvedInOrder, [Next]_vars
  PROVE  ResolvedInOrder'
<1>0. Len(file) \in Nat /\ Len(targets) \in Nat /\ at \in Nat \ {0}
  BY DEF Typed
<1>1. text' = text
  BY DEF Next, Load, Parse, Parsed, Resolve, Resolved, Identify, ReadCause, HookHurt, HookTick,
         world, vars
<1>2. \A e : Resolution(e)' = Resolution(e)
  BY <1>1 DEF Resolution
<1>3. CASE Load
  <2>1. file = << >> /\ KeptOf(Len(file)) /\ Len(file) = 0 /\ targets' = targets
    BY <1>3 DEF Load, Kept
  <2>2. Len(targets') = 0
    BY <1>0, <2>1 DEF KeptOf, AllDeclared, FirstIsFirst, NoneMissed
  <2> QED
    BY <2>2 DEF ResolvedInOrder
<1>4. CASE Parse
  <2>1. /\ phase = "parse" /\ phase' = "parse"
    BY <1>4 DEF Parse
  <2>2. \A i : ~IsResolved(i) /\ ~IsResolved(i)'
    BY <2>1 DEF IsResolved, Located
  <2>3. \A i \in 1..Len(targets) : targets[i] = Unresolved(targets[i].entry)
    BY <2>2 DEF ResolvedInOrder
  <2>4. \A i \in 1..Len(targets') : targets'[i] = Unresolved(targets'[i].entry)
    <3>1. CASE targets' = targets
      BY <2>3, <3>1
    <3>2. CASE targets' = Append(targets, Unresolved(file[at]))
      <4>1. /\ Len(targets') = Len(targets) + 1
            /\ \A i \in 1..Len(targets) : targets'[i] = targets[i]
            /\ targets'[Len(targets) + 1] = Unresolved(file[at])
        BY <3>2 DEF Typed
      <4>2. Unresolved(file[at]).entry = file[at]
        BY DEF Unresolved
      <4>3. \A i \in 1..Len(targets') : i \in 1..Len(targets) \/ i = Len(targets) + 1
        BY <1>0, <4>1
      <4> QED
        BY <2>3, <4>1, <4>2, <4>3
    <3> QED
      BY <1>4, <3>1, <3>2 DEF Parse
  <2> QED
    BY <2>2, <2>4 DEF ResolvedInOrder, Unresolved
<1>5. CASE Parsed
  <2>1. \A i \in 1..Len(targets) : ~IsResolved(i) /\ ~IsResolved(i)'
    BY <1>5, <1>0 DEF Parsed, IsResolved, Located
  <2>2. targets' = targets
    BY <1>5 DEF Parsed
  <2> QED
    BY <2>1, <2>2 DEF ResolvedInOrder, Unresolved
<1>6. CASE Resolve
  <2>1. /\ phase = "resolve" /\ phase' = phase /\ at \in 1..Len(targets) /\ at' = at + 1
        /\ targets' = [targets EXCEPT ![at] = Resolution(@.entry)]
    BY <1>6 DEF Resolve, Typed
  <2>2. targets[at].entry \in Entry
    <3>1. targets[at] \in TargetType
      BY <2>1 DEF Typed
    <3> QED
      BY <3>1 DEF TargetType
  <2>3. Resolution(targets[at].entry).entry = targets[at].entry
    BY <2>2, TypedText, ResolutionType
  <2>4. /\ Len(targets') = Len(targets) /\ targets'[at] = Resolution(targets[at].entry)
        /\ \A i \in 1..Len(targets) : i # at => targets'[i] = targets[i]
    BY <2>1 DEF Typed
  <2> SUFFICES ASSUME NEW i \in 1..Len(targets)
               PROVE  targets'[i] = IF IsResolved(i)' THEN Resolution(targets'[i].entry)
                                    ELSE Unresolved(targets'[i].entry)
    BY <1>2, <2>4 DEF ResolvedInOrder, Unresolved
  <2>5. CASE i = at
    <3>1. IsResolved(i)'
      BY <1>0, <2>1, <2>5 DEF IsResolved
    <3> QED
      BY <2>3, <2>4, <2>5, <3>1
  <2>6. CASE i # at
    <3>1. IsResolved(i)' <=> IsResolved(i)
      BY <1>0, <2>1, <2>6 DEF IsResolved, Located
    <3> QED
      BY <2>4, <2>6, <3>1 DEF ResolvedInOrder
  <2> QED
    BY <2>5, <2>6
<1>7. CASE Resolved
  <2>1. phase = "resolve" /\ phase' \in Located /\ at \notin 1..Len(targets) /\ targets' = targets
    BY <1>7 DEF Resolved, Typed, Located
  <2>2. \A i \in 1..Len(targets) : i < at
    BY <1>0, <2>1
  <2>3. \A i \in 1..Len(targets) : IsResolved(i)
    BY <2>1, <2>2 DEF IsResolved
  <2>4. \A i \in 1..Len(targets) : IsResolved(i)'
    BY <2>1 DEF IsResolved, Located
  <2> QED
    BY <1>2, <2>1, <2>3, <2>4 DEF ResolvedInOrder
<1>8. CASE \/ Identify \/ ReadCause \/ HookHurt \/ HookTick \/ UNCHANGED vars
  <2>1. UNCHANGED <<targets, at>>
    BY <1>8 DEF Identify, ReadCause, HookHurt, HookTick, vars
  <2>0. phase' = phase \/ (phase \in Located /\ phase' \in Located)
    <3>1. CASE Identify \/ ReadCause
      BY <3>1 DEF Identify, ReadCause, Located
    <3>2. CASE HookHurt
      BY <3>2 DEF HookHurt, Located
    <3>3. CASE HookTick
      BY <3>3 DEF HookTick, Located
    <3>4. CASE UNCHANGED vars
      BY <3>4 DEF vars
    <3> QED
      BY <1>8, <3>1, <3>2, <3>3, <3>4
  <2>2. \A i : IsResolved(i)' <=> IsResolved(i)
    BY <2>0, <2>1 DEF IsResolved, Located
  <2> QED
    BY <1>2, <2>1, <2>2 DEF ResolvedInOrder, Unresolved
<1> QED
  BY <1>3, <1>4, <1>5, <1>6, <1>7, <1>8 DEF Next

LEMMA HooksNext ==
  ASSUME Typed, HooksInv, [Next]_vars
  PROVE  HooksInv'
<1>1. CASE Load \/ Parse \/ Parsed \/ Resolve \/ Resolved
  <2>1. /\ UNCHANGED <<identity, hurt, tick, refused>>
        /\ phase \in {"load", "parse", "resolve"}
        /\ phase' \in {"parse", "resolve", "identity"}
    BY <1>1 DEF Load, Parse, Parsed, Resolve, Resolved, hooks
  <2> QED
    BY <2>1 DEF HooksInv
<1>2. CASE Identify \/ ReadCause \/ HookHurt \/ HookTick \/ UNCHANGED vars
  <2>1. targets' = targets
    BY <1>2 DEF Identify, ReadCause, HookHurt, HookTick, vars
  <2>9. \A name : Target(name)' = Target(name)
    BY <2>1 DEF Target, SelectInSeq
  <2>2. \A name : Address(name)' = Address(name)
    BY <2>1, <2>9 DEF Address
  <2>3. HurtKind' = HurtKind /\ (Identified' <=> Identified)
    BY <2>1, <2>2, <2>9 DEF HurtKind, Identified
  <2>4. CASE Identify
    BY <2>4, <2>3 DEF Identify, HooksInv, Identified
  <2>5. CASE ReadCause
    BY <2>5, <2>3 DEF ReadCause, HooksInv
  <2>6. CASE HookHurt
    <3>1. /\ phase = "hurt" /\ phase' = "tick" /\ UNCHANGED <<identity, tick>>
          /\ hurt = "none" /\ "local_player_hurt" \notin refused
          /\ tick = FALSE /\ "game_tick" \notin refused
      BY <2>6 DEF HookHurt, HooksInv
    <3>2. Hookable(HurtKind)' <=> Hookable(HurtKind)
      BY <2>3, <3>1 DEF Hookable
    <3>3. CASE Address("local_player_hurt") # 0 /\ Hookable(HurtKind)
      BY <2>2, <2>3, <2>6, <3>1, <3>2, <3>3 DEF HookHurt, HooksInv, Replacement
    <3>4. CASE ~(Address("local_player_hurt") # 0 /\ Hookable(HurtKind))
      <4>1. hurt' = hurt /\ refused' = refused
        BY <2>6, <3>4 DEF HookHurt
      <4> QED
        BY <2>2, <2>3, <3>1, <3>2, <3>4, <4>1 DEF HooksInv
    <3> QED
      BY <3>3, <3>4
  <2>7. CASE HookTick
    <3>1. /\ phase = "tick" /\ phase' = "done" /\ UNCHANGED <<identity, hurt>>
          /\ tick = FALSE /\ "game_tick" \notin refused
      BY <2>7 DEF HookTick, HooksInv
    <3>2. "local_player_hurt" \in refused' <=> "local_player_hurt" \in refused
      BY <2>7 DEF HookTick
    <3>3. tick' <=> Address("game_tick") # 0 /\ "game_tick" \notin refused'
      BY <2>7, <3>1 DEF HookTick
    <3>4. Hookable(HurtKind)' <=> Hookable(HurtKind)
      BY <2>3, <3>1 DEF Hookable
    <3>5. Replacement(HurtKind)' = Replacement(HurtKind)
      BY <2>3 DEF Replacement
    <3> QED
      BY <2>2, <2>3, <3>1, <3>2, <3>3, <3>4, <3>5 DEF HooksInv
  <2>8. CASE UNCHANGED vars
    <3>1. UNCHANGED <<phase, identity, hurt, tick, refused>>
      BY <2>8 DEF vars
    <3>2. Replacement(HurtKind)' = Replacement(HurtKind) /\ (Hookable(HurtKind)' <=> Hookable(HurtKind))
      BY <2>3, <3>1 DEF Replacement, Hookable
    <3> QED
      BY <2>2, <2>3, <3>1, <3>2 DEF HooksInv
  <2> QED
    BY <1>2, <2>4, <2>5, <2>6, <2>7, <2>8
<1> QED
  BY <1>1, <1>2 DEF Next

LEMMA Invariant == Spec => []Inv
<1>1. Inv /\ [Next]_vars => Inv'
  BY TypedNext, KeptNext, ResolvedNext, HooksNext DEF Inv
<1> QED
  BY <1>1, InitInv, PTL DEF Spec

(* Once all targets are resolved, a name has the address its first entry that can be
   located says, and that entry's kind. *)
LEMMA AddressIsDeclared ==
  ASSUME Inv, phase \in Located, NEW name \in Names
  PROVE  /\ Address(name) = Declared(name)
         /\ Target(name) # 0 => targets[Target(name)].entry.kind = DeclaredKind(name)
<1> DEFINE i == Target(name)
           n == Declaration(name)
<1>0. Typed /\ KeptOf(Len(file)) /\ ResolvedInOrder /\ Len(file) \in Nat /\ Len(targets) \in Nat
  BY DEF Inv, Kept, Located, Typed
<1>1. /\ i \in 0..Len(targets)
      /\ i = 0 => \A k \in 1..Len(targets) : targets[k].entry.name # name
      /\ i # 0 => FirstTarget(i, name)
  BY <1>0, TargetIsFirst
<1>2. /\ n \in 0..Len(file)
      /\ n = 0 => \A j \in 1..Len(file) : ~Declares(j, name)
      /\ n # 0 => FirstEntry(n, name, Len(file))
  BY <1>0, DeclaredIsFirst
<1>3. /\ Address(name) = IF i = 0 THEN 0 ELSE targets[i].address
      /\ Declared(name) = IF n = 0 THEN 0 ELSE Resolution(file[n]).address
      /\ DeclaredKind(name) = file[n].kind
  BY DEF Address, Declared, DeclaredKind
<1> SUFFICES /\ Address(name) = Declared(name)
             /\ i # 0 => targets[i].entry.kind = DeclaredKind(name)
  OBVIOUS
<1> HIDE DEF i, n
<1>4. CASE i = 0
  <2>1. \A j \in 1..Len(file) : ~Declares(j, name)
    BY <1>0, <1>1, <1>4 DEF KeptOf, AllDeclared, FirstIsFirst, NoneMissed
  <2>2. n = 0
    BY <1>2, <2>1 DEF FirstEntry
  <2> QED
    BY <1>3, <1>4, <2>2
<1>5. CASE i # 0
  <2>1. FirstTarget(i, name) /\ i \in 1..Len(targets)
    BY <1>1, <1>5 DEF FirstTarget
  <2>2. PICK j \in 1..Len(file) : FirstEntry(j, name, Len(file)) /\ targets[i].entry = file[j]
    BY <1>0, <2>1 DEF KeptOf, AllDeclared, FirstIsFirst, NoneMissed
  <2>3. n # 0 /\ FirstEntry(n, name, Len(file))
    BY <1>2, <2>2 DEF FirstEntry
  <2>4. n = j
    <3>1. n \in Nat /\ j \in Nat /\ n >= 1 /\ j >= 1
      BY <1>0, <2>2, <2>3 DEF FirstEntry
    <3>2. ~(n < j) /\ ~(j < n)
      BY <2>2, <2>3, <3>1 DEF FirstEntry
    <3> QED
      BY <3>1, <3>2
  <2>5. IsResolved(i)
    BY DEF IsResolved
  <2>6. targets[i] = Resolution(targets[i].entry)
    BY <1>0, <2>1, <2>5 DEF ResolvedInOrder
  <2> QED
    BY <1>3, <1>5, <2>2, <2>3, <2>4, <2>6
<1> QED
  BY <1>4, <1>5

-----------------------------------------------------------------------------
(* The types, and that every target that was kept can be looked for, in all files. *)
THEOREM TypeCorrect == Spec => []TypeOK
<1>1. Inv => TypeOK
  <2> SUFFICES ASSUME Inv
               PROVE  TypeOK
    OBVIOUS
  <2>1. Typed /\ Kept /\ Len(file) \in Nat /\ Len(targets) \in Nat
    BY DEF Inv, Typed
  <2>2. PICK n \in Int : KeptOf(n) /\ n <= Len(file)
    BY <2>1 DEF Kept, Typed
  <2>3. ASSUME NEW i \in 1..Len(targets)
        PROVE  /\ targets[i].entry \in ToSet(file) /\ targets[i].address \in Int
               /\ targets[i].entry.symbol # "" \/ targets[i].entry.pattern # << >>
    <3>1. PICK j \in 1..n : targets[i].entry = file[j] /\ Locatable(file[j])
      BY <2>2 DEF KeptOf, AllDeclared, FirstIsFirst, NoneMissed
    <3>2. j \in 1..Len(file) /\ targets[i] \in TargetType
      BY <2>1, <2>2 DEF Typed
    <3>3. targets[i].entry \in ToSet(file)
      BY <3>1, <3>2, <2>1 DEF ToSet, Typed
    <3>4. targets[i].address \in Int
      BY <3>2 DEF TargetType
    <3> QED
      BY <3>1, <3>3, <3>4 DEF Locatable
  <2> QED
    <3>1. DOMAIN targets = 1..Len(targets)
      BY <2>1 DEF Typed
    <3>2. /\ phase \in {"load", "parse", "resolve", "identity", "cause", "hurt", "tick", "done"}
          /\ identity \in {"none", "pointer", "getter"} /\ causeAt \in Int
          /\ hurt \in {"none", "mob_hurt", "local_player_hurt"} /\ tick \in BOOLEAN
          /\ refused \subseteq {"local_player_hurt", "game_tick"}
      BY <2>1 DEF Typed, Phases
    <3> QED
      BY <2>3, <3>1, <3>2 DEF TypeOK
<1> QED
  BY <1>1, Invariant, PTL

(* game_hooks.cpp: no hook that sees every mob's damage without a way to tell the
   player's, and none that does not ask, whatever the file declares, in what order,
   and whatever of it can be found. *)
THEOREM OnlyThePlayersDamageIsSeen == Spec => []OnlyThePlayersDamage
<1>1. Inv => OnlyThePlayersDamage
  <2> SUFFICES ASSUME Inv
               PROVE  OnlyThePlayersDamage
    OBVIOUS
  <2>1. CASE phase \in {"tick", "done"}
    <3>1. /\ identity # "none" <=> Identified
          /\ hurt # "none" => hurt = Replacement(HurtKind) /\ Hookable(HurtKind)
      BY <2>1 DEF Inv, HooksInv
    <3>2. hurt = "mob_hurt" => HurtKind = "mob_hurt"
      BY <3>1 DEF Replacement
    <3> QED
      BY <3>1, <3>2 DEF OnlyThePlayersDamage, Replacement, Hookable, Identified
  <2>2. CASE phase \notin {"tick", "done"}
    BY <2>2 DEF Inv, HooksInv, OnlyThePlayersDamage
  <2> QED
    BY <2>1, <2>2
<1> QED
  BY <1>1, Invariant, PTL

(* signatures.h: "missing targets are not fatal": of any number of targets, each is
   where its own entry says, and its hook goes in exactly when it is located and
   install() takes it; whatever becomes of the others, except that a damage hook on
   every mob needs the pointer or the getter. *)
THEOREM EveryTargetForItself == Spec => []TargetsStandAlone
<1>1. Inv => TargetsStandAlone
  <2> SUFFICES ASSUME Inv, phase = "done"
               PROVE  /\ tick <=> Declared("game_tick") # 0 /\ "game_tick" \notin refused
                      /\ hurt # "none" <=>
                           /\ Declared("local_player_hurt") # 0 /\ "local_player_hurt" \notin refused
                           /\ \/ DeclaredKind("local_player_hurt") # "mob_hurt"
                              \/ Declared("local_player_pointer") # 0
                              \/ Declared("local_player_getter") # 0
    BY DEF TargetsStandAlone
  <2>1. phase \in Located
    BY DEF Located
  <2>2. \A name \in Names :
          /\ Address(name) = Declared(name)
          /\ Target(name) # 0 => targets[Target(name)].entry.kind = DeclaredKind(name)
    BY <2>1, AddressIsDeclared
  <2>3. /\ Address("game_tick") = Declared("game_tick")
        /\ Address("local_player_hurt") = Declared("local_player_hurt")
        /\ Address("local_player_pointer") = Declared("local_player_pointer")
        /\ Address("local_player_getter") = Declared("local_player_getter")
    BY <2>2 DEF Names
  <2>4. Address("local_player_hurt") # 0 => HurtKind = DeclaredKind("local_player_hurt")
    BY <2>2 DEF Names, HurtKind, Address
  <2>5. HooksInv
    BY DEF Inv
  <2>6. identity # "none" <=> Identified
    BY <2>5 DEF HooksInv
  <2>7. tick <=> Address("game_tick") # 0 /\ "game_tick" \notin refused
    BY <2>5 DEF HooksInv
  <2>8. hurt # "none" =>
          Address("local_player_hurt") # 0 /\ Hookable(HurtKind) /\ "local_player_hurt" \notin refused
    BY <2>5 DEF HooksInv
  <2>9. hurt = "none" /\ "local_player_hurt" \notin refused /\ Address("local_player_hurt") # 0 =>
          ~Hookable(HurtKind)
    BY <2>5 DEF HooksInv
  <2>10. Address("local_player_hurt") # 0 =>
           (Hookable(HurtKind) <=>
              \/ DeclaredKind("local_player_hurt") # "mob_hurt"
              \/ Declared("local_player_pointer") # 0 \/ Declared("local_player_getter") # 0)
    BY <2>3, <2>4, <2>6 DEF Hookable, Identified
  <2> QED
    BY <2>3, <2>7, <2>8, <2>9, <2>10
<1> QED
  BY <1>1, Invariant, PTL

(* What an entry's author means is what parsePattern() makes of the spelling. *)
ReadAsMeant ==
  \A s \in Starts : \A i \in 1..2 : s[1][i] \notin {NoFile, Invalid} =>
    \A e \in ToSet(s[1][i]) :
      e.means = IF Usable(parsePattern(e.pattern)) THEN parsePattern(e.pattern) ELSE << >>

LEMMA TargetsReadAsMeant ==
  ASSUME ReadAsMeant, Typed, Kept, NEW i \in 1..Len(targets)
  PROVE  LET e == targets[i].entry IN
         /\ e \in Entry
         /\ e.means = IF Usable(parsePattern(e.pattern)) THEN parsePattern(e.pattern) ELSE << >>
<1>0. Len(file) \in Nat /\ Len(targets) \in Nat
  BY DEF Typed
<1>1. PICK n \in Int : KeptOf(n) /\ n <= Len(file)
  BY <1>0 DEF Kept, Typed
<1>2. PICK j \in 1..n : targets[i].entry = file[j]
  BY <1>1 DEF KeptOf, AllDeclared, FirstIsFirst, NoneMissed
<1>3. j \in 1..Len(file) /\ file # << >>
  BY <1>0, <1>1
<1>4. PICK k \in 1..2 : IsRead(k) /\ file = candidates[k]
  BY <1>3 DEF Typed
<1>5. PICK s \in Starts : candidates = s[1]
  BY DEF Typed
<1>6. file[j] \in ToSet(s[1][k]) /\ file[j] \in Entry
  BY <1>3, <1>4, <1>5 DEF Typed, ToSet
<1>7. s[1][k] \notin {NoFile, Invalid}
  BY <1>4, <1>5 DEF IsRead
<1> DEFINE e == file[j]
<1> HIDE DEF e
<1>8. e.means = IF Usable(parsePattern(e.pattern)) THEN parsePattern(e.pattern) ELSE << >>
  BY <1>6, <1>7 DEF ReadAsMeant, e
<1> QED
  BY <1>2, <1>6, <1>8 DEF e

(* sigscan.h: for every text, pattern, occurrence and offset, where what is spelt says
   what is meant, a target found by its pattern is at the match its author means, its
   count is that of the matches up to the limit, and one that was not found has no such
   match. *)
THEOREM TheOccurrenceIsFound ==
  ASSUME ReadAsMeant
  PROVE  Spec => []FindsTheOccurrence
<1>1. Inv => FindsTheOccurrence
  <2> SUFFICES ASSUME Inv
               PROVE  FindsTheOccurrence
    OBVIOUS
  <2>0. Typed /\ Kept /\ ResolvedInOrder /\ text \in Seq(Byte) /\ DOMAIN targets = 1..Len(targets)
    BY TypedText DEF Inv, Typed
  <2>1. ASSUME NEW i \in 1..Len(targets), targets[i].by = "pattern"
        PROVE  LET t == targets[i]
                   m == Matches(text, t.entry.means)
               IN /\ t.entry.means # << >>
                  /\ t.address - t.entry.offset \in m
                  /\ Cardinality({p \in m : p < t.address - t.entry.offset}) = t.entry.occurrence
                  /\ t.matches = Min({CountLimit, Cardinality(m)})
    <3> DEFINE t == targets[i]
               e == t.entry
               pattern == parsePattern(e.pattern)
               found == scan(text, pattern, e.occurrence)
               match == IF Usable(pattern) THEN found ELSE 0
    <3>1. e \in Entry /\ e.means = IF Usable(pattern) THEN pattern ELSE << >>
      BY <2>0, TargetsReadAsMeant
    <3>2. t = Resolution(e)
      <4>1. t = IF IsResolved(i) THEN Resolution(e) ELSE Unresolved(e)
        BY <2>0 DEF ResolvedInOrder
      <4>2. Unresolved(e).by = ""
        BY DEF Unresolved
      <4> HIDE DEF e
      <4> QED
        BY <2>1, <4>1, <4>2
    <3>3. /\ match # 0
          /\ t.address = match + e.offset
          /\ t.matches = countMatches(text, pattern, CountLimit)
      <4>1. t = IF e.symbol \in DOMAIN Exported
                THEN [entry |-> e, address |-> Exported[e.symbol] + e.offset, by |-> "symbol", matches |-> 0]
                ELSE IF match = 0 THEN Unresolved(e)
                ELSE [entry |-> e, address |-> match + e.offset, by |-> "pattern",
                      matches |-> countMatches(text, pattern, CountLimit)]
        BY <3>2 DEF Resolution
      <4>2. Unresolved(e).by = "" /\ t.by = "pattern"
        BY <2>1 DEF Unresolved
      <4> HIDE DEF t, e, pattern, match
      <4> QED
        BY <4>1, <4>2
    <3>4. Usable(pattern) /\ match = found
      BY <3>3
    <3>5. pattern # << >> /\ e.means = pattern
      BY <3>1, <3>4 DEF Usable
    <3>6. e.offset \in Int /\ e.occurrence \in Int /\ e.pattern \in Seq(STRING)
      BY <3>1 DEF Entry
    <3>7. Scannable(pattern)
      BY <3>4, <3>6, UsableIsScannable
    <3>8. /\ found \in Nat
          /\ found # 0 => /\ found \in Matches(text, pattern)
                          /\ Cardinality(Before(Matches(text, pattern), found)) = e.occurrence
      BY <2>0, <3>6, <3>7, ScanFindsTheOccurrence
    <3>9. t.matches = Min({CountLimit, Cardinality(Matches(text, pattern))})
      BY <2>0, <3>3, <3>7, CountIsCapped DEF CountLimit
    <3> HIDE DEF found, pattern
    <3>10. t.address - e.offset = found
      BY <3>3, <3>4, <3>6, <3>8
    <3> QED
      BY <3>3, <3>4, <3>5, <3>8, <3>9, <3>10 DEF Before
  <2>2. ASSUME phase = "done", NEW i \in 1..Len(targets),
               targets[i].by = "", targets[i].entry.means # << >>
        PROVE  LET e == targets[i].entry
               IN e.occurrence < 0 \/ Cardinality(Matches(text, e.means)) <= e.occurrence
    <3> DEFINE e == targets[i].entry
               pattern == parsePattern(e.pattern)
               found == scan(text, pattern, e.occurrence)
    <3>1. e \in Entry /\ e.means = IF Usable(pattern) THEN pattern ELSE << >>
      BY <2>0, TargetsReadAsMeant
    <3>2. IsResolved(i)
      BY <2>2 DEF IsResolved, Located
    <3>3. targets[i] = Resolution(e)
      BY <2>0, <3>2 DEF ResolvedInOrder
    <3>4. Usable(pattern) /\ e.means = pattern
      BY <2>2, <3>1
    <3>5. found = 0
      <4>1. Resolution(e) =
              IF e.symbol \in DOMAIN Exported
              THEN [entry |-> e, address |-> Exported[e.symbol] + e.offset, by |-> "symbol", matches |-> 0]
              ELSE IF found = 0 THEN Unresolved(e)
              ELSE [entry |-> e, address |-> found + e.offset, by |-> "pattern",
                    matches |-> countMatches(text, pattern, CountLimit)]
        BY <3>4 DEF Resolution
      <4>2. Resolution(e).by = ""
        BY <2>2, <3>3
      <4> HIDE DEF e, pattern, found
      <4>3. CASE e.symbol \in DOMAIN Exported
        BY <4>1, <4>2, <4>3
      <4>4. CASE e.symbol \notin DOMAIN Exported /\ found # 0
        BY <4>1, <4>2, <4>4
      <4>5. found = 0 \/ found # 0
        OBVIOUS
      <4> QED
        BY <4>3, <4>4, <4>5
    <3>6. e.occurrence \in Int /\ e.pattern \in Seq(STRING)
      BY <3>1 DEF Entry
    <3>7. Scannable(pattern)
      BY <3>4, <3>6, UsableIsScannable
    <3> QED
      BY <2>0, <3>4, <3>5, <3>6, <3>7, ScanFindsTheOccurrence
  <2>3. Scanned = {i \in 1..Len(targets) : targets[i].by = "pattern"}
    BY <2>0 DEF Scanned
  <2> QED
    <3>1. \A i \in Scanned :
            LET t == targets[i]
                m == Matches(text, t.entry.means)
            IN /\ t.entry.means # << >>
               /\ t.address - t.entry.offset \in m
               /\ Cardinality({p \in m : p < t.address - t.entry.offset}) = t.entry.occurrence
               /\ t.matches = Min({CountLimit, Cardinality(m)})
      BY <2>1, <2>3
    <3>2. phase = "done" =>
            \A i \in DOMAIN targets :
              LET e == targets[i].entry IN
              targets[i].by = "" /\ e.means # << >> =>
                e.occurrence < 0 \/ Cardinality(Matches(text, e.means)) <= e.occurrence
      BY <2>0, <2>2
    <3> QED
      BY <3>1, <3>2 DEF FindsTheOccurrence
<1> QED
  BY <1>1, Invariant, PTL

(* What a pattern means, told from the words it is written in. *)
Meant(spelt, means) ==
  \E words \in Seq(Words), pattern \in Seq(Symbols) :
    /\ Apart(words) /\ Joined(pattern, Meanings(words))
    /\ \/ Joined(spelt, words) /\ means = IF Usable(pattern) THEN pattern ELSE << >>
       \/ Broken(spelt, words) /\ means = << >>

(* The authors of the files mean what they write. *)
WrittenAsMeant ==
  \A s \in Starts : \A i \in 1..2 : s[1][i] \notin {NoFile, Invalid} =>
    \A e \in ToSet(s[1][i]) : Meant(e.pattern, e.means)

LEMMA MeantIsRead ==
  ASSUME NEW spelt \in Seq(STRING), NEW means, Meant(spelt, means)
  PROVE  means = IF Usable(parsePattern(spelt)) THEN parsePattern(spelt) ELSE << >>
<1>1. PICK words \in Seq(Words), pattern \in Seq(Symbols) :
        /\ Apart(words) /\ Joined(pattern, Meanings(words))
        /\ \/ Joined(spelt, words) /\ means = IF Usable(pattern) THEN pattern ELSE << >>
           \/ Broken(spelt, words) /\ means = << >>
  BY DEF Meant
<1>2. CASE Joined(spelt, words) /\ means = IF Usable(pattern) THEN pattern ELSE << >>
  <2>1. parsePattern(spelt) = pattern
    BY <1>1, <1>2, PatternsReadAsWritten
  <2> QED
    BY <1>2, <2>1
<1>3. CASE Broken(spelt, words) /\ means = << >>
  <2>1. ~Usable(parsePattern(spelt))
    BY <1>1, <1>3, NoPatternIsRefused
  <2> QED
    BY <1>3, <2>1
<1> QED
  BY <1>1, <1>2, <1>3

(* What is written is found: the same from the words of the patterns alone, with nothing
   assumed of how parsePattern() reads them. *)
THEOREM WhatIsWrittenIsFound ==
  ASSUME WrittenAsMeant
  PROVE  Spec => []FindsTheOccurrence
<1>1. ASSUME NEW s \in Starts, NEW i \in 1..2, s[1][i] \notin {NoFile, Invalid},
             NEW e \in ToSet(s[1][i])
      PROVE  e.means = IF Usable(parsePattern(e.pattern)) THEN parsePattern(e.pattern) ELSE << >>
  <2>1. e \in Entry
    BY <1>1, StartsAssumption DEF ToSet
  <2>2. e.pattern \in Seq(STRING)
    BY <2>1 DEF Entry
  <2>3. Meant(e.pattern, e.means)
    BY <1>1 DEF WrittenAsMeant
  <2> QED
    BY <2>2, <2>3, MeantIsRead
<1>2. ReadAsMeant
  BY <1>1 DEF ReadAsMeant
<1> QED
  BY <1>2, TheOccurrenceIsFound
=============================================================================
