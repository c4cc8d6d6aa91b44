-------------------------- MODULE TrampolineProofs --------------------------
(* For any architecture, any prologue and any place mmap may choose: install() moves
   whole instructions, a copy means what the original meant, and a refusal leaves
   nothing mapped.  That rests on the decoders, and those of both architectures are
   proved right as well. *)
EXTENDS Trampoline, X86Decode, A64Decode, WellFoundedInduction, SequenceTheorems, TLAPS

-----------------------------------------------------------------------------
(* Induction over the numbers, with a set for the predicate. *)

Below == {ss \in Nat \X Nat : ss[1] < ss[2]}

LEMMA LeastNumber ==
  ASSUME NEW T, T \subseteq Nat, T # {}
  PROVE  \E n \in T : \A m \in T : n <= m
<1>1. IsWellFoundedOn(Below, Nat)
  BY NatLessThanWellFounded DEF OpToRel, Below
<1>2. PICK n \in T : \A m \in T : ~ (<<m, n>> \in Below)
  BY <1>1, WFMin
<1>3. \A m \in T : ~(m < n)
  BY <1>2 DEF Below
<1> QED
  BY <1>3

LEMMA ByInduction ==
  ASSUME NEW T, 0 \in T, \A n \in Nat : n \in T => n + 1 \in T
  PROVE  Nat \subseteq T
<1> SUFFICES ASSUME NEW x \in Nat, x \notin T
             PROVE  FALSE
  OBVIOUS
<1>1. PICK n \in Nat \ T : \A m \in Nat \ T : n <= m
  <2> DEFINE U == Nat \ T
  <2>1. U \subseteq Nat /\ U # {}
    OBVIOUS
  <2> HIDE DEF U
  <2>2. \E n \in U : \A m \in U : n <= m
    BY <2>1, LeastNumber
  <2> QED
    BY <2>2 DEF U
<1>2. n # 0
  BY <1>1
<1>3. n - 1 \in Nat /\ (n - 1) + 1 = n
  BY <1>2
<1>4. n - 1 \in T
  BY <1>1, <1>3
<1> QED
  BY <1>1, <1>3, <1>4

-----------------------------------------------------------------------------
(* inline_hook.cpp: `offset += instruction.length`. *)

(* The sums of the lengths of the first k instructions, for every k. *)
Sums(is) ==
  LET sum[k \in 0..Len(is)] == IF k = 0 THEN 0 ELSE sum[k - 1] + is[k].length
  IN sum

LEMMA OffsetIsSum ==
  ASSUME NEW n
  PROVE  Offset(n) = Sums(instructions)[n - 1]
BY DEF Offset, Sums

SumNext(is, f, k) == IF k = 0 THEN 0 ELSE f[k - 1] + is[k].length

LEMMA SumsDefined ==
  ASSUME NEW is \in Seq(Instructions)
  PROVE  /\ Sums(is) \in [0..Len(is) -> Nat]
         /\ \A k \in 0..Len(is) : Sums(is)[k] = SumNext(is, Sums(is), k)
<1> DEFINE D == 0..Len(is)
           Good(f, n) == /\ f \in [D -> Nat]
                         /\ \A k \in D : k < n => f[k] = SumNext(is, f, k)
           Goods == {n \in Nat : \E f : Good(f, n)}
<1>0. Len(is) \in Nat /\ \A k \in 1..Len(is) : is[k].length \in Nat
  <2>1. \A k \in 1..Len(is) : is[k] \in Instructions
    OBVIOUS
  <2> QED
    BY <2>1 DEF Instructions
<1>1. 0 \in Goods
  <2>1. Good([k \in D |-> 0], 0)
    BY <1>0
  <2> HIDE DEF Good
  <2> QED
    BY <2>1
<1>2. ASSUME NEW n \in Nat, n \in Goods
      PROVE  n + 1 \in Goods
  <2>1. PICK f : Good(f, n)
    BY <1>2
  <2> DEFINE g == [f EXCEPT ![n] = SumNext(is, f, n)]
  <2>2. CASE n \notin D
    <3>1. \A k \in D : k < n + 1 => k < n
      BY <1>0, <2>2
    <3>2. Good(f, n + 1)
      BY <2>1, <3>1
    <3> HIDE DEF Good
    <3> QED
      BY <3>2
  <2>3. CASE n \in D
    <3>1. SumNext(is, f, n) \in Nat
      <4>1. n # 0 => n - 1 \in D /\ n \in 1..Len(is)
        BY <2>3, <1>0
      <4>2. n # 0 => f[n - 1] \in Nat /\ is[n].length \in Nat
        BY <4>1, <2>1, <1>0
      <4> QED
        BY <4>2 DEF SumNext
    <3>2. g \in [D -> Nat]
      BY <2>1, <3>1
    <3>3. ASSUME NEW k \in D, k < n + 1
          PROVE  g[k] = SumNext(is, g, k)
      <4>1. k # 0 => k - 1 \in D /\ k - 1 # n
        BY <3>3, <1>0
      <4>2. k # 0 => f[k - 1] = g[k - 1]
        BY <4>1, <2>1
      <4>3. SumNext(is, f, k) = SumNext(is, g, k)
        BY <4>2 DEF SumNext
      <4>4. CASE k = n
        BY <4>3, <4>4, <2>1, <2>3
      <4>5. CASE k # n
        <5>1. k < n
          BY <4>5, <3>3, <1>0
        <5> QED
          BY <5>1, <4>3, <4>5, <2>1
      <4> QED
        BY <4>4, <4>5
    <3>4. Good(g, n + 1)
      BY <3>2, <3>3
    <3> HIDE DEF Good, g
    <3> QED
      BY <3>4
  <2> QED
    BY <2>2, <2>3
<1>3. Len(is) + 1 \in Goods
  <2> HIDE DEF Goods
  <2> QED
    BY <1>0, <1>1, <1>2, ByInduction
<1>4. PICK f : Good(f, Len(is) + 1)
  BY <1>3
<1>5. f = [k \in D |-> SumNext(is, f, k)]
  BY <1>4, <1>0
<1> DEFINE sum == CHOOSE h : h = [k \in D |-> SumNext(is, h, k)]
<1>6. sum = [k \in D |-> SumNext(is, sum, k)]
  BY <1>5
<1>7. Sums(is) = sum
  BY DEF Sums, SumNext
<1> HIDE DEF sum
<1> DEFINE Numbers == {n \in Nat : \A k \in D : k < n => sum[k] \in Nat}
<1>8. 0 \in Numbers
  BY <1>0
<1>9. ASSUME NEW n \in Nat, n \in Numbers
      PROVE  n + 1 \in Numbers
  <2>1. SUFFICES ASSUME NEW k \in D, k < n + 1
                 PROVE  sum[k] \in Nat
    OBVIOUS
  <2>2. k # 0 => k - 1 \in D /\ k - 1 < n /\ k \in 1..Len(is)
    BY <1>0, <2>1
  <2>3. k # 0 => sum[k - 1] \in Nat /\ is[k].length \in Nat
    BY <2>2, <1>9, <1>0
  <2>4. SumNext(is, sum, k) \in Nat
    BY <2>3 DEF SumNext
  <2> QED
    BY <2>4, <1>6
<1>10. Len(is) + 1 \in Numbers
  <2> HIDE DEF Numbers
  <2> QED
    BY <1>0, <1>8, <1>9, ByInduction
<1>11. \A k \in D : sum[k] \in Nat
  BY <1>10, <1>0
<1> QED
  BY <1>6, <1>7, <1>11

LEMMA SumsAtZero ==
  ASSUME NEW is \in Seq(Instructions)
  PROVE  Sums(is)[0] = 0
<1>1. 0 \in 0..Len(is)
  OBVIOUS
<1>2. Sums(is)[0] = SumNext(is, Sums(is), 0)
  BY <1>1, SumsDefined
<1> QED
  BY <1>2 DEF SumNext

(* Another instruction behind leaves the sums as they are, and adds its own length. *)
LEMMA SumsOfMore ==
  ASSUME NEW is \in Seq(Instructions), NEW i \in Instructions
  PROVE  /\ \A k \in 0..Len(is) : Sums(Append(is, i))[k] = Sums(is)[k]
         /\ Sums(Append(is, i))[Len(is) + 1] = Sums(is)[Len(is)] + i.length
<1> DEFINE more == Append(is, i)
           a == Sums(is)
           b == Sums(more)
           Same == {n \in Nat : n \in 0..Len(is) => b[n] = a[n]}
<1>1. /\ more \in Seq(Instructions) /\ Len(more) = Len(is) + 1 /\ Len(is) \in Nat
      /\ \A k \in 1..Len(is) : more[k] = is[k]
      /\ more[Len(is) + 1] = i
  OBVIOUS
<1>2. \A k \in 0..Len(is) : a[k] = SumNext(is, a, k)
  BY SumsDefined
<1> HIDE DEF more
<1>3. \A k \in 0..Len(is) + 1 : b[k] = SumNext(more, b, k)
  BY <1>1, SumsDefined
<1> HIDE DEF a, b
<1>4. 0 \in Same
  BY <1>1, <1>2, <1>3 DEF SumNext
<1>5. ASSUME NEW n \in Nat, n \in Same
      PROVE  n + 1 \in Same
  <2> SUFFICES ASSUME n + 1 \in 0..Len(is)
               PROVE  b[n + 1] = a[n + 1]
    OBVIOUS
  <2>1. n \in 0..Len(is) /\ n + 1 \in 1..Len(is) /\ n + 1 \in 0..Len(is) + 1 /\ (n + 1) - 1 = n /\ n + 1 # 0
    BY <1>1
  <2>2. b[n] = a[n] /\ more[n + 1] = is[n + 1]
    BY <1>1, <1>5, <2>1
  <2>3. a[n + 1] = a[n] + is[n + 1].length
    BY <1>2, <2>1 DEF SumNext
  <2>4. b[n + 1] = b[n] + more[n + 1].length
    BY <1>3, <2>1 DEF SumNext
  <2> QED
    BY <2>2, <2>3, <2>4
<1>6. Nat \subseteq Same
  <2> HIDE DEF Same
  <2> QED
    BY <1>4, <1>5, ByInduction
<1>7. \A k \in 0..Len(is) : b[k] = a[k]
  BY <1>1, <1>6
<1>8. b[Len(is) + 1] = a[Len(is)] + i.length
  <2>1. Len(is) + 1 \in 0..Len(is) + 1 /\ Len(is) \in 0..Len(is) /\ (Len(is) + 1) - 1 = Len(is) /\ Len(is) + 1 # 0
    BY <1>1
  <2>2. b[Len(is) + 1] = b[Len(is)] + more[Len(is) + 1].length
    BY <1>3, <2>1 DEF SumNext
  <2> QED
    BY <1>1, <1>7, <2>1, <2>2
<1> QED
  BY <1>7, <1>8 DEF a, b, more

-----------------------------------------------------------------------------
(* The arithmetic of the immediates. *)

LEMMA BuildType ==
  ASSUME NEW b \in Builds
  PROVE  /\ b.first \cup b.next \subseteq Instructions
         /\ b.code \in Nat /\ b.bases \subseteq Nat \ {0}
         /\ b.jumpSize \in Nat \ {0} /\ b.page \in Nat \ {0}
         /\ b.reach \in Nat \ {0} /\ b.reach % 4 = 0
<1>1. b.reach \in 1..MaxReach
  BY BuildsAssumption
<1> QED
  BY <1>1, BuildsAssumption

LEMMA SignExtendKeeps ==
  ASSUME NEW v \in Int, NEW r \in Nat \ {0}
  PROVE  /\ SignExtend(v, r) \in -r..r - 1
         /\ v \in -r..r - 1 => SignExtend(v, r) = v
<1>1. 2 * r \in Nat \ {0} /\ v + r \in Int
  OBVIOUS
<1>2. (v + r) % (2 * r) \in 0..2 * r - 1
  BY <1>1
<1>3. v \in -r..r - 1 => (v + r) % (2 * r) = v + r
  OBVIOUS
<1> QED
  BY <1>1, <1>2, <1>3 DEF SignExtend

LEMMA QuarterOf ==
  ASSUME NEW d \in Int, NEW r \in Nat \ {0}, r % 4 = 0, d % 4 = 0, d \in -r..r - 4
  PROVE  /\ r \div 4 \in Nat \ {0} /\ r \div 4 <= r
         /\ d \div 4 \in -(r \div 4)..(r \div 4) - 1 /\ 4 * (d \div 4) = d
OBVIOUS

(* A distance between pages is a number of pages. *)
LEMMA PagesBetween ==
  ASSUME NEW p \in Nat \ {0}, NEW a \in Int, NEW c \in Int, NEW o \in Int
  PROVE  LET d == (a - (a % p) + o * p - (c - (c % p)))
         IN d \div p \in Int /\ (d \div p) * p = d
<1>1. a % p \in Int /\ c % p \in Int
  OBVIOUS
<1>2. PICK m \in Int : a - (a % p) = m * p
  OBVIOUS
<1>3. PICK n \in Int : c - (c % p) = n * p
  OBVIOUS
<1>4. m * p + o * p - n * p = (m + o - n) * p
  OBVIOUS
<1>5. m + o - n \in Int
  OBVIOUS
<1>6. ((m + o - n) * p) \div p = m + o - n
  BY <1>5
<1> QED
  BY <1>2, <1>3, <1>4, <1>5, <1>6

-----------------------------------------------------------------------------
(* inline_hook.cpp: the invariant of install(). *)

Phases == {"measure", "relocate", "installed", "refused"}

Lies(is) == \A n \in 1..Len(is) : is[n] \in build.first \cup build.next /\ ~Refused(is[n])

Typed ==
  /\ build \in Builds /\ phase \in Phases
  /\ instructions \in Seq(Instructions) /\ Lies(instructions) /\ displaced \in Nat
  /\ base \in build.bases \cup {0}
  /\ trampoline \in Seq(Instructions) /\ Len(trampoline) <= Len(instructions)

(* Up to the last instruction the jump did not fit. *)
Measured ==
  /\ displaced = Sums(instructions)[Len(instructions)]
  /\ Len(instructions) # 0 => Sums(instructions)[Len(instructions) - 1] < build.jumpSize
  /\ phase \in {"relocate", "installed"} => displaced >= build.jumpSize

(* Memory is mapped from the allocation on, until it is given back. *)
Mapped ==
  /\ phase \in {"measure", "refused"} => base = 0 /\ trampoline = << >>
  /\ phase \in {"relocate", "installed"} => base \in build.bases

Delta(n) == Rebased(instructions[n], build.code + Offset(n), base + Offset(n))

Copied ==
  \A n \in 1..Len(trampoline) :
    Fits(instructions[n], Delta(n)) /\ trampoline[n] = Encoded(instructions[n], Delta(n))

Inv == Typed /\ Measured /\ Mapped /\ Copied

LEMMA RebasedType ==
  ASSUME build \in Builds, NEW i \in Instructions, NEW from \in Int, NEW to \in Int
  PROVE  Rebased(i, from, to) \in Int
<1>1. build.page \in Nat \ {0} /\ i.offset \in Int
  BY BuildType DEF Instructions
<1>2. i.operand = "adrp" => Rebased(i, from, to) \in Int
  BY <1>1, PagesBetween DEF Rebased, PageOf
<1>3. i.operand \in {"rip", "adr", "ldr"} => Rebased(i, from, to) \in Int
  BY <1>1 DEF Rebased
<1>4. i.operand \notin {"adrp", "rip", "adr", "ldr"} => Rebased(i, from, to) = 0
  BY DEF Rebased
<1> QED
  BY <1>2, <1>3, <1>4

(* What fits is written whole. *)
LEMMA EncodedOffset ==
  ASSUME build \in Builds, NEW i \in Instructions, NEW d \in Int, Fits(i, d)
  PROVE  /\ Encoded(i, d) \in Instructions
         /\ Encoded(i, d).real = i.real
         /\ Encoded(i, d).offset \in -build.reach..build.reach - 1
         /\ i.operand = "ldr" => 4 * Encoded(i, d).offset = d
         /\ i.operand # "ldr" => Encoded(i, d).offset = d
<1> DEFINE o == IF i.operand = "ldr" THEN SignExtend(d \div 4, build.reach \div 4)
                                     ELSE SignExtend(d, build.reach)
<1>1. build.reach \in Nat \ {0} /\ build.reach % 4 = 0
  BY BuildType
<1>2. CASE i.operand = "ldr"
  <2>1. d % 4 = 0 /\ d \in -build.reach..build.reach - 4
    BY <1>2 DEF Fits
  <2>2. /\ build.reach \div 4 \in Nat \ {0} /\ build.reach \div 4 <= build.reach
        /\ d \div 4 \in -(build.reach \div 4)..(build.reach \div 4) - 1 /\ 4 * (d \div 4) = d
    BY <1>1, <2>1, QuarterOf
  <2>3. d \div 4 \in Int
    BY <2>2
  <2>4. SignExtend(d \div 4, build.reach \div 4) = d \div 4
    BY <2>2, <2>3, SignExtendKeeps
  <2>5. o = d \div 4 /\ o \in -build.reach..build.reach - 1
    BY <1>1, <1>2, <2>2, <2>4
  <2>6. Encoded(i, d) = [i EXCEPT !.offset = o]
    BY DEF Encoded
  <2> HIDE DEF o
  <2>7. Encoded(i, d) \in Instructions /\ Encoded(i, d).real = i.real /\ Encoded(i, d).offset = o
    BY <2>5, <2>6, <1>1 DEF Instructions
  <2> QED
    BY <1>2, <2>2, <2>5, <2>7
<1>3. CASE i.operand # "ldr"
  <2>1. d \in -build.reach..build.reach - 1
    BY <1>3 DEF Fits
  <2>2. o = d
    BY <1>1, <1>3, <2>1, SignExtendKeeps
  <2>3. Encoded(i, d) = [i EXCEPT !.offset = o]
    BY DEF Encoded
  <2> HIDE DEF o
  <2>4. Encoded(i, d) \in Instructions /\ Encoded(i, d).real = i.real /\ Encoded(i, d).offset = d
    BY <2>2, <2>3 DEF Instructions
  <2> QED
    BY <1>3, <2>1, <2>4
<1> QED
  BY <1>2, <1>3

LEMMA OffsetType ==
  ASSUME Typed, NEW n \in 1..Len(instructions) + 1
  PROVE  Offset(n) \in Nat
<1>1. n - 1 \in 0..Len(instructions) /\ instructions \in Seq(Instructions)
  BY DEF Typed
<1> QED
  BY <1>1, OffsetIsSum, SumsDefined

LEMMA InitInv == Init => Inv
<1> SUFFICES ASSUME Init
             PROVE  Inv
  OBVIOUS
<1> USE DEF Init
<1>1. instructions \in Seq(Instructions) /\ trampoline \in Seq(Instructions)
  BY EmptySeq
<1>2. Len(instructions) = 0 /\ Len(trampoline) = 0
  OBVIOUS
<1>3. Typed
  BY <1>1, <1>2 DEF Typed, Lies, Phases
<1>4. Sums(instructions)[0] = 0
  BY <1>1, SumsAtZero
<1>5. Measured
  BY <1>2, <1>4 DEF Measured
<1>6. Mapped /\ Copied
  BY <1>2 DEF Mapped, Copied
<1> QED
  BY <1>3, <1>5, <1>6 DEF Inv

LEMMA MeasureKeeps ==
  ASSUME Inv, Measure
  PROVE  Inv'
<1>1. /\ phase = "measure" /\ displaced < build.jumpSize
      /\ UNCHANGED <<build, base, trampoline>> /\ base = 0 /\ trampoline = << >>
  BY DEF Inv, Mapped, Measure
<1>2. /\ build \in Builds /\ instructions \in Seq(Instructions) /\ Lies(instructions) /\ displaced \in Nat
      /\ Len(instructions) \in Nat
  BY DEF Inv, Typed
<1>3. PICK i \in IF instructions = <<>> THEN build.first ELSE build.next :
        IF Refused(i)
        THEN phase' = "refused" /\ UNCHANGED <<instructions, displaced>>
        ELSE /\ instructions' = Append(instructions, i)
             /\ displaced' = displaced + i.length
             /\ UNCHANGED phase
  BY DEF Measure
<1>4. i \in build.first \cup build.next /\ i \in Instructions
  <2>1. i \in build.first \cup build.next
    BY <1>3
  <2> QED
    BY <1>2, <2>1, BuildType
<1>5. CASE Refused(i)
  <2>1. phase' = "refused" /\ UNCHANGED <<instructions, displaced>>
    BY <1>3, <1>5
  <2>2. Typed'
    BY <1>1, <2>1 DEF Inv, Typed, Lies, Refused, Phases
  <2>3. Measured' /\ Mapped' /\ Copied'
    BY <1>1, <2>1 DEF Inv, Measured, Mapped, Copied
  <2> QED
    BY <2>2, <2>3 DEF Inv
<1>6. CASE ~Refused(i)
  <2>1. instructions' = Append(instructions, i) /\ displaced' = displaced + i.length /\ phase' = phase
    BY <1>3, <1>6
  <2>2. /\ instructions' \in Seq(Instructions) /\ Len(instructions') = Len(instructions) + 1
        /\ \A n \in 1..Len(instructions) : instructions'[n] = instructions[n]
        /\ instructions'[Len(instructions) + 1] = i
    BY <1>2, <1>4, <2>1
  <2>3. \A n \in 1..Len(instructions') : n \in 1..Len(instructions) \/ n = Len(instructions) + 1
    BY <1>2, <2>2
  <2>4. Lies(instructions)'
    BY <1>1, <1>2, <1>4, <1>6, <2>2, <2>3 DEF Lies, Refused
  <2>5. i.length \in Nat
    BY <1>4 DEF Instructions
  <2>6. Typed'
    BY <1>1, <1>2, <2>1, <2>2, <2>4, <2>5 DEF Inv, Typed, Phases
  <2>7. /\ Sums(instructions')[Len(instructions)] = Sums(instructions)[Len(instructions)]
        /\ Sums(instructions')[Len(instructions) + 1] = Sums(instructions)[Len(instructions)] + i.length
    BY <1>2, <1>4, <2>1, SumsOfMore
  <2>8. displaced = Sums(instructions)[Len(instructions)]
    BY DEF Inv, Measured
  <2>9. Len(instructions') - 1 = Len(instructions)
    BY <1>2, <2>2
  <2>10. Measured'
    BY <1>1, <2>1, <2>2, <2>7, <2>8, <2>9 DEF Measured
  <2>11. Mapped' /\ Copied'
    BY <1>1, <2>1 DEF Mapped, Copied
  <2> QED
    BY <2>6, <2>10, <2>11 DEF Inv
<1> QED
  BY <1>5, <1>6

LEMMA RelocateKeeps ==
  ASSUME Inv, Relocate
  PROVE  Inv'
<1> DEFINE n == Len(trampoline) + 1
           i == instructions[n]
           d == Delta(n)
<1>1. /\ phase = "relocate" /\ UNCHANGED <<build, instructions, displaced>>
      /\ Len(trampoline) < Len(instructions)
      /\ IF Fits(i, d)
         THEN trampoline' = Append(trampoline, Encoded(i, d)) /\ UNCHANGED <<phase, base>>
         ELSE phase' = "refused" /\ Unmap
  BY DEF Relocate, Delta
<1>2. /\ Typed /\ build \in Builds /\ instructions \in Seq(Instructions) /\ Len(instructions) \in Nat
      /\ trampoline \in Seq(Instructions) /\ Len(trampoline) \in Nat
      /\ base \in build.bases /\ base \in Nat
  <2>1. Typed /\ base \in build.bases
    BY <1>1 DEF Inv, Mapped
  <2> QED
    BY <2>1, BuildType DEF Typed
<1>3. n \in 1..Len(instructions) /\ i \in Instructions /\ n \in 1..Len(instructions) + 1
  <2>1. n \in 1..Len(instructions) /\ n \in 1..Len(instructions) + 1
    BY <1>1, <1>2
  <2> QED
    BY <1>2, <2>1
<1>4. d \in Int
  <2>1. Offset(n) \in Nat /\ build.code \in Nat
    BY <1>2, <1>3, OffsetType, BuildType
  <2>2. build.code + Offset(n) \in Int /\ base + Offset(n) \in Int
    BY <1>2, <2>1
  <2> QED
    BY <1>2, <1>3, <2>2, RebasedType DEF Delta
<1>5. \A k : Delta(k)' = Rebased(instructions[k], build.code + Offset(k), base' + Offset(k))
  <2>1. \A k : Offset(k)' = Offset(k)
    BY <1>1 DEF Offset
  <2> QED
    BY <1>1, <2>1 DEF Delta, Rebased, PageOf
<1>6. CASE Fits(i, d)
  <2>1. trampoline' = Append(trampoline, Encoded(i, d)) /\ phase' = phase /\ base' = base
    BY <1>1, <1>6
  <2>2. Encoded(i, d) \in Instructions
    BY <1>2, <1>3, <1>4, <1>6, EncodedOffset
  <2> HIDE DEF d, i
  <2>3. /\ trampoline' \in Seq(Instructions) /\ Len(trampoline') = n
        /\ \A k \in 1..Len(trampoline) : trampoline'[k] = trampoline[k]
        /\ trampoline'[n] = Encoded(i, d)
    BY <1>2, <2>1, <2>2
  <2>4. Typed'
    BY <1>1, <1>2, <1>3, <2>1, <2>3 DEF Typed, Lies, Refused
  <2>5. Measured' /\ Mapped'
    BY <1>1, <2>1 DEF Inv, Measured, Mapped
  <2>6. \A k : Delta(k)' = Delta(k)
    BY <1>5, <2>1 DEF Delta
  <2>7. \A k \in 1..n : k \in 1..Len(trampoline) \/ k = n
    BY <1>2
  <2>8. ASSUME NEW k \in 1..n
        PROVE  Fits(instructions[k], Delta(k)) /\ trampoline'[k] = Encoded(instructions[k], Delta(k))
    <3>1. CASE k \in 1..Len(trampoline)
      BY <2>3, <3>1 DEF Inv, Copied
    <3>2. CASE k = n
      BY <1>6, <2>3, <3>2 DEF i, d
    <3> QED
      BY <2>7, <3>1, <3>2
  <2>9. \A k : \A e : /\ Fits(k, e)' <=> Fits(k, e)
                      /\ Encoded(k, e)' = Encoded(k, e)
    BY <1>1 DEF Fits, Encoded
  <2>10. Copied'
    BY <1>1, <2>3, <2>6, <2>8, <2>9 DEF Copied
  <2> QED
    BY <2>4, <2>5, <2>10 DEF Inv
<1>7. CASE ~Fits(i, d)
  <2>1. phase' = "refused" /\ base' = 0 /\ trampoline' = << >>
    BY <1>1, <1>7 DEF Unmap
  <2>2. Len(trampoline') = 0 /\ trampoline' \in Seq(Instructions)
    BY <2>1, EmptySeq
  <2>3. Typed'
    BY <1>1, <1>2, <2>1, <2>2 DEF Typed, Lies, Refused, Phases
  <2>4. Measured' /\ Mapped' /\ Copied'
    BY <1>1, <2>1, <2>2 DEF Inv, Measured, Mapped, Copied
  <2> QED
    BY <2>3, <2>4 DEF Inv
<1> QED
  BY <1>6, <1>7

(* A step that at most maps the trampoline, unmaps it or ends the matter. *)
LEMMA OtherwiseKeeps ==
  ASSUME Inv, Allocate \/ Patch \/ UNCHANGED vars
  PROVE  Inv'
<1>1. /\ UNCHANGED <<build, instructions, displaced>>
      /\ \/ UNCHANGED <<base, trampoline, phase>>
         \/ UNCHANGED <<base, trampoline>> /\ phase = "relocate" /\ phase' = "installed"
         \/ base' = 0 /\ trampoline' = << >> /\ phase' = "refused"
         \/ /\ base' \in build.bases /\ trampoline' = trampoline /\ trampoline = << >>
            /\ phase' = "relocate" /\ displaced >= build.jumpSize
  <2>1. CASE Allocate
    <3>1. phase = "measure" /\ displaced >= build.jumpSize /\ trampoline = << >> /\ trampoline' = trampoline
      BY <2>1 DEF Allocate, Inv, Mapped
    <3>2. UNCHANGED <<build, instructions, displaced>>
      BY <2>1 DEF Allocate
    <3>3. \/ base' \in build.bases /\ phase' = "relocate"
          \/ base' = 0 /\ phase' = "refused"
      BY <2>1 DEF Allocate
    <3> QED
      BY <3>1, <3>2, <3>3
  <2>2. CASE Patch
    BY <2>2 DEF Patch, Unmap
  <2>3. CASE UNCHANGED vars
    BY <2>3 DEF vars
  <2> QED
    BY <2>1, <2>2, <2>3
<1>2. Lies(instructions)' <=> Lies(instructions)
  BY <1>1 DEF Lies, Refused
<1>3. \A k : \A e : /\ Fits(k, e)' <=> Fits(k, e)
                    /\ Encoded(k, e)' = Encoded(k, e)
  BY <1>1 DEF Fits, Encoded
<1>4. \A k : Offset(k)' = Offset(k)
  BY <1>1 DEF Offset
<1>5. \A k : base' = base => Delta(k)' = Delta(k)
  BY <1>1, <1>4 DEF Delta, Rebased, PageOf
<1>6. Len(<< >>) = 0 /\ << >> \in Seq(Instructions) /\ Len(instructions) \in Nat
  BY EmptySeq DEF Inv, Typed
<1>7. Typed'
  <2>1. build' \in Builds /\ instructions' \in Seq(Instructions) /\ Lies(instructions)' /\ displaced' \in Nat
    BY <1>1, <1>2 DEF Inv, Typed
  <2>2. phase' \in Phases
    BY <1>1 DEF Inv, Typed, Phases
  <2>3. base' \in build'.bases \cup {0}
    BY <1>1 DEF Inv, Typed
  <2>4. trampoline' \in Seq(Instructions) /\ Len(trampoline') <= Len(instructions')
    <3>1. CASE trampoline' = trampoline
      BY <1>1, <3>1 DEF Inv, Typed
    <3>2. CASE trampoline' = << >>
      BY <1>1, <1>6, <3>2
    <3> QED
      BY <1>1, <3>1, <3>2
  <2> QED
    BY <2>1, <2>2, <2>3, <2>4 DEF Typed
<1>8. Measured'
  BY <1>1 DEF Inv, Measured
<1>9. Mapped'
  BY <1>1 DEF Inv, Mapped
<1>10. Copied'
  <2>1. CASE base' = base /\ trampoline' = trampoline
    BY <1>1, <1>3, <1>5, <2>1 DEF Inv, Copied
  <2>2. CASE trampoline' = << >>
    BY <1>6, <2>2 DEF Copied
  <2> QED
    BY <1>1, <2>1, <2>2
<1> QED
  BY <1>7, <1>8, <1>9, <1>10 DEF Inv

LEMMA Invariant == Spec => []Inv
<1>1. Inv /\ [Next]_vars => Inv'
  BY MeasureKeeps, RelocateKeeps, OtherwiseKeeps DEF Next
<1> QED
  BY <1>1, InitInv, PTL DEF Spec

-----------------------------------------------------------------------------
(* Type correctness; an immediate that was written lies in its field. *)

LEMMA CopyFits ==
  ASSUME Inv, NEW n \in 1..Len(trampoline)
  PROVE  /\ n \in 1..Len(instructions) /\ instructions[n] \in Instructions
         /\ ~Refused(instructions[n])
         /\ base \in Int /\ build.code \in Int /\ Offset(n) \in Int /\ Delta(n) \in Int
         /\ Fits(instructions[n], Delta(n))
         /\ trampoline[n] = Encoded(instructions[n], Delta(n))
<1>1. /\ build \in Builds /\ instructions \in Seq(Instructions) /\ Lies(instructions)
      /\ Len(instructions) \in Nat /\ Len(trampoline) \in Nat /\ Len(trampoline) <= Len(instructions)
      /\ base \in build.bases \cup {0}
  BY DEF Inv, Typed
<1>2. n \in 1..Len(instructions) /\ n \in 1..Len(instructions) + 1
  BY <1>1
<1>3. instructions[n] \in Instructions /\ ~Refused(instructions[n])
  BY <1>1, <1>2 DEF Lies
<1>4. base \in Int /\ build.code \in Int
  BY <1>1, BuildType
<1>5. Offset(n) \in Int
  <2>1. Typed
    BY DEF Inv
  <2>2. Offset(n) \in Nat
    BY <1>2, <2>1, OffsetType
  <2> QED
    BY <2>2
<1>6. Delta(n) \in Int
  <2>1. build.code + Offset(n) \in Int /\ base + Offset(n) \in Int
    BY <1>4, <1>5
  <2> QED
    BY <1>1, <1>3, <2>1, RebasedType DEF Delta
<1>7. Fits(instructions[n], Delta(n)) /\ trampoline[n] = Encoded(instructions[n], Delta(n))
  BY DEF Inv, Copied
<1> QED
  BY <1>2, <1>3, <1>4, <1>5, <1>6, <1>7

THEOREM TypeCorrect == Spec => []TypeOK
<1>1. Inv => TypeOK
  <2> SUFFICES ASSUME Inv
               PROVE  TypeOK
    OBVIOUS
  <2>1. /\ build \in Builds /\ phase \in Phases /\ displaced \in Nat
        /\ instructions \in Seq(Instructions) /\ trampoline \in Seq(Instructions)
        /\ base \in build.bases \cup {0} /\ Len(trampoline) <= Len(instructions)
    BY DEF Inv, Typed
  <2>2. \A n \in DOMAIN instructions : instructions[n] \in Instructions
    BY <2>1
  <2>3. ASSUME NEW n \in DOMAIN trampoline
        PROVE  trampoline[n].offset \in -build.reach..build.reach - 1
    <3>1. n \in 1..Len(trampoline)
      BY <2>1
    <3> QED
      BY <2>1, <3>1, CopyFits, EncodedOffset
  <2> QED
    BY <2>1, <2>2, <2>3 DEF TypeOK, Phases
<1> QED
  BY <1>1, Invariant, PTL

(* A refused hook leaves no trampoline mapped, and an installed one has its own. *)
THEOREM ARefusalLeavesNothing == Spec => []NothingLeaks
<1>1. Inv => NothingLeaks
  <2> SUFFICES ASSUME Inv
               PROVE  NothingLeaks
    OBVIOUS
  <2>1. build \in Builds /\ Mapped
    BY DEF Inv, Typed
  <2>2. build.bases \subseteq Nat \ {0}
    BY <2>1, BuildType
  <2> QED
    BY <2>1, <2>2 DEF NothingLeaks, Mapped
<1> QED
  BY <1>1, Invariant, PTL

-----------------------------------------------------------------------------
(* The decoder, as far as the rest depends on it: of what is not refused it
   measures exactly the charted instructions right, it lets no branch through, and
   it knows what a charted one's operand is and where it lies. *)
RightlyDecoded(i) ==
  ~Refused(i) =>
    /\ i.length = i.real.length <=> i.charted
    /\ i.real.operand # "branch"
    /\ i.charted => /\ i.operand = i.real.operand /\ i.at = i.real.at
                    /\ i.operand = "none" => i.offset = 0

DecodedRight == \A b \in Builds : \A i \in b.first \cup b.next : RightlyDecoded(i)

LEMMA MovedRight ==
  ASSUME DecodedRight, Inv, NEW n \in 1..Len(instructions)
  PROVE  LET i == instructions[n]
         IN /\ ~Refused(i)
            /\ i.length = i.real.length <=> i.charted
            /\ i.real.operand # "branch"
            /\ i.charted => /\ i.operand = i.real.operand /\ i.at = i.real.at
                            /\ i.operand = "none" => i.offset = 0
<1>1. build \in Builds /\ Lies(instructions)
  BY DEF Inv, Typed
<1>2. instructions[n] \in build.first \cup build.next /\ ~Refused(instructions[n])
  BY <1>1 DEF Lies
<1> QED
  BY <1>1, <1>2 DEF DecodedRight, RightlyDecoded

(* The jump covers whole instructions and not one more than it must, up to the
   boundary the trampoline jumps back to. *)
THEOREM WholeInstructionsMove ==
  ASSUME DecodedRight
  PROVE  Spec => []WholeInstructions
<1>1. Inv => WholeInstructions
  <2> SUFFICES ASSUME Inv, phase = "installed"
               PROVE  /\ displaced >= build.jumpSize /\ Offset(Len(instructions)) < build.jumpSize
                      /\ displaced = Offset(Len(instructions) + 1)
                      /\ \A n \in DOMAIN instructions :
                           /\ instructions[n].length = instructions[n].real.length
                                <=> instructions[n].charted
                           /\ instructions[n].real.operand # "branch"
    BY DEF WholeInstructions
  <2>1. /\ build \in Builds /\ instructions \in Seq(Instructions) /\ Len(instructions) \in Nat
        /\ displaced = Sums(instructions)[Len(instructions)] /\ displaced >= build.jumpSize
        /\ Len(instructions) # 0 => Sums(instructions)[Len(instructions) - 1] < build.jumpSize
    BY DEF Inv, Typed, Measured
  <2>2. build.jumpSize \in Nat \ {0}
    BY <2>1, BuildType
  <2>3. Sums(instructions)[0] = 0
    BY <2>1, SumsAtZero
  <2>4. Len(instructions) # 0
    BY <2>1, <2>2, <2>3
  <2>5. Offset(Len(instructions)) < build.jumpSize
    BY <2>1, <2>4, OffsetIsSum
  <2>6. displaced = Offset(Len(instructions) + 1)
    <3>1. (Len(instructions) + 1) - 1 = Len(instructions)
      BY <2>1
    <3> QED
      BY <2>1, <3>1, OffsetIsSum
  <2>7. DOMAIN instructions = 1..Len(instructions)
    BY <2>1
  <2> QED
    BY <2>1, <2>5, <2>6, <2>7, MovedRight
<1> QED
  BY <1>1, Invariant, PTL

(* The immediate that fits is the one that means the same at the new address. *)
LEMMA SameMeaning ==
  ASSUME build \in Builds, NEW i \in Instructions, NEW from \in Int, NEW to \in Int,
         ~Refused(i), i.operand = i.real.operand, i.operand = "none" => i.offset = 0,
         Fits(i, Rebased(i, from, to))
  PROVE  Meaning(Encoded(i, Rebased(i, from, to)), to) = Meaning(i, from)
<1> DEFINE d == Rebased(i, from, to)
           e == Encoded(i, d)
<1>1. d \in Int
  BY RebasedType
<1>2. /\ e.real = i.real /\ e.offset \in -build.reach..build.reach - 1
      /\ i.operand = "ldr" => 4 * e.offset = d
      /\ i.operand # "ldr" => e.offset = d
  BY <1>1, EncodedOffset
<1>3. i.offset \in Int /\ build.page \in Nat \ {0} /\ build.reach \in Nat
  BY BuildType DEF Instructions
<1>4. e.offset \in Int
  BY <1>2, <1>3
<1>5. i.operand \in {"none", "rip", "adr", "adrp", "ldr"}
  BY DEF Refused, Instructions, OperandKinds
<1>6. CASE i.operand \in {"rip", "adr"}
  <2>1. d = from + i.offset - to
    BY <1>6 DEF Rebased
  <2>2. Meaning(e, to) = to + e.offset /\ Meaning(i, from) = from + i.offset
    BY <1>2, <1>6 DEF Meaning
  <2> QED
    BY <1>2, <1>3, <1>6, <2>1, <2>2
<1>7. CASE i.operand = "adrp"
  <2>1. d = (from - (from % build.page) + i.offset * build.page - (to - (to % build.page)))
              \div build.page
    BY <1>7 DEF Rebased, PageOf
  <2>2. d * build.page
          = from - (from % build.page) + i.offset * build.page - (to - (to % build.page))
    <3> DEFINE p == build.page
               o == i.offset
    <3>1. p \in Nat \ {0} /\ o \in Int
      BY <1>3
    <3>2. d = (from - (from % p) + o * p - (to - (to % p))) \div p
      BY <2>1
    <3> SUFFICES d * p = from - (from % p) + o * p - (to - (to % p))
      OBVIOUS
    <3> HIDE DEF d, p, o
    <3> QED
      BY <3>1, <3>2, PagesBetween
  <2>3. /\ Meaning(e, to) = to - (to % build.page) + e.offset * build.page
        /\ Meaning(i, from) = from - (from % build.page) + i.offset * build.page
    BY <1>2, <1>7 DEF Meaning, PageOf
  <2>4. e.offset = d
    BY <1>2, <1>7
  <2>5. to % build.page \in Int /\ from % build.page \in Int /\ i.offset * build.page \in Int
    BY <1>3
  <2>6. e.offset * build.page = d * build.page
    BY <2>4
  <2> DEFINE moved == Meaning(e, to)
             meant == Meaning(i, from)
             there == to % build.page
             here  == from % build.page
             pages == i.offset * build.page
  <2>7. moved = to - there + (from - here + pages - (to - there))
    BY <2>2, <2>3, <2>6
  <2>8. meant = from - here + pages /\ there \in Int /\ here \in Int /\ pages \in Int
    BY <2>3, <2>5
  <2> SUFFICES moved = meant
    OBVIOUS
  <2> HIDE DEF moved, meant, there, here, pages
  <2> QED
    BY <2>7, <2>8
<1>8. CASE i.operand = "ldr"
  <2>1. d = from + i.offset * 4 - to
    BY <1>8 DEF Rebased
  <2>2. Meaning(e, to) = to + 4 * e.offset /\ Meaning(i, from) = from + 4 * i.offset
    BY <1>2, <1>8 DEF Meaning
  <2> QED
    BY <1>2, <1>3, <1>4, <1>8, <2>1, <2>2
<1>9. CASE i.operand = "none"
  <2>1. d = 0
    BY <1>9 DEF Rebased
  <2>2. Meaning(e, to) = e.offset /\ Meaning(i, from) = i.offset
    BY <1>2, <1>9 DEF Meaning
  <2> QED
    BY <1>2, <1>9, <2>1, <2>2
<1> QED
  BY <1>5, <1>6, <1>7, <1>8, <1>9

(* Every copy names the address the original named, wherever mmap put it. *)
THEOREM CopiesMeanTheSame ==
  ASSUME DecodedRight
  PROVE  Spec => []OperandsKept
<1>1. Inv => OperandsKept
  <2> SUFFICES ASSUME Inv, NEW n \in DOMAIN trampoline, instructions[n].charted
               PROVE  /\ Meaning(trampoline[n], base + Offset(n))
                           = Meaning(instructions[n], build.code + Offset(n))
                      /\ instructions[n].at = instructions[n].real.at
    BY DEF OperandsKept
  <2>1. n \in 1..Len(trampoline) /\ build \in Builds
    BY DEF Inv, Typed
  <2>2. /\ n \in 1..Len(instructions) /\ instructions[n] \in Instructions
        /\ base \in Int /\ build.code \in Int /\ Offset(n) \in Int
        /\ Fits(instructions[n], Delta(n)) /\ trampoline[n] = Encoded(instructions[n], Delta(n))
    BY <2>1, CopyFits
  <2>3. /\ ~Refused(instructions[n])
        /\ instructions[n].operand = instructions[n].real.operand
        /\ instructions[n].at = instructions[n].real.at
        /\ instructions[n].operand = "none" => instructions[n].offset = 0
    BY <2>2, MovedRight
  <2>4. build.code + Offset(n) \in Int /\ base + Offset(n) \in Int
    BY <2>2
  <2> QED
    BY <2>1, <2>2, <2>3, <2>4, SameMeaning DEF Delta
<1> QED
  BY <1>1, Invariant, PTL

-----------------------------------------------------------------------------
(* decode() of inline_hook_x86_64.cpp is such a decoder.  Any instruction of the
   one-, two- and three-byte maps, behind any number of prefixes: *)
Opcodes ==
  {<<b>> : b \in Byte \ (Legacy \cup 64..79 \cup {\h0F})}
    \cup {<<\h0F, b>> : b \in Byte \ {\h38, \h3A}}
    \cup {<<\h0F, m, b>> : m \in {\h38, \h3A}, b \in Byte}

Fields ==
  [prefixes: Seq(Legacy), rex: {<< >>} \cup {<<r>> : r \in 64..79}, opcode: Opcodes,
   mod: 0..3, reg: 0..7, rm: 0..7, base: 0..7]

(* The ModRM byte. *)
ModRM(f) == 64 * f.mod + 8 * f.reg + f.rm

(* Where the pieces of the instruction lie. *)
LEMMA ConcatLies ==
  ASSUME NEW s \in Seq(Byte), NEW t \in Seq(Byte)
  PROVE  /\ s \o t \in Seq(Byte) /\ Len(s \o t) = Len(s) + Len(t)
         /\ \A i \in 1..Len(s) : (s \o t)[i] = s[i]
         /\ \A i \in 1..Len(t) : (s \o t)[Len(s) + i] = t[i]
<1>1. Len(s) \in Nat /\ Len(t) \in Nat
  OBVIOUS
<1>2. s \o t \in Seq(Byte) /\ Len(s \o t) = Len(s) + Len(t)
  OBVIOUS
<1>3. \A i \in 1..Len(s) : (s \o t)[i] = s[i]
  BY <1>1, ConcatProperties
<1>4. ASSUME NEW i \in 1..Len(t)
      PROVE  (s \o t)[Len(s) + i] = t[i]
  <2>1. Len(s) + i \in 1..Len(s) + Len(t) /\ ~(Len(s) + i <= Len(s)) /\ (Len(s) + i) - Len(s) = i
    BY <1>1
  <2>2. (s \o t)[Len(s) + i] = t[(Len(s) + i) - Len(s)]
    BY <2>1, ConcatProperties
  <2> QED
    BY <2>1, <2>2
<1> QED
  BY <1>2, <1>3, <1>4

LEMMA FieldsType ==
  ASSUME NEW f \in Fields
  PROVE  /\ f.prefixes \in Seq(Legacy) /\ f.prefixes \in Seq(Byte) /\ f.rex \in Seq(Byte) /\ f.opcode \in Seq(Byte)
         /\ Len(f.prefixes) \in Nat
         /\ f.mod \in 0..3 /\ f.reg \in 0..7 /\ f.rm \in 0..7 /\ f.base \in 0..7
<1>1. Legacy \subseteq Byte
  BY DEF Legacy, Byte
<1>2. f.prefixes \in Seq(Legacy) /\ f.rex \in {<< >>} \cup {<<r>> : r \in 64..79} /\ f.opcode \in Opcodes
  BY DEF Fields
<1>3. f.rex \in Seq(Byte)
  <2>1. \A r \in 64..79 : r \in Byte
    BY DEF Byte
  <2>2. << >> \in Seq(Byte) /\ \A r \in 64..79 : <<r>> \in Seq(Byte)
    BY <2>1
  <2> QED
    BY <1>2, <2>2
<1>4. f.opcode \in Seq(Byte)
  <2>1. \h0F \in Byte /\ \h38 \in Byte /\ \h3A \in Byte
    BY DEF Byte
  <2>2. /\ \A b \in Byte : <<b>> \in Seq(Byte) /\ <<\h0F, b>> \in Seq(Byte)
        /\ \A b \in Byte, m \in {\h38, \h3A} : <<\h0F, m, b>> \in Seq(Byte)
    BY <2>1
  <2>3. CASE f.opcode \in {<<b>> : b \in Byte \ (Legacy \cup 64..79 \cup {\h0F})}
    BY <2>2, <2>3
  <2>4. CASE f.opcode \in {<<\h0F, b>> : b \in Byte \ {\h38, \h3A}}
    BY <2>2, <2>4
  <2>5. CASE f.opcode \in {<<\h0F, m, b>> : m \in {\h38, \h3A}, b \in Byte}
    <3>1. PICK m \in {\h38, \h3A}, b \in Byte : f.opcode = <<\h0F, m, b>>
      BY <2>5
    <3> QED
      BY <2>2, <3>1
  <2> QED
    BY <1>2, <2>3, <2>4, <2>5 DEF Opcodes
<1>5. f.prefixes \in Seq(Byte)
  BY <1>1, <1>2
<1>6. f.mod \in 0..3 /\ f.reg \in 0..7 /\ f.rm \in 0..7 /\ f.base \in 0..7
  BY DEF Fields
<1>7. Len(f.prefixes) \in Nat
  BY <1>2
<1> QED
  BY <1>2, <1>3, <1>4, <1>5, <1>6, <1>7

(* s is p, x, c, m and z one behind another. *)
Laid(s, p, x, c, m, z) ==
  LET n == Len(p)
      r == n + Len(x)
      q == r + Len(c)
  IN /\ s \in Seq(Byte) /\ Len(s) = q + Len(m) + Len(z)
     /\ \A i \in 1..n : s[i] = p[i]
     /\ \A i \in 1..Len(x) : s[n + i] = x[i]
     /\ \A i \in 1..Len(c) : s[r + i] = c[i]
     /\ \A i \in 1..Len(m) : s[q + i] = m[i]

LEMMA PiecesLie ==
  ASSUME NEW p \in Seq(Byte), NEW x \in Seq(Byte), NEW c \in Seq(Byte),
         NEW m \in Seq(Byte), NEW z \in Seq(Byte), NEW s, s = p \o x \o c \o m \o z
  PROVE  Laid(s, p, x, c, m, z)
<1> DEFINE n == Len(p)
           r == n + Len(x)
           q == r + Len(c)
           u == q + Len(m)
           s2 == p \o x
           s3 == s2 \o c
           s4 == s3 \o m
           s5 == s4 \o z
<1>1. Len(p) \in Nat /\ Len(x) \in Nat /\ Len(c) \in Nat /\ Len(m) \in Nat /\ Len(z) \in Nat
  OBVIOUS
<1>2. /\ s2 \in Seq(Byte) /\ Len(s2) = r
      /\ \A i \in 1..n : s2[i] = p[i]
      /\ \A i \in 1..Len(x) : s2[n + i] = x[i]
  BY ConcatLies
<1> HIDE DEF s2
<1>3. /\ s3 \in Seq(Byte) /\ Len(s3) = q
      /\ \A i \in 1..r : s3[i] = s2[i]
      /\ \A i \in 1..Len(c) : s3[r + i] = c[i]
  <2>1. /\ s2 \o c \in Seq(Byte) /\ Len(s2 \o c) = Len(s2) + Len(c)
        /\ \A i \in 1..Len(s2) : (s2 \o c)[i] = s2[i]
        /\ \A i \in 1..Len(c) : (s2 \o c)[Len(s2) + i] = c[i]
    BY <1>2, ConcatLies
  <2> QED
    BY <1>2, <2>1
<1> HIDE DEF s3
<1>4. /\ s4 \in Seq(Byte) /\ Len(s4) = u
      /\ \A i \in 1..q : s4[i] = s3[i]
      /\ \A i \in 1..Len(m) : s4[q + i] = m[i]
  <2>1. /\ s3 \o m \in Seq(Byte) /\ Len(s3 \o m) = Len(s3) + Len(m)
        /\ \A i \in 1..Len(s3) : (s3 \o m)[i] = s3[i]
        /\ \A i \in 1..Len(m) : (s3 \o m)[Len(s3) + i] = m[i]
    BY <1>3, ConcatLies
  <2> QED
    BY <1>3, <2>1
<1> HIDE DEF s4
<1>5. /\ s5 \in Seq(Byte) /\ Len(s5) = u + Len(z)
      /\ \A i \in 1..u : s5[i] = s4[i]
  <2>1. /\ s4 \o z \in Seq(Byte) /\ Len(s4 \o z) = Len(s4) + Len(z)
        /\ \A i \in 1..Len(s4) : (s4 \o z)[i] = s4[i]
        /\ \A i \in 1..Len(z) : (s4 \o z)[Len(s4) + i] = z[i]
    BY <1>4, ConcatLies
  <2> QED
    BY <1>4, <2>1
<1>6. s = s5
  BY DEF s2, s3, s4
<1> HIDE DEF s5
<1>7. 1..n \subseteq 1..r /\ 1..r \subseteq 1..q /\ 1..q \subseteq 1..u
  BY <1>1
<1>8. /\ \A i \in 1..Len(x) : n + i \in 1..r
      /\ \A i \in 1..Len(c) : r + i \in 1..q
      /\ \A i \in 1..Len(m) : q + i \in 1..u
  BY <1>1
<1> HIDE DEF n, r, q, u
<1>9. \A i \in 1..q : s5[i] = s3[i]
  BY <1>4, <1>5, <1>7
<1>10. \A i \in 1..r : s5[i] = s2[i]
  BY <1>3, <1>7, <1>9
<1>11. \A i \in 1..n : s5[i] = p[i]
  BY <1>2, <1>7, <1>10
<1>12. \A i \in 1..Len(x) : s5[n + i] = x[i]
  BY <1>2, <1>8, <1>10
<1>13. \A i \in 1..Len(c) : s5[r + i] = c[i]
  BY <1>3, <1>8, <1>9
<1>14. \A i \in 1..Len(m) : s5[q + i] = m[i]
  BY <1>4, <1>5, <1>8
<1> QED
  BY <1>5, <1>6, <1>11, <1>12, <1>13, <1>14 DEF n, r, q, u, Laid

LEMMA BytesLie ==
  ASSUME NEW f \in Fields
  PROVE  LET n == Len(f.prefixes)
             r == n + Len(f.rex)
             q == r + Len(f.opcode)
         IN /\ Bytes(f) \in Seq(Byte) /\ Len(Bytes(f)) = q + 2 + 4
            /\ \A i \in 1..n : Bytes(f)[i] = f.prefixes[i]
            /\ \A i \in 1..Len(f.rex) : Bytes(f)[n + i] = f.rex[i]
            /\ \A i \in 1..Len(f.opcode) : Bytes(f)[r + i] = f.opcode[i]
            /\ Bytes(f)[q + 1] = ModRM(f) /\ Bytes(f)[q + 2] = f.base
<1> DEFINE p == f.prefixes
           x == f.rex
           c == f.opcode
           m == <<ModRM(f), f.base>>
           z == [i \in 1..4 |-> 0]
<1>0. p \in Seq(Byte) /\ x \in Seq(Byte) /\ c \in Seq(Byte)
  BY FieldsType
<1>1. m \in Seq(Byte) /\ Len(m) = 2 /\ m[1] = ModRM(f) /\ m[2] = f.base
  <2>1. ModRM(f) \in Byte /\ f.base \in Byte
    <3>1. f.mod \in 0..3 /\ f.reg \in 0..7 /\ f.rm \in 0..7 /\ f.base \in 0..7
      BY FieldsType
    <3> QED
      BY <3>1 DEF ModRM, Byte
  <2> QED
    BY <2>1
<1>2. z \in Seq(Byte) /\ Len(z) = 4
  <2>1. 0 \in Byte
    BY DEF Byte
  <2> QED
    BY <2>1
<1>3. Bytes(f) = p \o x \o c \o m \o z
  BY DEF Bytes, ModRM
<1> HIDE DEF p, x, c, m, z
<1> DEFINE s == Bytes(f)
<1>33. s = p \o x \o c \o m \o z
  BY <1>3
<1> HIDE DEF s
<1>4. Laid(s, p, x, c, m, z)
  BY <1>0, <1>1, <1>2, <1>33, PiecesLie
<1>5. 1 \in 1..Len(m) /\ 2 \in 1..Len(m)
  BY <1>1
<1>6. LET n == Len(p)
          r == n + Len(x)
          q == r + Len(c)
      IN /\ s \in Seq(Byte) /\ Len(s) = q + 2 + 4
         /\ \A i \in 1..n : s[i] = p[i]
         /\ \A i \in 1..Len(x) : s[n + i] = x[i]
         /\ \A i \in 1..Len(c) : s[r + i] = c[i]
         /\ s[q + 1] = ModRM(f) /\ s[q + 2] = f.base
  BY <1>1, <1>2, <1>4, <1>5 DEF Laid
<1> QED
  BY <1>6 DEF p, x, c, s

(* The scan over the prefixes ends at the first byte that is none. *)
LEMMA MinIs ==
  ASSUME NEW S, S \subseteq Int, NEW m \in S, \A y \in S : m <= y
  PROVE  Min(S) = m
<1>1. \E x \in S : \A y \in S : x <= y
  OBVIOUS
<1>2. Min(S) \in S /\ \A y \in S : Min(S) <= y
  BY <1>1 DEF Min
<1>3. Min(S) <= m /\ m <= Min(S) /\ Min(S) \in Int /\ m \in Int
  BY <1>2
<1> QED
  BY <1>3

(* An opcode begins with a byte that is neither a prefix nor a REX. *)
LEMMA OpcodeForms ==
  ASSUME NEW c \in Opcodes
  PROVE  /\ c[1] \in Byte /\ c[1] \notin Legacy /\ ~IsRex(c[1])
         /\ \/ Len(c) = 1 /\ c[1] # \h0F /\ c = <<c[1]>>
            \/ Len(c) = 2 /\ c[1] = \h0F /\ c[2] \in Byte \ {\h38, \h3A} /\ c = <<\h0F, c[2]>>
            \/ Len(c) = 3 /\ c[1] = \h0F /\ c[2] \in {\h38, \h3A} /\ c[3] \in Byte
<1>1. \h0F \in Byte /\ \h0F \notin Legacy /\ ~IsRex(\h0F)
  BY DEF Byte, Legacy, IsRex
<1>2. CASE c \in {<<b>> : b \in Byte \ (Legacy \cup 64..79 \cup {\h0F})}
  <2>1. PICK b \in Byte \ (Legacy \cup 64..79 \cup {\h0F}) : c = <<b>>
    BY <1>2
  <2>2. b \in Byte /\ b \notin Legacy /\ b # \h0F /\ ~IsRex(b)
    BY DEF IsRex
  <2>3. c[1] = b /\ Len(c) = 1 /\ c = <<c[1]>>
    BY <2>1
  <2> QED
    BY <2>2, <2>3
<1>3. CASE c \in {<<\h0F, b>> : b \in Byte \ {\h38, \h3A}}
  <2>1. PICK b \in Byte \ {\h38, \h3A} : c = <<\h0F, b>>
    BY <1>3
  <2>2. c[1] = \h0F /\ c[2] = b /\ Len(c) = 2 /\ c = <<\h0F, c[2]>>
    BY <2>1
  <2> QED
    BY <1>1, <2>1, <2>2
<1>4. CASE c \in {<<\h0F, m, b>> : m \in {\h38, \h3A}, b \in Byte}
  <2>1. PICK m \in {\h38, \h3A}, b \in Byte : c = <<\h0F, m, b>>
    BY <1>4
  <2>2. c[1] = \h0F /\ c[2] = m /\ c[3] = b /\ Len(c) = 3
    BY <2>1
  <2> QED
    BY <1>1, <2>2
<1> QED
  BY <1>2, <1>3, <1>4 DEF Opcodes

LEMMA RexForms ==
  ASSUME NEW x \in {<< >>} \cup {<<r>> : r \in 64..79}
  PROVE  \/ x = << >> /\ Len(x) = 0
         \/ x[1] \in 64..79 /\ x[1] \notin Legacy /\ x = <<x[1]>> /\ Len(x) = 1
<1>1. CASE x = << >>
  BY <1>1
<1>2. CASE x \in {<<r>> : r \in 64..79}
  <2>1. PICK r \in 64..79 : x = <<r>>
    BY <1>2
  <2>2. x[1] = r /\ Len(x) = 1
    BY <2>1
  <2>3. r \notin Legacy
    BY DEF Legacy
  <2> QED
    BY <2>1, <2>2, <2>3
<1> QED
  BY <1>1, <1>2

LEMMA OpcodeIs ==
  ASSUME NEW f \in Fields
  PROVE  Opcode(Bytes(f)) = Len(f.prefixes) + 1
<1> DEFINE code == Bytes(f)
           p == f.prefixes
           x == f.rex
           c == f.opcode
           n == Len(p)
           k == Len(x)
           l == Len(c)
           S == {b \in DOMAIN code : code[b] \notin Legacy}
<1>1. /\ code \in Seq(Byte) /\ Len(code) = n + k + l + 2 + 4
      /\ \A i \in 1..n : code[i] = p[i]
      /\ \A i \in 1..k : code[n + i] = x[i]
      /\ \A i \in 1..l : code[n + k + i] = c[i]
  BY BytesLie
<1>2. p \in Seq(Legacy) /\ n \in Nat /\ x \in {<< >>} \cup {<<r>> : r \in 64..79} /\ c \in Opcodes
  BY FieldsType DEF Fields
<1> HIDE DEF code, p, x, c
<1>3. \A i \in 1..n : code[i] \in Legacy
  <2>1. \A i \in 1..n : p[i] \in Legacy
    BY <1>2
  <2> QED
    BY <1>1, <2>1
<1>4. c[1] \notin Legacy /\ l \in 1..3
  BY <1>2, OpcodeForms
<1>5. k \in 0..1 /\ (k = 1 => x[1] \notin Legacy)
  BY <1>2, RexForms
<1> HIDE DEF n, k, l
<1>6. DOMAIN code = 1..n + k + l + 2 + 4
  BY <1>1
<1>7. n + 1 \in DOMAIN code
  BY <1>2, <1>4, <1>5, <1>6
<1>8. code[n + 1] \notin Legacy
  <2>1. CASE k = 0
    <3>1. n + k + 1 = n + 1 /\ 1 \in 1..l
      BY <1>2, <1>4, <2>1
    <3> QED
      BY <1>1, <1>4, <3>1
  <2>2. CASE k = 1
    <3>1. 1 \in 1..k
      BY <2>2
    <3> QED
      BY <1>1, <1>5, <2>2, <3>1
  <2> QED
    BY <1>5, <2>1, <2>2
<1>9. n + 1 \in S
  BY <1>7, <1>8
<1>10. S \subseteq Int /\ n + 1 \in Int
  BY <1>2, <1>6
<1>11. ASSUME NEW y \in S
       PROVE  n + 1 <= y
  <2>1. y \in DOMAIN code /\ code[y] \notin Legacy /\ y \in Int /\ y >= 1
    BY <1>6
  <2>2. y \notin 1..n
    BY <1>3, <2>1
  <2> QED
    BY <1>2, <2>1, <2>2
<1>12. Opcode(code) = Min(S)
  BY DEF Opcode
<1> HIDE DEF S
<1>13. Min(S) = n + 1
  BY <1>9, <1>10, <1>11, MinIs
<1> QED
  BY <1>12, <1>13 DEF code, p, n

-----------------------------------------------------------------------------
(* From the bytes to the fields. *)

Wide(f) == \E i \in DOMAIN f.prefixes : f.prefixes[i] = \h66

RexW(f) == \E r \in 72..79 : f.rex = <<r>>

(* What the tables say of an opcode. *)
KindOf(c) ==
  IF Len(c) = 1 THEN gPrimary[c[1]]
  ELSE IF Len(c) = 2 THEN gSecondary[c[2]]
  ELSE IF c[2] = \h38 THEN "modrm" ELSE "modrm_i8"

LEMMA KindIs ==
  ASSUME NEW code, NEW c \in Opcodes, NEW r \in Nat,
         \A i \in 1..Len(c) : code[r + i] = c[i]
  PROVE  Kind(code, r + 1) = [kind |-> KindOf(c), next |-> r + Len(c) + 1]
<1>1. CASE Len(c) = 1
  <2>1. code[r + 1] = c[1] /\ c[1] # \h0F
    BY <1>1, OpcodeForms
  <2>2. (r + 1) + 1 = r + Len(c) + 1
    BY <1>1
  <2> QED
    BY <1>1, <2>1, <2>2 DEF Kind, KindOf
<1>2. CASE Len(c) = 2
  <2>1. code[r + 1] = c[1] /\ code[r + 2] = c[2]
    BY <1>2
  <2>2. c[1] = \h0F /\ c[2] # \h38 /\ c[2] # \h3A
    BY <1>2, OpcodeForms
  <2>3. (r + 1) + 1 = r + 2 /\ (r + 1) + 2 = r + Len(c) + 1
    BY <1>2
  <2>4. code[(r + 1) + 1] = c[2]
    BY <2>1, <2>3
  <2>5. Kind(code, r + 1) = [kind |-> gSecondary[c[2]], next |-> (r + 1) + 2]
    BY <2>1, <2>2, <2>4 DEF Kind
  <2>6. KindOf(c) = gSecondary[c[2]]
    BY <1>2 DEF KindOf
  <2> QED
    BY <2>3, <2>5, <2>6
<1>3. CASE Len(c) = 3
  <2>1. code[r + 1] = c[1] /\ code[r + 2] = c[2]
    BY <1>3
  <2>2. c[1] = \h0F /\ c[2] \in {\h38, \h3A}
    BY <1>3, OpcodeForms
  <2>3. (r + 1) + 1 = r + 2 /\ (r + 1) + 3 = r + Len(c) + 1
    BY <1>3
  <2>4. code[(r + 1) + 1] = c[2]
    BY <2>1, <2>3
  <2>5. CASE c[2] = \h38
    <3>1. Kind(code, r + 1) = [kind |-> "modrm", next |-> (r + 1) + 3]
      BY <2>1, <2>2, <2>4, <2>5 DEF Kind
    <3>2. KindOf(c) = "modrm"
      BY <1>3, <2>5 DEF KindOf
    <3> QED
      BY <2>3, <3>1, <3>2
  <2>6. CASE c[2] = \h3A
    <3>1. Kind(code, r + 1) = [kind |-> "modrm_i8", next |-> (r + 1) + 3]
      BY <2>1, <2>2, <2>4, <2>6 DEF Kind
    <3>2. KindOf(c) = "modrm_i8"
      BY <1>3, <2>6 DEF KindOf
    <3> QED
      BY <2>3, <3>1, <3>2
  <2> QED
    BY <2>2, <2>5, <2>6
<1> QED
  BY <1>1, <1>2, <1>3, OpcodeForms

(* decode(), once the bytes are told apart. *)
Answer(kind, next, mod, reg, rm, low, rexW, wide) ==
  LET modrm  == hasModRM(kind)
      sib    == IF hasSib(mod, rm) THEN 1 ELSE 0
      imm    == immSize(kind, reg, IF wide THEN 2 ELSE 4, rexW)
      disp   == Displacement(mod, rm, low)
      length == next - 1 + imm + (IF modrm THEN 1 + sib + disp ELSE 0)
      branch == relativeBranch(kind)
  IN IF kind = "invalid" \/ (length > 16 /\ ~branch) THEN Undecodable
     ELSE [ok |-> TRUE, length |-> length, relativeBranch |-> branch,
           ripAt |-> IF modrm /\ ripRelative(mod, rm) THEN next ELSE 0]

(* What decode() reads ahead of the ModRM byte, which is at next. *)
ReadAs(code, kind, next, rexW, wide) ==
  LET p   == Opcode(code)
      rex == IsRex(code[p])
  IN /\ Kind(code, IF rex THEN p + 1 ELSE p) = [kind |-> kind, next |-> next]
     /\ rexW = (rex /\ code[p] >= \h48)
     /\ wide = (\E b \in 1..p - 1 : code[b] = \h66)

LEMMA DecodeAnswers ==
  ASSUME NEW code, NEW kind, NEW next, NEW rexW, NEW wide, ReadAs(code, kind, next, rexW, wide)
  PROVE  Decode(code) = Answer(kind, next, code[next] \div 64, (code[next] \div 8) % 8,
                               code[next] % 8, code[next + 1] % 8, rexW, wide)
<1> DEFINE p   == Opcode(code)
           rex == IsRex(code[p])
           k   == Kind(code, IF rex THEN p + 1 ELSE p)
<1>1. Decode(code) = Answer(k.kind, k.next, code[k.next] \div 64, (code[k.next] \div 8) % 8,
                            code[k.next] % 8, code[k.next + 1] % 8, (rex /\ code[p] >= \h48),
                            (\E b \in 1..p - 1 : code[b] = \h66))
  BY DEF Decode, Answer
<1>2. /\ k = [kind |-> kind, next |-> next]
      /\ rexW = (rex /\ code[p] >= \h48)
      /\ wide = (\E b \in 1..p - 1 : code[b] = \h66)
  BY DEF ReadAs
<1> HIDE DEF k, rex, p
<1>3. k.kind = kind /\ k.next = next
  BY <1>2
<1> QED
  BY <1>1, <1>2, <1>3

(* The bytes ahead of ModRM. *)
After(f) == Len(f.prefixes) + Len(f.rex) + Len(f.opcode)

LEMMA DecodeSees ==
  ASSUME NEW f \in Fields
  PROVE  Decode(Bytes(f)) = Answer(KindOf(f.opcode), After(f) + 1, f.mod, f.reg, f.rm, f.base,
                                   RexW(f), Wide(f))
<1> DEFINE code == Bytes(f)
           p == f.prefixes
           x == f.rex
           c == f.opcode
           n == Len(p)
           k == Len(x)
           l == Len(c)
           q == n + k + l
           byte == ModRM(f)
           low == f.base
           W == RexW(f)
           D == Wide(f)
<1>1. /\ \A i \in 1..n : code[i] = p[i]
      /\ \A i \in 1..k : code[n + i] = x[i]
      /\ \A i \in 1..l : code[n + k + i] = c[i]
      /\ code[q + 1] = byte /\ code[q + 2] = low
  BY BytesLie
<1>2. n \in Nat /\ x \in {<< >>} \cup {<<r>> : r \in 64..79} /\ c \in Opcodes /\ p \in Seq(Legacy)
  BY FieldsType DEF Fields
<1>3. Opcode(code) = n + 1
  BY OpcodeIs
<1>4. /\ byte \div 64 = f.mod /\ (byte \div 8) % 8 = f.reg /\ byte % 8 = f.rm
      /\ low % 8 = low
  <2> DEFINE mod == f.mod
             reg == f.reg
             rm  == f.rm
  <2>1. mod \in 0..3 /\ reg \in 0..7 /\ rm \in 0..7 /\ low \in 0..7
    BY FieldsType
  <2>2. byte = 64 * mod + 8 * reg + rm
    BY DEF ModRM
  <2> HIDE DEF byte, low, mod, reg, rm
  <2>3. byte \div 64 = mod
    BY <2>1, <2>2
  <2>4. (byte \div 8) % 8 = reg
    <3>1. byte \div 8 = 8 * mod + reg
      BY <2>1, <2>2
    <3> QED
      BY <2>1, <3>1
  <2>5. byte % 8 = rm
    BY <2>1, <2>2
  <2>6. low % 8 = low
    BY <2>1
  <2> QED
    BY <2>3, <2>4, <2>5, <2>6 DEF mod, reg, rm
<1>5. W <=> \E r \in 72..79 : x = <<r>>
  BY DEF RexW
<1>6. D <=> \E i \in DOMAIN p : p[i] = \h66
  BY DEF Wide
<1>7. W \in BOOLEAN /\ D \in BOOLEAN
  BY DEF RexW, Wide
<1> HIDE DEF code, p, x, c, byte, low, W, D
<1>8. l \in 1..3 /\ ~IsRex(c[1])
  BY <1>2, OpcodeForms
<1>9. k \in 0..1
  BY <1>2, RexForms
<1> HIDE DEF n, k, l
<1>10. DOMAIN p = 1..n
  BY <1>2 DEF n
<1>11. D = (\E b \in 1..n : code[b] = \h66)
  <2>1. D <=> \E b \in 1..n : code[b] = \h66
    BY <1>1, <1>6, <1>10
  <2> QED
    BY <1>7, <2>1
<1>12. ASSUME k = 0
      PROVE  ReadAs(code, KindOf(c), q + 1, W, D)
  <2>1. x = << >>
    BY <1>2, <1>12, RexForms DEF k
  <2>2. n + k + 1 = n + 1 /\ 1 \in 1..l /\ n + k = n
    BY <1>2, <1>8, <1>12
  <2>3. code[n + 1] = c[1]
    BY <1>1, <2>2
  <2>4. ~IsRex(code[n + 1])
    BY <1>8, <2>3
  <2>5. ~W
    BY <1>5, <2>1
  <2>6. /\ IsRex(code[n + 1]) = FALSE
        /\ W = (FALSE /\ code[n + 1] >= \h48)
        /\ Kind(code, IF FALSE THEN (n + 1) + 1 ELSE n + 1) = [kind |-> KindOf(c), next |-> q + 1]
    <3>1. \A i \in 1..l : code[n + i] = c[i]
      BY <1>1, <2>2
    <3>2. Kind(code, n + 1) = [kind |-> KindOf(c), next |-> n + l + 1]
      BY <1>2, <3>1, KindIs DEF l
    <3>3. n + l + 1 = q + 1
      BY <1>2, <1>8, <1>12
    <3> QED
      BY <1>7, <2>4, <2>5, <3>2, <3>3 DEF IsRex
  <2> DEFINE o == Opcode(code)
  <2>7. o = n + 1
    BY <1>3
  <2> HIDE DEF o
  <2>8. IsRex(code[o]) = FALSE /\ (IF IsRex(code[o]) THEN o + 1 ELSE o) = n + 1
    BY <2>6, <2>7
  <2>9. Kind(code, IF IsRex(code[o]) THEN o + 1 ELSE o) = [kind |-> KindOf(c), next |-> q + 1]
    BY <2>6, <2>8
  <2>10. W = (IsRex(code[o]) /\ code[o] >= \h48)
    BY <2>6, <2>7, <2>8
  <2>11. D = (\E b \in 1..o - 1 : code[b] = \h66)
    <3>1. o - 1 = n
      BY <1>2, <2>7
    <3> QED
      BY Zenon, <1>11, <3>1
  <2> QED
    BY Zenon, <2>9, <2>10, <2>11 DEF ReadAs, o
<1>13. ASSUME k = 1
      PROVE  ReadAs(code, KindOf(c), q + 1, W, D)
  <2>1. x[1] \in 64..79 /\ x = <<x[1]>>
    BY <1>2, <1>13, RexForms DEF k
  <2>2. 1 \in 1..k /\ (n + 1) + 1 = (n + k) + 1 /\ n + k \in Nat /\ q + 1 = (n + k) + l + 1
    BY <1>2, <1>8, <1>13
  <2>3. code[n + 1] = x[1]
    BY <1>1, <2>2
  <2>4. W <=> code[n + 1] >= \h48
    <3>1. \A r \in 72..79 : x = <<r>> => x[1] = r
      OBVIOUS
    <3>2. W <=> x[1] \in 72..79
      BY <1>5, <2>1, <3>1
    <3> QED
      BY <2>1, <2>3, <3>2
  <2>5. Kind(code, (n + k) + 1) = [kind |-> KindOf(c), next |-> (n + k) + l + 1]
    BY <1>1, <1>2, <2>2, KindIs DEF l
  <2>6. /\ IsRex(code[n + 1]) = TRUE
        /\ W = (TRUE /\ code[n + 1] >= \h48)
        /\ Kind(code, IF TRUE THEN (n + 1) + 1 ELSE n + 1) = [kind |-> KindOf(c), next |-> q + 1]
    BY <1>7, <2>1, <2>2, <2>3, <2>4, <2>5 DEF IsRex
  <2> DEFINE o == Opcode(code)
  <2>7. o = n + 1
    BY <1>3
  <2> HIDE DEF o
  <2>8. IsRex(code[o]) = TRUE /\ (IF IsRex(code[o]) THEN o + 1 ELSE o) = (n + 1) + 1
    BY <2>6, <2>7
  <2>9. Kind(code, IF IsRex(code[o]) THEN o + 1 ELSE o) = [kind |-> KindOf(c), next |-> q + 1]
    BY <2>6, <2>8
  <2>10. W = (IsRex(code[o]) /\ code[o] >= \h48)
    BY <2>6, <2>7, <2>8
  <2>11. D = (\E b \in 1..o - 1 : code[b] = \h66)
    <3>1. o - 1 = n
      BY <1>2, <2>7
    <3> QED
      BY Zenon, <1>11, <3>1
  <2> QED
    BY Zenon, <2>9, <2>10, <2>11 DEF ReadAs, o
<1>14. ReadAs(code, KindOf(c), q + 1, W, D)
  BY <1>9, <1>12, <1>13
<1>15. (q + 1) + 1 = q + 2
  BY <1>2, <1>8, <1>9
<1> HIDE DEF q
<1>16. Decode(code) = Answer(KindOf(c), q + 1, f.mod, f.reg, f.rm, low, W, D)
  BY <1>1, <1>4, <1>14, <1>15, DecodeAnswers
<1> QED
  BY <1>16 DEF code, c, q, low, W, D, After, n, k, l, p, x

-----------------------------------------------------------------------------
(* The tables, row by row, beside what the instructions are. *)

LEMMA AluRow ==
  ASSUME NEW b \in Byte, NEW r \in 0..7
  PROVE  b \in Alu(r) <=> b < 64 /\ b % 8 = r
<1>1. ASSUME b \in Alu(r)
      PROVE  b < 64 /\ b % 8 = r
  <2>1. PICK g \in 0..7 : b = 8 * g + r
    BY <1>1 DEF Alu
  <2> QED
    BY <2>1
<1>2. ASSUME b < 64, b % 8 = r
      PROVE  b \in Alu(r)
  <2>1. b \div 8 \in 0..7 /\ b = 8 * (b \div 8) + r
    BY <1>2 DEF Byte
  <2> QED
    BY <2>1 DEF Alu
<1> QED
  BY <1>1, <1>2

PrimaryRow(b, kind) ==
  \/ /\ kind = "modrm"
     /\ \/ b < 64 /\ b % 8 < 4
        \/ b \in {\h63, \h8D, \h8F, \hFE, \hFF} \cup \h84..\h8B \cup \hD0..\hD3
  \/ kind = "modrm_i8" /\ b \in {\h6B, \h80, \h83, \hC0, \hC1, \hC6}
  \/ kind = "modrm_iz" /\ b \in {\h69, \h81, \hC7}
  \/ kind = "i8" /\ ((b < 64 /\ b % 8 = 4) \/ b \in {\h6A, \hA8} \cup \hB0..\hB7)
  \/ kind = "iz" /\ ((b < 64 /\ b % 8 = 5) \/ b \in {\h68, \hA9})
  \/ kind = "none" /\ b \in \h50..\h5F \cup \h90..\h99 \cup {\h9C, \h9D, \hC3, \hC9, \hCC, \hF4}
  \/ kind = "rel8" /\ b \in \h70..\h7F \cup {\hEB}
  \/ kind = "rel32" /\ b \in {\hE8, \hE9}
  \/ kind = "mov_imm" /\ b \in \hB8..\hBF
  \/ kind = "i16" /\ b = \hC2
  \/ kind = "grp_f6" /\ b = \hF6
  \/ kind = "grp_f7" /\ b = \hF7
  \/ kind = "invalid"

LEMMA PrimaryRows ==
  ASSUME NEW b \in Byte
  PROVE  PrimaryRow(b, gPrimary[b])
<1> DEFINE A(r) == b \in Alu(r)
<1>1. \A r \in 0..7 : A(r) <=> b < 64 /\ b % 8 = r
  BY AluRow
<1>2. b \in UNION {Alu(r) : r \in 0..3} <=> b < 64 /\ b % 8 < 4
  <2>1. b \in UNION {Alu(r) : r \in 0..3} <=> \E r \in 0..3 : A(r)
    OBVIOUS
  <2> HIDE DEF A
  <2>2. (\E r \in 0..3 : A(r)) <=> \E r \in 0..3 : b < 64 /\ b % 8 = r
    BY <1>1
  <2>3. b % 8 \in 0..7
    BY DEF Byte
  <2> QED
    BY <2>1, <2>2, <2>3
<1>3. /\ b \in Alu(4) <=> b < 64 /\ b % 8 = 4
      /\ b \in Alu(5) <=> b < 64 /\ b % 8 = 5
  BY AluRow
<1> HIDE DEF A
<1> DEFINE M == UNION {Alu(r) : r \in 0..3}
           A4 == Alu(4)
           A5 == Alu(5)
<1> DEFINE G1 == b \in M \cup {\h63, \h8D, \h8F, \hFE, \hFF} \cup \h84..\h8B \cup \hD0..\hD3
           G2 == b \in {\h6B, \h80, \h83, \hC0, \hC1, \hC6}
           G3 == b \in {\h69, \h81, \hC7}
           G4 == b \in A4 \cup {\h6A, \hA8} \cup \hB0..\hB7
           G5 == b \in A5 \cup {\h68, \hA9}
           G6 == b \in \h50..\h5F \cup \h90..\h99 \cup {\h9C, \h9D, \hC3, \hC9, \hCC, \hF4}
           G7 == b \in \h70..\h7F \cup {\hEB}
           G8 == b \in {\hE8, \hE9}
           G9 == b \in \hB8..\hBF
           G10 == b = \hC2
           G11 == b = \hF6
           G12 == b = \hF7
           k == gPrimary[b]
<1>4. k = CASE G1 -> "modrm"
         [] G2 -> "modrm_i8"
         [] G3 -> "modrm_iz"
         [] G4 -> "i8"
         [] G5 -> "iz"
         [] G6 -> "none"
         [] G7 -> "rel8"
         [] G8 -> "rel32"
         [] G9 -> "mov_imm"
         [] G10 -> "i16"
         [] G11 -> "grp_f6"
         [] G12 -> "grp_f7"
         [] OTHER -> "invalid"
  BY DEF gPrimary
<1> HIDE DEF k, G1, G2, G3, G4, G5, G6, G7, G8, G9, G10, G11, G12
<1>5. \/ G1 /\ k = "modrm"
      \/ G2 /\ k = "modrm_i8"
      \/ G3 /\ k = "modrm_iz"
      \/ G4 /\ k = "i8"
      \/ G5 /\ k = "iz"
      \/ G6 /\ k = "none"
      \/ G7 /\ k = "rel8"
      \/ G8 /\ k = "rel32"
      \/ G9 /\ k = "mov_imm"
      \/ G10 /\ k = "i16"
      \/ G11 /\ k = "grp_f6"
      \/ G12 /\ k = "grp_f7"
      \/ k = "invalid"
  BY <1>4
<1>6. (b \in M <=> b < 64 /\ b % 8 < 4) /\ (b \in A4 <=> b < 64 /\ b % 8 = 4)
      /\ (b \in A5 <=> b < 64 /\ b % 8 = 5)
  BY <1>2, <1>3 DEF M, A4, A5
<1> HIDE DEF M, A4, A5
<1>7. PrimaryRow(b, k)
  BY <1>5, <1>6 DEF PrimaryRow, G1, G2, G3, G4, G5, G6, G7, G8, G9, G10, G11, G12
<1> QED
  BY <1>7 DEF k
SecondaryRow(b, kind) ==
  \/ kind = "none" /\ b \in {\h05, \h0B, \hA2}
  \/ kind = "modrm_i8" /\ b \in \h70..\h73 \cup {\hA4, \hAC, \hBA, \hC2}
  \/ kind = "rel32" /\ b \in \h80..\h8F
  \/ /\ kind = "modrm"
     /\ b \in \h10..\h1F \cup \h28..\h2F \cup \h40..\h4F \cup \h51..\h6F
              \cup \h74..\h7F \cup \h90..\h9F \cup {\hA3, \hA5, \hAB}
              \cup \hAD..\hB1 \cup \hB3..\hB7 \cup \hBB..\hC1
              \cup \hC3..\hC6 \cup \hD0..\hFE
  \/ kind = "invalid"

LEMMA SecondaryRows ==
  ASSUME NEW b \in Byte
  PROVE  SecondaryRow(b, gSecondary[b])
BY DEF gSecondary, SecondaryRow

(* immediateZ *)
Size(f) == IF Wide(f) THEN 2 ELSE 4

(* One byte: what is measured wrongly is the immediate REX.W made 32 bits again. *)
LEMMA OneByteRow ==
  ASSUME NEW f \in Fields, NEW b, NEW kind, Len(f.opcode) = 1, b = f.opcode[1],
         b \in Byte, b \notin Legacy, ~IsRex(b), b # \h0F, PrimaryRow(b, kind), kind # "invalid"
  PROVE  /\ relativeBranch(kind) <=> Relative(f)
         /\ ~Relative(f) =>
              /\ hasModRM(kind) <=> Addresses(f)
              /\ immSize(kind, f.reg, Size(f), RexW(f))
                   = IF Oversized(f) THEN 2 ELSE Immediate(f)
<1> DEFINE reg == f.reg
           imm == immSize(kind, reg, Size(f), RexW(f))
           W == RexW(f)
           D == Wide(f)
<1>1. OneByte(f) /\ ~TwoByte(f) /\ Len(f.opcode) # 3 /\ LastByte(f) = b
  BY DEF OneByte, TwoByte, LastByte
<1>2. reg \in 0..7
  BY FieldsType
<1>3. OperandSize(f) = IF W THEN 8 ELSE IF D THEN 2 ELSE 4
  BY DEF OperandSize, RexW, Wide
<1>4. Tests(f) <=> reg < 2
  BY DEF Tests
<1>5. Addresses(f) <=>
        \/ b \in \h80..\h8F \cup \hD0..\hD3 \cup \hD8..\hDF \cup {\h62, \h63, \h69, \h6B, \hF6, \hF7, \hFE, \hFF}
                \cup {\hC0, \hC1} \cup \hC4..\hC7
        \/ b < 64 /\ b % 8 < 4
  BY <1>1 DEF Addresses
<1>6. Relative(f) <=> b \in \h70..\h7F \cup \hE0..\hE3 \cup {\hE8, \hE9, \hEB}
  BY <1>1 DEF Relative
<1>7. relativeBranch(kind) <=> Relative(f)
  BY <1>6 DEF relativeBranch, PrimaryRow, Byte
<1>8. ASSUME ~Relative(f)
      PROVE  hasModRM(kind) <=> Addresses(f)
  BY <1>5, <1>6, <1>8 DEF hasModRM, PrimaryRow, Byte
<1>9. OperandSize(f) = 2 <=> ~W /\ D
  BY <1>3
<1>10. ASSUME b \in \hB8..\hBF
       PROVE  Immediate(f) = OperandSize(f)
  BY <1>1, <1>10 DEF Immediate
<1>11. ASSUME b = \hC2
       PROVE  Immediate(f) = 2
  BY <1>1, <1>11 DEF Immediate
<1>12. ASSUME \/ b \in {\h68, \h69, \h81, \hA9, \hC7}
              \/ b < 64 /\ b % 8 = 5
              \/ b = \hF7 /\ reg < 2
       PROVE  Immediate(f) = IF ~W /\ D THEN 2 ELSE 4
  BY <1>1, <1>4, <1>9, <1>12 DEF Immediate, Byte
<1>13. ASSUME \/ b \in {\h6A, \h6B, \h80, \h83, \hA8, \hC0, \hC1, \hC6}
              \/ b \in \hB0..\hB7
              \/ b < 64 /\ b % 8 = 4
              \/ b = \hF6 /\ reg < 2
       PROVE  Immediate(f) = 1
  BY <1>1, <1>4, <1>13 DEF Immediate, Byte
<1>14. ASSUME \/ b < 64 /\ b % 8 < 4
              \/ b \in {\h63, \h8D, \h8F, \hFE, \hFF} \cup \h84..\h8B \cup \hD0..\hD3
              \/ b \in \h50..\h5F \cup \h90..\h99 \cup {\h9C, \h9D, \hC3, \hC9, \hCC, \hF4}
              \/ b \in {\hF6, \hF7} /\ ~(reg < 2)
       PROVE  Immediate(f) = 0
  BY <1>1, <1>4, <1>14 DEF Immediate, Byte
<1> DEFINE I == Immediate(f)
<1>15. Oversized(f) <=> W /\ D /\ b \notin \hB8..\hBF /\ I = 4 /\ ~Relative(f)
  BY <1>1, <1>3 DEF Oversized, Wide
<1>16. ASSUME ~Relative(f)
       PROVE  imm = IF Oversized(f) THEN 2 ELSE I
  <2>1. kind \notin {"rel8", "rel32"}
    BY <1>7, <1>16 DEF relativeBranch
  <2>2. Size(f) = IF D THEN 2 ELSE 4
    BY DEF Size
  <2>3. CASE kind \in {"modrm", "none"}
    <3>1. imm = 0
      BY <2>3 DEF immSize
    <3>2. I = 0
      BY <1>14, <2>3 DEF PrimaryRow
    <3> QED
      BY <1>15, <3>1, <3>2
  <2>4. CASE kind \in {"modrm_i8", "i8"}
    <3>1. imm = 1
      BY <2>4 DEF immSize
    <3>2. I = 1
      BY <1>13, <2>4 DEF PrimaryRow
    <3> QED
      BY <1>15, <3>1, <3>2
  <2>5. CASE kind \in {"modrm_iz", "iz"}
    <3>1. imm = IF D THEN 2 ELSE 4
      BY <2>2, <2>5 DEF immSize
    <3>2. I = IF ~W /\ D THEN 2 ELSE 4
      BY <1>12, <2>5 DEF PrimaryRow
    <3>3. b \notin \hB8..\hBF
      BY <2>5 DEF PrimaryRow, Byte
    <3> HIDE DEF imm, I, W, D
    <3> QED
      BY <1>15, <1>16, <3>1, <3>2, <3>3
  <2>6. CASE kind = "mov_imm"
    <3>1. imm = IF W THEN 8 ELSE IF D THEN 2 ELSE 4
      BY <2>2, <2>6 DEF immSize
    <3>2. b \in \hB8..\hBF
      BY <2>6 DEF PrimaryRow
    <3>3. I = imm
      BY <1>3, <1>10, <3>1, <3>2
    <3> HIDE DEF imm, I, W, D
    <3> QED
      BY <1>15, <3>2, <3>3
  <2>7. CASE kind = "i16"
    <3>1. imm = 2
      BY <2>7 DEF immSize
    <3>2. I = 2
      BY <1>11, <2>7 DEF PrimaryRow
    <3> QED
      BY <1>15, <3>1, <3>2
  <2>8. CASE kind = "grp_f6"
    <3>1. imm = IF reg \in {0, 1} THEN 1 ELSE 0
      BY <2>8 DEF immSize
    <3>2. b = \hF6
      BY <2>8 DEF PrimaryRow
    <3>3. I = IF reg < 2 THEN 1 ELSE 0
      BY <1>13, <1>14, <3>2
    <3> HIDE DEF imm, I, W, D, reg
    <3> QED
      BY <1>2, <1>15, <3>1, <3>3
  <2>9. CASE kind = "grp_f7"
    <3>1. imm = IF reg \in {0, 1} THEN (IF D THEN 2 ELSE 4) ELSE 0
      BY <2>2, <2>9 DEF immSize
    <3>2. b = \hF7
      BY <2>9 DEF PrimaryRow
    <3>3. I = IF reg < 2 THEN (IF ~W /\ D THEN 2 ELSE 4) ELSE 0
      BY <1>12, <1>14, <3>2
    <3> HIDE DEF imm, I, W, D, reg
    <3> QED
      BY <1>2, <1>15, <1>16, <3>1, <3>2, <3>3
  <2> QED
    BY <2>1, <2>3, <2>4, <2>5, <2>6, <2>7, <2>8, <2>9 DEF PrimaryRow
<1> QED
  BY <1>7, <1>8, <1>16
(* Two bytes: EMMS is taken for an instruction with an operand, and three others
   for instructions without an immediate. *)
LEMMA TwoByteRow ==
  ASSUME NEW f \in Fields, NEW b, NEW kind, Len(f.opcode) = 2, b = f.opcode[2],
         f.opcode = <<\h0F, b>>, b \in Byte, SecondaryRow(b, kind), kind # "invalid"
  PROVE  /\ relativeBranch(kind) <=> Relative(f)
         /\ ~Oversized(f) /\ (Misfiled(f) <=> b \in {\h77, \hC4, \hC5, \hC6})
         /\ ~Relative(f) =>
              /\ hasModRM(kind) <=> Addresses(f) \/ b = \h77
              /\ b = \h77 => ~Addresses(f)
              /\ immSize(kind, f.reg, Size(f), RexW(f))
                   = IF b \in \hC4..\hC6 THEN Immediate(f) - 1 ELSE Immediate(f)
<1> DEFINE reg == f.reg
           imm == immSize(kind, reg, Size(f), RexW(f))
<1>1. ~OneByte(f) /\ TwoByte(f) /\ Len(f.opcode) # 3 /\ LastByte(f) = b
  BY DEF OneByte, TwoByte, LastByte
<1>2. Addresses(f) <=>
        b \notin \h05..\h0B \cup \h30..\h37 \cup \h80..\h8F \cup \hA0..\hA2 \cup \hA8..\hAA
                \cup \hC8..\hCF \cup {\h77}
  BY <1>1 DEF Addresses
<1>3. Relative(f) <=> b \in \h80..\h8F
  BY <1>1 DEF Relative
<1>4. relativeBranch(kind) <=> Relative(f)
  BY <1>3 DEF relativeBranch, SecondaryRow, Byte
<1>5. ~Oversized(f)
  BY <1>1 DEF Oversized
<1>6. Misfiled(f) <=> b \in {\h77, \hC4, \hC5, \hC6}
  BY DEF Misfiled
<1>7. ASSUME ~Relative(f)
      PROVE  hasModRM(kind) <=> Addresses(f) \/ b = \h77
  BY <1>2, <1>3, <1>7 DEF hasModRM, SecondaryRow, Byte
<1>8. b = \h77 => ~Addresses(f)
  BY <1>2
<1>9. ASSUME ~Relative(f)
      PROVE  imm = IF b \in \hC4..\hC6 THEN Immediate(f) - 1 ELSE Immediate(f)
  <2>1. Immediate(f) = IF b \in \h70..\h73 \cup {\hA4, \hAC, \hBA, \hC2, \hC4, \hC5, \hC6}
                       THEN 1 ELSE 0
    BY <1>1, <1>3, <1>9 DEF Immediate
  <2>2. CASE kind = "modrm_i8"
    <3>1. imm = 1
      BY <2>2 DEF immSize
    <3> QED
      BY <2>1, <2>2, <3>1 DEF SecondaryRow
  <2>3. CASE kind \in {"none", "modrm"}
    <3>1. imm = 0
      BY <2>3 DEF immSize
    <3> QED
      BY <2>1, <2>3, <3>1 DEF SecondaryRow, Byte
  <2>4. kind # "rel32"
    BY <1>4, <1>9 DEF relativeBranch
  <2> QED
    BY <2>2, <2>3, <2>4 DEF SecondaryRow
<1> QED
  BY <1>4, <1>5, <1>6, <1>7, <1>8, <1>9

(* Three bytes: the tables are not asked. *)
LEMMA ThreeByteRow ==
  ASSUME NEW f \in Fields, NEW kind, Len(f.opcode) = 3, f.opcode[2] \in {\h38, \h3A},
         kind = IF f.opcode[2] = \h38 THEN "modrm" ELSE "modrm_i8"
  PROVE  /\ ~relativeBranch(kind) /\ ~Relative(f) /\ ~Oversized(f) /\ ~Misfiled(f)
         /\ hasModRM(kind) /\ Addresses(f)
         /\ immSize(kind, f.reg, Size(f), RexW(f)) = Immediate(f)
<1>1. ~OneByte(f) /\ ~TwoByte(f)
  BY DEF OneByte, TwoByte
<1>2. Addresses(f) /\ ~Relative(f) /\ ~Oversized(f)
  BY <1>1 DEF Addresses, Relative, Oversized
<1>3. ~Misfiled(f)
  BY DEF Misfiled
<1>4. ~relativeBranch(kind) /\ hasModRM(kind)
  BY DEF relativeBranch, hasModRM
<1>5. Immediate(f) = IF f.opcode[2] = \h3A THEN 1 ELSE 0
  BY DEF Immediate
<1>6. immSize(kind, f.reg, Size(f), RexW(f)) = IF f.opcode[2] = \h3A THEN 1 ELSE 0
  BY DEF immSize
<1> QED
  BY <1>2, <1>3, <1>4, <1>5, <1>6
(* What the tables make of an opcode that is no branch, beside what it is. *)
Imm(f) == immSize(KindOf(f.opcode), f.reg, Size(f), RexW(f))

Row(f) ==
  LET kind == KindOf(f.opcode) IN
  \/ /\ Charted(f) /\ (hasModRM(kind) <=> Addresses(f)) /\ Imm(f) = Immediate(f)
  \/ /\ ~Charted(f) /\ hasModRM(kind) /\ ~Addresses(f) /\ Imm(f) = Immediate(f)
  \/ /\ ~Charted(f) /\ (hasModRM(kind) <=> Addresses(f)) /\ Imm(f) + 1 = Immediate(f)
  \/ /\ ~Charted(f) /\ (hasModRM(kind) <=> Addresses(f)) /\ Imm(f) = 2 /\ Immediate(f) = 4

LEMMA RowIs ==
  ASSUME NEW f \in Fields, KindOf(f.opcode) # "invalid"
  PROVE  /\ relativeBranch(KindOf(f.opcode)) <=> Relative(f)
         /\ ~Relative(f) => Row(f) /\ Imm(f) \in Nat /\ Immediate(f) \in Nat
<1> DEFINE c == f.opcode
           kind == KindOf(c)
<1>1. c \in Opcodes
  BY DEF Fields
<1>2. Imm(f) = immSize(kind, f.reg, Size(f), RexW(f)) /\ Imm(f) \in Nat
  <2>1. Size(f) \in Nat
    BY DEF Size
  <2> QED
    BY <2>1 DEF Imm, immSize
<1>3. Charted(f) <=> ~Misfiled(f) /\ ~Oversized(f)
  BY DEF Charted
<1>4. CASE Len(c) = 1
  <2>1. c[1] \in Byte /\ c[1] \notin Legacy /\ ~IsRex(c[1]) /\ c[1] # \h0F
    BY <1>1, <1>4, OpcodeForms
  <2>2. kind = gPrimary[c[1]]
    BY <1>4 DEF KindOf
  <2>3. PrimaryRow(c[1], kind)
    BY <2>1, <2>2, PrimaryRows
  <2> HIDE DEF kind
  <2>4. /\ relativeBranch(kind) <=> Relative(f)
        /\ ~Relative(f) =>
             /\ hasModRM(kind) <=> Addresses(f)
             /\ immSize(kind, f.reg, Size(f), RexW(f))
                  = IF Oversized(f) THEN 2 ELSE Immediate(f)
    BY <1>4, <2>1, <2>3, OneByteRow DEF kind
  <2>5. ~Misfiled(f)
    BY <1>4 DEF Misfiled
  <2>6. Oversized(f) => Immediate(f) = 4
    BY DEF Oversized
  <2> QED
    BY <1>2, <1>3, <2>4, <2>5, <2>6 DEF Row, kind
<1>5. CASE Len(c) = 2
  <2>1. c[2] \in Byte /\ c = <<\h0F, c[2]>>
    BY <1>1, <1>5, OpcodeForms
  <2>2. kind = gSecondary[c[2]]
    BY <1>5 DEF KindOf
  <2>3. SecondaryRow(c[2], kind)
    BY <2>1, <2>2, SecondaryRows
  <2> HIDE DEF kind
  <2>4. /\ relativeBranch(kind) <=> Relative(f)
        /\ ~Oversized(f) /\ (Misfiled(f) <=> c[2] \in {\h77, \hC4, \hC5, \hC6})
        /\ ~Relative(f) =>
             /\ hasModRM(kind) <=> Addresses(f) \/ c[2] = \h77
             /\ c[2] = \h77 => ~Addresses(f)
             /\ immSize(kind, f.reg, Size(f), RexW(f))
                  = IF c[2] \in \hC4..\hC6 THEN Immediate(f) - 1 ELSE Immediate(f)
    BY <1>5, <2>1, <2>3, TwoByteRow DEF kind
  <2>5. Immediate(f) \in Nat
    BY <1>5 DEF Immediate, TwoByte
  <2> QED
    BY <1>2, <1>3, <2>1, <2>4, <2>5 DEF Row, kind
<1>6. CASE Len(c) = 3
  <2>1. c[2] \in {\h38, \h3A}
    BY <1>1, <1>6, OpcodeForms
  <2>2. kind = IF c[2] = \h38 THEN "modrm" ELSE "modrm_i8"
    BY <1>6 DEF KindOf
  <2> HIDE DEF kind
  <2>3. /\ ~relativeBranch(kind) /\ ~Relative(f) /\ ~Oversized(f) /\ ~Misfiled(f)
        /\ hasModRM(kind) /\ Addresses(f)
        /\ immSize(kind, f.reg, Size(f), RexW(f)) = Immediate(f)
    BY <1>6, <2>1, <2>2, ThreeByteRow
  <2> QED
    BY <1>2, <1>3, <2>3 DEF Row, kind
<1> QED
  BY <1>1, <1>4, <1>5, <1>6, OpcodeForms
(* What ModRM and SIB ask for. *)
AddressBytes(f) == 1 + (IF hasSib(f.mod, f.rm) THEN 1 ELSE 0) + Displacement(f.mod, f.rm, f.base)

LEMMA AddressingIs ==
  ASSUME NEW f \in Fields
  PROVE  /\ AddressBytes(f) \in Nat \ {0}
         /\ Addressing(f) = IF Addresses(f) THEN AddressBytes(f) ELSE 0
<1> DEFINE mod == f.mod
           rm  == f.rm
           low == f.base
<1>1. mod \in 0..3
  BY FieldsType
<1>2. Displacement(mod, rm, low) =
        IF mod = 1 THEN 1 ELSE IF mod = 2 THEN 4
        ELSE IF mod = 0 /\ (rm = 5 \/ (rm = 4 /\ low = 5)) THEN 4 ELSE 0
  <2>1. hasSib(mod, rm) <=> mod # 3 /\ rm = 4
    BY DEF hasSib
  <2> HIDE DEF mod, rm, low
  <2> QED
    BY <1>1, <2>1 DEF Displacement
<1>3. AddressBytes(f) = 1 + (IF mod # 3 /\ rm = 4 THEN 1 ELSE 0) +
                   (IF mod = 1 THEN 1 ELSE IF mod = 2 THEN 4
                    ELSE IF mod = 0 /\ (rm = 5 \/ (rm = 4 /\ low = 5)) THEN 4 ELSE 0)
  BY <1>2 DEF AddressBytes, hasSib
<1>4. Addressing(f) =
        IF ~Addresses(f) THEN 0
        ELSE IF mod = 3 THEN 1
        ELSE 1 + (IF rm = 4 THEN 1 ELSE 0)
               + (CASE mod = 1 -> 1
                    [] mod = 2 -> 4
                    [] mod = 0 /\ (rm = 5 \/ (rm = 4 /\ low = 5)) -> 4
                    [] OTHER -> 0)
  BY DEF Addressing
<1> HIDE DEF mod, rm, low
<1>5. (CASE mod = 1 -> 1
         [] mod = 2 -> 4
         [] mod = 0 /\ (rm = 5 \/ (rm = 4 /\ low = 5)) -> 4
         [] OTHER -> 0)
      = IF mod = 1 THEN 1 ELSE IF mod = 2 THEN 4
        ELSE IF mod = 0 /\ (rm = 5 \/ (rm = 4 /\ low = 5)) THEN 4 ELSE 0
  BY <1>1
<1>6. AddressBytes(f) \in Nat \ {0}
  BY <1>3
<1>7. Addressing(f) = IF Addresses(f) THEN AddressBytes(f) ELSE 0
  <2>1. CASE mod = 3
    BY <1>3, <1>4, <2>1
  <2>2. CASE mod # 3
    BY <1>3, <1>4, <1>5, <2>2
  <2> QED
    BY <2>1, <2>2
<1> QED
  BY <1>6, <1>7

(* decode()'s answer, with its sums named. *)
LEMMA AnswerIs ==
  ASSUME NEW kind, NEW next, NEW mod, NEW reg, NEW rm, NEW low, NEW rexW, NEW wide,
         NEW imm, NEW tail, NEW length,
         imm = immSize(kind, reg, IF wide THEN 2 ELSE 4, rexW),
         tail = 1 + (IF hasSib(mod, rm) THEN 1 ELSE 0) + Displacement(mod, rm, low),
         length = next - 1 + imm + (IF hasModRM(kind) THEN tail ELSE 0)
  PROVE  Answer(kind, next, mod, reg, rm, low, rexW, wide)
           = IF kind = "invalid" \/ (length > 16 /\ ~relativeBranch(kind)) THEN Undecodable
             ELSE [ok |-> TRUE, length |-> length, relativeBranch |-> relativeBranch(kind),
                   ripAt |-> IF hasModRM(kind) /\ ripRelative(mod, rm) THEN next ELSE 0]
BY DEF Answer

SeenLength(f) ==
  (After(f) + 1) - 1 + Imm(f) + (IF hasModRM(KindOf(f.opcode)) THEN AddressBytes(f) ELSE 0)

LEMMA DecodeIs ==
  ASSUME NEW f \in Fields
  PROVE  LET kind   == KindOf(f.opcode)
             branch == relativeBranch(kind)
         IN Decode(Bytes(f)) =
              IF kind = "invalid" \/ (SeenLength(f) > 16 /\ ~branch) THEN Undecodable
              ELSE [ok |-> TRUE, length |-> SeenLength(f), relativeBranch |-> branch,
                    ripAt |-> IF hasModRM(kind) /\ ripRelative(f.mod, f.rm) THEN After(f) + 1 ELSE 0]
<1> DEFINE kind == KindOf(f.opcode)
           W    == RexW(f)
           D    == Wide(f)
           next == After(f) + 1
           mod  == f.mod
           reg  == f.reg
           rm   == f.rm
           low  == f.base
           imm  == Imm(f)
           tail == AddressBytes(f)
           seen == Decode(Bytes(f))
           length == SeenLength(f)
<1>1. seen = Answer(kind, next, mod, reg, rm, low, W, D)
  BY DecodeSees
<1>2. imm = immSize(kind, reg, IF D THEN 2 ELSE 4, W)
  BY DEF Imm, Size
<1>3. tail = 1 + (IF hasSib(mod, rm) THEN 1 ELSE 0) + Displacement(mod, rm, low)
  BY DEF AddressBytes
<1>4. length = next - 1 + imm + (IF hasModRM(kind) THEN tail ELSE 0)
  BY DEF SeenLength
<1> HIDE DEF W, D, next, mod, reg, rm, low, imm, tail, kind, seen, length
<1>5. seen = IF kind = "invalid" \/ (length > 16 /\ ~relativeBranch(kind)) THEN Undecodable
             ELSE [ok |-> TRUE, length |-> length, relativeBranch |-> relativeBranch(kind),
                   ripAt |-> IF hasModRM(kind) /\ ripRelative(mod, rm) THEN next ELSE 0]
  BY <1>1, <1>2, <1>3, <1>4, AnswerIs
<1> QED
  BY Zenon, <1>5 DEF kind, mod, rm, next, seen, length

LEMMA LengthIs ==
  ASSUME NEW f \in Fields
  PROVE  After(f) \in Nat \ {0} /\ Length(f) = After(f) + Addressing(f) + Immediate(f)
<1> DEFINE n == Len(f.prefixes)
           k == Len(f.rex)
           l == Len(f.opcode)
<1>1. n \in Nat /\ k \in Nat /\ l \in Nat \ {0}
  <2>1. f.rex \in Seq(Byte) /\ n \in Nat
    BY FieldsType
  <2>2. f.opcode \in Opcodes
    BY DEF Fields
  <2>3. l \in 1..3
    BY <2>2, OpcodeForms
  <2>4. k \in Nat
    BY <2>1
  <2> HIDE DEF n, k, l
  <2> QED
    BY <2>1, <2>3, <2>4
<1>2. After(f) = n + k + l /\ Length(f) = n + k + l + Addressing(f) + Immediate(f)
  BY DEF Length, After
<1> HIDE DEF n, k, l
<1> QED
  BY <1>1, <1>2

(* What lies in memory is among the instructions a build may have. *)
LEMMA InstructionType ==
  ASSUME NEW f \in Fields, NEW offset \in Int
  PROVE  Instruction(f, offset) \in Instructions
<1> DEFINE i     == Instruction(f, offset)
           seen  == Decode(Bytes(f))
           ripAt == IF RipRelative(f) THEN After(f) + 1 ELSE 0
<1>1. Imm(f) \in Nat /\ Immediate(f) \in Nat
  <2>1. Size(f) \in Nat
    BY DEF Size
  <2>2. OperandSize(f) \in Nat
    BY DEF OperandSize
  <2> QED
    BY <2>1, <2>2 DEF Imm, immSize, Immediate
<1>2. After(f) \in Nat \ {0} /\ AddressBytes(f) \in Nat /\ Addressing(f) \in Nat
  BY LengthIs, AddressingIs
<1>3. SeenLength(f) \in Nat
  BY <1>1, <1>2 DEF SeenLength
<1>4. Length(f) \in Nat \ {0}
  BY <1>1, <1>2, LengthIs
<1>5. ripAt \in Nat
  BY <1>2
<1>6. seen.length \in Nat /\ seen.ripAt \in Nat
  BY <1>2, <1>3, DecodeIs DEF Undecodable
<1>7. Charted(f) \in BOOLEAN
  BY DEF Charted
<1>8. Operand(seen.relativeBranch, seen.ripAt) \in OperandKinds /\ "unknown" \in OperandKinds
      /\ Operand(Relative(f), ripAt) \in OperandKinds
  BY DEF Operand, OperandKinds
<1>9. i = [length  |-> seen.length,
           operand |-> IF seen.ok THEN Operand(seen.relativeBranch, seen.ripAt) ELSE "unknown",
           at      |-> seen.ripAt,
           offset  |-> IF RipRelative(f) THEN offset ELSE 0,
           charted |-> Charted(f),
           real    |-> [length |-> Length(f), operand |-> Operand(Relative(f), ripAt), at |-> ripAt]]
  BY DEF Instruction, After
<1> HIDE DEF i, seen, ripAt
<1>10. i \in Instructions
  BY <1>4, <1>5, <1>6, <1>7, <1>8, <1>9 DEF Instructions
<1> QED
  BY <1>10 DEF i

(* inline_hook_x86_64.cpp: what it does not know makes decode() fail "instead of
   writing a jump over an instruction it measured wrongly".  Whatever the prefixes,
   the opcode, ModRM and SIB: what it does answer for it has measured right, unless
   the instruction is of one of the two uncharted kinds, and those it has measured
   wrong; no relative branch is let through, and a RIP-relative displacement is
   found where it is. *)
THEOREM DecodeIsRight ==
  ASSUME NEW f \in Fields, NEW offset \in Int
  PROVE  RightlyDecoded(Instruction(f, offset))
<1> DEFINE i      == Instruction(f, offset)
           seen   == Decode(Bytes(f))
           kind   == KindOf(f.opcode)
           q      == After(f)
           branch == relativeBranch(kind)
           modrm  == hasModRM(kind)
           rip    == ripRelative(f.mod, f.rm)
           length == SeenLength(f)
           ripAt  == IF RipRelative(f) THEN q + 1 ELSE 0
<1>1. seen = IF kind = "invalid" \/ (length > 16 /\ ~branch) THEN Undecodable
             ELSE [ok |-> TRUE, length |-> length, relativeBranch |-> branch,
                   ripAt |-> IF modrm /\ rip THEN q + 1 ELSE 0]
  BY DecodeIs
<1>2. /\ i.length = seen.length
      /\ i.operand = IF seen.ok THEN Operand(seen.relativeBranch, seen.ripAt) ELSE "unknown"
      /\ i.at = seen.ripAt
      /\ i.offset = IF RipRelative(f) THEN offset ELSE 0
      /\ i.charted = Charted(f)
      /\ i.real.length = Length(f)
      /\ i.real.operand = Operand(Relative(f), ripAt)
      /\ i.real.at = ripAt
  BY DEF Instruction, After
<1>3. RipRelative(f) <=> Addresses(f) /\ rip
  BY DEF RipRelative, ripRelative
<1>4. q \in Nat /\ Length(f) = q + Addressing(f) + Immediate(f)
  BY LengthIs
<1>5. Charted(f) \in BOOLEAN
  BY DEF Charted
<1> HIDE DEF i, seen, kind, q, branch, modrm, rip, length, ripAt
<1> SUFFICES ASSUME ~Refused(i)
             PROVE  /\ i.length = i.real.length <=> i.charted
                    /\ i.real.operand # "branch"
                    /\ i.charted => /\ i.operand = i.real.operand /\ i.at = i.real.at
                                    /\ i.operand = "none" => i.offset = 0
  BY DEF RightlyDecoded, i
<1>6. i.operand \notin {"unknown", "branch"}
  BY DEF Refused
<1>7. seen.ok /\ ~seen.relativeBranch
  BY <1>2, <1>6 DEF Operand
<1>8. /\ kind # "invalid" /\ ~branch
      /\ seen.length = length /\ seen.ripAt = IF modrm /\ rip THEN q + 1 ELSE 0
  BY <1>1, <1>7 DEF Undecodable
<1>9. ~Relative(f) /\ Row(f) /\ Imm(f) \in Nat /\ Immediate(f) \in Nat
  BY <1>8, RowIs DEF kind, branch
<1>10. /\ AddressBytes(f) \in Nat \ {0}
       /\ Addressing(f) = IF Addresses(f) THEN AddressBytes(f) ELSE 0
  BY AddressingIs
<1>11. length = q + Imm(f) + (IF modrm THEN AddressBytes(f) ELSE 0)
  BY <1>4, <1>9, <1>10 DEF length, SeenLength, q, modrm, kind
<1>12. /\ length = Length(f) <=> Charted(f)
       /\ Charted(f) => (modrm <=> Addresses(f))
  BY <1>4, <1>9, <1>10, <1>11 DEF Row, modrm, kind
<1>13. i.real.operand # "branch"
  BY <1>2, <1>9 DEF Operand
<1>14. ASSUME Charted(f)
       PROVE  i.operand = i.real.operand /\ i.at = i.real.at /\ (i.operand = "none" => i.offset = 0)
  <2>1. seen.ripAt = ripAt
    BY <1>3, <1>8, <1>12, <1>14 DEF ripAt
  <2>2. RipRelative(f) => i.real.operand = "rip"
    BY <1>2, <1>4, <1>9 DEF ripAt, Operand
  <2>3. i.operand = i.real.operand /\ i.at = i.real.at
    BY <1>2, <1>7, <1>9, <2>1 DEF Operand
  <2> QED
    BY <1>2, <2>2, <2>3
<1> QED
  BY <1>2, <1>5, <1>8, <1>12, <1>13, <1>14

-----------------------------------------------------------------------------
(* inline_hook_aarch64.cpp.  A byte is what its bits are worth. *)
LEMMA Halves ==
  ASSUME NEW n \in Nat
  PROVE  n \div 2 \in Nat /\ n % 2 \in {0, 1} /\ n = 2 * (n \div 2) + (n % 2)
OBVIOUS

LEMMA BitsOf ==
  ASSUME NEW b \in 0..255
  PROVE  /\ \A w \in Weights : Bit(b, w) \in {0, 1}
         /\ b = 128 * Bit(b, 128) + 64 * Bit(b, 64) + 32 * Bit(b, 32) + 16 * Bit(b, 16)
                  + 8 * Bit(b, 8) + 4 * Bit(b, 4) + 2 * Bit(b, 2) + Bit(b, 1)
<1>1. \A w \in Weights : Bit(b, w) \in {0, 1}
  BY DEF Bit, Weights
<1>2. /\ b \div 1 = b
      /\ b \div 2 = (b \div 1) \div 2 /\ b \div 4 = (b \div 2) \div 2
      /\ b \div 8 = (b \div 4) \div 2 /\ b \div 16 = (b \div 8) \div 2
      /\ b \div 32 = (b \div 16) \div 2 /\ b \div 64 = (b \div 32) \div 2
      /\ b \div 128 = (b \div 64) \div 2
      /\ b \div 128 \in {0, 1} /\ (b \div 128) % 2 = b \div 128
  OBVIOUS
<1> QED
  BY <1>1, <1>2, Halves DEF Bit

(* What a mask leaves of it. *)
LEMMA AdrMask ==
  ASSUME NEW b \in 0..255
  PROVE  Masked(b, \h9F, \h10) <=> b \in Adr
<1>1. \A w \in Weights : Bit(b, w) \in {0, 1}
  BY BitsOf
<1>2. /\ Bit(\h9F, 128) = 1 /\ Bit(\h9F, 64) = 0 /\ Bit(\h9F, 32) = 0 /\ Bit(\h9F, 16) = 1
      /\ Bit(\h9F, 8) = 1 /\ Bit(\h9F, 4) = 1 /\ Bit(\h9F, 2) = 1 /\ Bit(\h9F, 1) = 1
  BY DEF Bit
<1>3. /\ Bit(\h10, 128) = 0 /\ Bit(\h10, 64) = 0 /\ Bit(\h10, 32) = 0 /\ Bit(\h10, 16) = 1
      /\ Bit(\h10, 8) = 0 /\ Bit(\h10, 4) = 0 /\ Bit(\h10, 2) = 0 /\ Bit(\h10, 1) = 0
  BY DEF Bit
<1>4. Masked(b, \h9F, \h10) <=>
           /\ Bit(b, 128) = 0 /\ Bit(b, 16) = 1 /\ Bit(b, 8) = 0 /\ Bit(b, 4) = 0
           /\ Bit(b, 2) = 0 /\ Bit(b, 1) = 0
  BY <1>1, <1>2, <1>3 DEF Masked, Weights
<1>5. ASSUME Masked(b, \h9F, \h10)
      PROVE  b \in Adr
  <2>1. Bit(b, 64) \in {0, 1} /\ Bit(b, 32) \in {0, 1}
    BY <1>1 DEF Weights
  <2>2. b = 16 + 64 * Bit(b, 64) + 32 * Bit(b, 32)
    BY <1>4, <1>5, <2>1, BitsOf
  <2> QED
    BY <2>1, <2>2 DEF Adr
<1>6. ASSUME b \in Adr
      PROVE  Masked(b, \h9F, \h10)
  BY <1>4, <1>6 DEF Bit, Adr
<1> QED
  BY <1>5, <1>6

LEMMA AdrpMask ==
  ASSUME NEW b \in 0..255
  PROVE  Masked(b, \h9F, \h90) <=> b \in Adrp
<1>1. \A w \in Weights : Bit(b, w) \in {0, 1}
  BY BitsOf
<1>2. /\ Bit(\h9F, 128) = 1 /\ Bit(\h9F, 64) = 0 /\ Bit(\h9F, 32) = 0 /\ Bit(\h9F, 16) = 1
      /\ Bit(\h9F, 8) = 1 /\ Bit(\h9F, 4) = 1 /\ Bit(\h9F, 2) = 1 /\ Bit(\h9F, 1) = 1
  BY DEF Bit
<1>3. /\ Bit(\h90, 128) = 1 /\ Bit(\h90, 64) = 0 /\ Bit(\h90, 32) = 0 /\ Bit(\h90, 16) = 1
      /\ Bit(\h90, 8) = 0 /\ Bit(\h90, 4) = 0 /\ Bit(\h90, 2) = 0 /\ Bit(\h90, 1) = 0
  BY DEF Bit
<1>4. Masked(b, \h9F, \h90) <=>
           /\ Bit(b, 128) = 1 /\ Bit(b, 16) = 1 /\ Bit(b, 8) = 0 /\ Bit(b, 4) = 0
           /\ Bit(b, 2) = 0 /\ Bit(b, 1) = 0
  BY <1>1, <1>2, <1>3 DEF Masked, Weights
<1>5. ASSUME Masked(b, \h9F, \h90)
      PROVE  b \in Adrp
  <2>1. Bit(b, 64) \in {0, 1} /\ Bit(b, 32) \in {0, 1}
    BY <1>1 DEF Weights
  <2>2. b = 144 + 64 * Bit(b, 64) + 32 * Bit(b, 32)
    BY <1>4, <1>5, <2>1, BitsOf
  <2> QED
    BY <2>1, <2>2 DEF Adrp
<1>6. ASSUME b \in Adrp
      PROVE  Masked(b, \h9F, \h90)
  BY <1>4, <1>6 DEF Bit, Adrp
<1> QED
  BY <1>5, <1>6

LEMMA LiteralMask ==
  ASSUME NEW b \in 0..255
  PROVE  Masked(b, \h3B, \h18) <=> b \in Literals \cup {\hDC}
<1>1. \A w \in Weights : Bit(b, w) \in {0, 1}
  BY BitsOf
<1>2. /\ Bit(\h3B, 128) = 0 /\ Bit(\h3B, 64) = 0 /\ Bit(\h3B, 32) = 1 /\ Bit(\h3B, 16) = 1
      /\ Bit(\h3B, 8) = 1 /\ Bit(\h3B, 4) = 0 /\ Bit(\h3B, 2) = 1 /\ Bit(\h3B, 1) = 1
  BY DEF Bit
<1>3. /\ Bit(\h18, 128) = 0 /\ Bit(\h18, 64) = 0 /\ Bit(\h18, 32) = 0 /\ Bit(\h18, 16) = 1
      /\ Bit(\h18, 8) = 1 /\ Bit(\h18, 4) = 0 /\ Bit(\h18, 2) = 0 /\ Bit(\h18, 1) = 0
  BY DEF Bit
<1>4. Masked(b, \h3B, \h18) <=>
           /\ Bit(b, 32) = 0 /\ Bit(b, 16) = 1 /\ Bit(b, 8) = 1 /\ Bit(b, 2) = 0
           /\ Bit(b, 1) = 0
  BY <1>1, <1>2, <1>3 DEF Masked, Weights
<1>5. ASSUME Masked(b, \h3B, \h18)
      PROVE  b \in Literals \cup {\hDC}
  <2>1. Bit(b, 128) \in {0, 1} /\ Bit(b, 64) \in {0, 1} /\ Bit(b, 4) \in {0, 1}
    BY <1>1 DEF Weights
  <2>2. b = 24 + 128 * Bit(b, 128) + 64 * Bit(b, 64) + 4 * Bit(b, 4)
    BY <1>4, <1>5, <2>1, BitsOf
  <2> QED
    BY <2>1, <2>2 DEF Literals
<1>6. ASSUME b \in Literals \cup {\hDC}
      PROVE  Masked(b, \h3B, \h18)
  BY <1>4, <1>6 DEF Bit, Literals
<1> QED
  BY <1>5, <1>6

LEMMA UnconditionalMask ==
  ASSUME NEW b \in 0..255
  PROVE  Masked(b, \h7C, \h14) <=> b \in \h14..\h17 \cup \h94..\h97
<1>1. \A w \in Weights : Bit(b, w) \in {0, 1}
  BY BitsOf
<1>2. /\ Bit(\h7C, 128) = 0 /\ Bit(\h7C, 64) = 1 /\ Bit(\h7C, 32) = 1 /\ Bit(\h7C, 16) = 1
      /\ Bit(\h7C, 8) = 1 /\ Bit(\h7C, 4) = 1 /\ Bit(\h7C, 2) = 0 /\ Bit(\h7C, 1) = 0
  BY DEF Bit
<1>3. /\ Bit(\h14, 128) = 0 /\ Bit(\h14, 64) = 0 /\ Bit(\h14, 32) = 0 /\ Bit(\h14, 16) = 1
      /\ Bit(\h14, 8) = 0 /\ Bit(\h14, 4) = 1 /\ Bit(\h14, 2) = 0 /\ Bit(\h14, 1) = 0
  BY DEF Bit
<1>4. Masked(b, \h7C, \h14) <=>
           /\ Bit(b, 64) = 0 /\ Bit(b, 32) = 0 /\ Bit(b, 16) = 1 /\ Bit(b, 8) = 0
           /\ Bit(b, 4) = 1
  BY <1>1, <1>2, <1>3 DEF Masked, Weights
<1>5. ASSUME Masked(b, \h7C, \h14)
      PROVE  b \in \h14..\h17 \cup \h94..\h97
  <2>1. Bit(b, 128) \in {0, 1} /\ Bit(b, 2) \in {0, 1} /\ Bit(b, 1) \in {0, 1}
    BY <1>1 DEF Weights
  <2>2. b = 20 + 128 * Bit(b, 128) + 2 * Bit(b, 2) + Bit(b, 1)
    BY <1>4, <1>5, <2>1, BitsOf
  <2> QED
    BY <2>1, <2>2
<1>6. ASSUME b \in \h14..\h17 \cup \h94..\h97
      PROVE  Masked(b, \h7C, \h14)
  BY <1>4, <1>6 DEF Bit
<1> QED
  BY <1>5, <1>6

LEMMA ConditionalMask ==
  ASSUME NEW b \in 0..255
  PROVE  Masked(b, \hFF, \h54) <=> b \in {\h54}
<1>1. \A w \in Weights : Bit(b, w) \in {0, 1}
  BY BitsOf
<1>2. /\ Bit(\hFF, 128) = 1 /\ Bit(\hFF, 64) = 1 /\ Bit(\hFF, 32) = 1 /\ Bit(\hFF, 16) = 1
      /\ Bit(\hFF, 8) = 1 /\ Bit(\hFF, 4) = 1 /\ Bit(\hFF, 2) = 1 /\ Bit(\hFF, 1) = 1
  BY DEF Bit
<1>3. /\ Bit(\h54, 128) = 0 /\ Bit(\h54, 64) = 1 /\ Bit(\h54, 32) = 0 /\ Bit(\h54, 16) = 1
      /\ Bit(\h54, 8) = 0 /\ Bit(\h54, 4) = 1 /\ Bit(\h54, 2) = 0 /\ Bit(\h54, 1) = 0
  BY DEF Bit
<1>4. Masked(b, \hFF, \h54) <=>
           /\ Bit(b, 128) = 0 /\ Bit(b, 64) = 1 /\ Bit(b, 32) = 0 /\ Bit(b, 16) = 1
           /\ Bit(b, 8) = 0 /\ Bit(b, 4) = 1 /\ Bit(b, 2) = 0 /\ Bit(b, 1) = 0
  BY <1>1, <1>2, <1>3 DEF Masked, Weights
<1>5. ASSUME Masked(b, \hFF, \h54)
      PROVE  b \in {\h54}
  BY <1>4, <1>5, BitsOf
<1>6. ASSUME b \in {\h54}
      PROVE  Masked(b, \hFF, \h54)
  BY <1>4, <1>6 DEF Bit
<1> QED
  BY <1>5, <1>6

LEMMA CompareMask ==
  ASSUME NEW b \in 0..255
  PROVE  Masked(b, \h7E, \h34) <=> b \in {\h34, \hB4, \h35, \hB5}
<1>1. \A w \in Weights : Bit(b, w) \in {0, 1}
  BY BitsOf
<1>2. /\ Bit(\h7E, 128) = 0 /\ Bit(\h7E, 64) = 1 /\ Bit(\h7E, 32) = 1 /\ Bit(\h7E, 16) = 1
      /\ Bit(\h7E, 8) = 1 /\ Bit(\h7E, 4) = 1 /\ Bit(\h7E, 2) = 1 /\ Bit(\h7E, 1) = 0
  BY DEF Bit
<1>3. /\ Bit(\h34, 128) = 0 /\ Bit(\h34, 64) = 0 /\ Bit(\h34, 32) = 1 /\ Bit(\h34, 16) = 1
      /\ Bit(\h34, 8) = 0 /\ Bit(\h34, 4) = 1 /\ Bit(\h34, 2) = 0 /\ Bit(\h34, 1) = 0
  BY DEF Bit
<1>4. Masked(b, \h7E, \h34) <=>
           /\ Bit(b, 64) = 0 /\ Bit(b, 32) = 1 /\ Bit(b, 16) = 1 /\ Bit(b, 8) = 0
           /\ Bit(b, 4) = 1 /\ Bit(b, 2) = 0
  BY <1>1, <1>2, <1>3 DEF Masked, Weights
<1>5. ASSUME Masked(b, \h7E, \h34)
      PROVE  b \in {\h34, \hB4, \h35, \hB5}
  <2>1. Bit(b, 128) \in {0, 1} /\ Bit(b, 1) \in {0, 1}
    BY <1>1 DEF Weights
  <2>2. b = 52 + 128 * Bit(b, 128) + Bit(b, 1)
    BY <1>4, <1>5, <2>1, BitsOf
  <2> QED
    BY <2>1, <2>2
<1>6. ASSUME b \in {\h34, \hB4, \h35, \hB5}
      PROVE  Masked(b, \h7E, \h34)
  BY <1>4, <1>6 DEF Bit
<1> QED
  BY <1>5, <1>6

LEMMA TestMask ==
  ASSUME NEW b \in 0..255
  PROVE  Masked(b, \h7E, \h36) <=> b \in {\h36, \hB6, \h37, \hB7}
<1>1. \A w \in Weights : Bit(b, w) \in {0, 1}
  BY BitsOf
<1>2. /\ Bit(\h7E, 128) = 0 /\ Bit(\h7E, 64) = 1 /\ Bit(\h7E, 32) = 1 /\ Bit(\h7E, 16) = 1
      /\ Bit(\h7E, 8) = 1 /\ Bit(\h7E, 4) = 1 /\ Bit(\h7E, 2) = 1 /\ Bit(\h7E, 1) = 0
  BY DEF Bit
<1>3. /\ Bit(\h36, 128) = 0 /\ Bit(\h36, 64) = 0 /\ Bit(\h36, 32) = 1 /\ Bit(\h36, 16) = 1
      /\ Bit(\h36, 8) = 0 /\ Bit(\h36, 4) = 1 /\ Bit(\h36, 2) = 1 /\ Bit(\h36, 1) = 0
  BY DEF Bit
<1>4. Masked(b, \h7E, \h36) <=>
           /\ Bit(b, 64) = 0 /\ Bit(b, 32) = 1 /\ Bit(b, 16) = 1 /\ Bit(b, 8) = 0
           /\ Bit(b, 4) = 1 /\ Bit(b, 2) = 1
  BY <1>1, <1>2, <1>3 DEF Masked, Weights
<1>5. ASSUME Masked(b, \h7E, \h36)
      PROVE  b \in {\h36, \hB6, \h37, \hB7}
  <2>1. Bit(b, 128) \in {0, 1} /\ Bit(b, 1) \in {0, 1}
    BY <1>1 DEF Weights
  <2>2. b = 54 + 128 * Bit(b, 128) + Bit(b, 1)
    BY <1>4, <1>5, <2>1, BitsOf
  <2> QED
    BY <2>1, <2>2
<1>6. ASSUME b \in {\h36, \hB6, \h37, \hB7}
      PROVE  Masked(b, \h7E, \h36)
  BY <1>4, <1>6 DEF Bit
<1> QED
  BY <1>5, <1>6

(* decode() knows what every word of Armv8.0 is. *)
LEMMA OperandIs ==
  ASSUME NEW reach, NEW w \in Words(reach), ~Unallocated(w)
  PROVE  /\ OperandOf(w) = Names(w)
         /\ isAdr(w) <=> w.op \in Adr
         /\ isAdrp(w) <=> w.op \in Adrp
         /\ isLdrLiteral(w) <=> w.op \in Literals
<1>1. w.op \in 0..255 /\ w.low \in 0..31 /\ w.op # \hDC /\ (w.op = \h54 => w.low < 16)
  BY DEF Words, Unallocated
<1>2. isAdr(w) <=> w.op \in Adr
  BY <1>1, AdrMask DEF isAdr
<1>3. isAdrp(w) <=> w.op \in Adrp
  BY <1>1, AdrpMask DEF isAdrp
<1>4. isLdrLiteral(w) <=> w.op \in Literals
  BY <1>1, LiteralMask DEF isLdrLiteral, Literals
<1>5. Unconditional(w) <=> w.op \in \h14..\h17 \cup \h94..\h97
  BY <1>1, UnconditionalMask DEF Unconditional
<1>6. Conditional(w) <=> w.op = \h54
  <2>1. w.op = \h54 => Bit(w.low, 16) = 0
    BY <1>1 DEF Bit
  <2> QED
    BY <1>1, <2>1, ConditionalMask DEF Conditional
<1>7. CompareAndBranch(w) <=> w.op \in {\h34, \hB4, \h35, \hB5}
  BY <1>1, CompareMask DEF CompareAndBranch
<1>8. TestAndBranch(w) <=> w.op \in {\h36, \hB6, \h37, \hB7}
  BY <1>1, TestMask DEF TestAndBranch
<1>9. isBranchImmediate(w) <=> w.op \in Branches
  BY <1>5, <1>6, <1>7, <1>8 DEF isBranchImmediate, Branches
<1>10. /\ Branches \cap Adr = {} /\ Branches \cap Adrp = {} /\ Branches \cap Literals = {}
       /\ Adr \cap Adrp = {} /\ Adr \cap Literals = {} /\ Adrp \cap Literals = {}
  BY DEF Branches, Adr, Adrp, Literals
<1>11. OperandOf(w) = Names(w)
  BY <1>2, <1>3, <1>4, <1>9, <1>10 DEF OperandOf, Names
<1> QED
  BY <1>2, <1>3, <1>4, <1>11

(* Two's complement. *)
LEMMA SignedIs ==
  ASSUME NEW half \in Nat \ {0}, NEW bits \in 0..2 * half - 1
  PROVE  /\ signExtend(bits, half) = Signed(bits, half)
         /\ Signed(bits, half) \in -half..half - 1
<1> DEFINE e == signExtend(bits, half)
<1>1. e = IF bits < half THEN bits ELSE bits - 2 * half
  <2>1. CASE bits < half
    <3>1. bits + half \in 0..2 * half - 1
      BY <2>1
    <3>2. (bits + half) % (2 * half) = bits + half
      BY <3>1
    <3> QED
      BY <2>1, <3>2 DEF signExtend
  <2>2. CASE ~(bits < half)
    <3>1. bits - half \in 0..2 * half - 1 /\ bits + half = (bits - half) + 2 * half
      BY <2>2
    <3>2. (bits + half) % (2 * half) = bits - half
      BY <3>1
    <3> QED
      BY <2>2, <3>2 DEF signExtend
  <2> QED
    BY <2>1, <2>2
<1>2. e \in -half..half - 1
  BY <1>1
<1>3. \A v \in -half..half - 1 : v % (2 * half) = IF v < 0 THEN v + 2 * half ELSE v
  OBVIOUS
<1> HIDE DEF e
<1>4. e % (2 * half) = bits
  BY <1>1, <1>2, <1>3
<1>5. \A v \in -half..half - 1 : v % (2 * half) = bits => v = e
  BY <1>1, <1>3
<1>6. Signed(bits, half) = e
  BY <1>2, <1>4, <1>5 DEF Signed
<1> QED
  BY <1>2, <1>6 DEF e

(* The reaches an immediate can have. *)
LEMMA ReachIs ==
  ASSUME NEW r \in Nat \ {0}, r % 4 = 0
  PROVE  r \div 4 \in Nat \ {0} /\ r \div 2 = 2 * (r \div 4) /\ r = 4 * (r \div 4)
OBVIOUS

LEMMA ImmediateIsRead ==
  ASSUME NEW reach \in Nat \ {0}, reach % 4 = 0, NEW w \in Words(reach), ~Unallocated(w)
  PROVE  OffsetOf(w, reach) = A64Immediate(w, reach) /\ OffsetOf(w, reach) \in -reach..reach - 1
<1> DEFINE quarter == reach \div 4
<1>1. quarter \in Nat \ {0} /\ reach \div 2 = 2 * quarter /\ reach = 4 * quarter
  BY ReachIs
<1>2. w.op \in 0..255 /\ w.field \in 0..2 * quarter - 1
  BY <1>1 DEF Words
<1>3. (w.op \div 32) % 4 \in 0..3
  BY <1>2
<1> HIDE DEF quarter
<1>4. 4 * w.field + ((w.op \div 32) % 4) \in 0..2 * reach - 1
  BY <1>1, <1>2, <1>3
<1>5. /\ isAdr(w) <=> w.op \in Adr
      /\ isAdrp(w) <=> w.op \in Adrp
      /\ isLdrLiteral(w) <=> w.op \in Literals
  BY OperandIs
<1>6. CASE w.op \in Adr \cup Adrp
  <2>1. OffsetOf(w, reach) = signExtend(4 * w.field + ((w.op \div 32) % 4), reach)
    BY <1>5, <1>6 DEF OffsetOf, adrOffset, immlo
  <2>2. w.op \notin Literals
    BY <1>6 DEF Adr, Adrp, Literals
  <2>3. A64Immediate(w, reach) = Signed(4 * w.field + ((w.op \div 32) % 4), reach)
    BY <1>6, <2>2 DEF A64Immediate
  <2> QED
    BY <1>4, <2>1, <2>3, SignedIs
<1>7. CASE w.op \in Literals
  <2>1. w.op \notin Adr \cup Adrp
    BY <1>7 DEF Adr, Adrp, Literals
  <2>2. OffsetOf(w, reach) = signExtend(w.field, quarter)
    BY <1>5, <1>7, <2>1 DEF OffsetOf, ldrOffset, quarter
  <2>3. A64Immediate(w, reach) = Signed(w.field, quarter)
    BY <1>7, <2>1 DEF A64Immediate, quarter
  <2>4. OffsetOf(w, reach) = A64Immediate(w, reach) /\ OffsetOf(w, reach) \in -quarter..quarter - 1
    BY <1>1, <1>2, <2>2, <2>3, SignedIs
  <2> QED
    BY <1>1, <2>4
<1>8. CASE w.op \notin Adr \cup Adrp \cup Literals
  <2>1. OffsetOf(w, reach) = 0
    BY <1>5, <1>8 DEF OffsetOf
  <2>2. A64Immediate(w, reach) = 0
    BY <1>8 DEF A64Immediate
  <2> QED
    BY <2>1, <2>2
<1> QED
  BY <1>6, <1>7, <1>8

(* What lies there is among the instructions a build may have. *)
LEMMA A64InstructionType ==
  ASSUME NEW reach \in Nat \ {0}, reach % 4 = 0, NEW w \in Words(reach), ~Unallocated(w)
  PROVE  A64Instruction(w, reach) \in Instructions
<1>1. OffsetOf(w, reach) \in Int
  BY ImmediateIsRead
<1>2. Names(w) \in OperandKinds
  BY DEF Names, OperandKinds
<1>3. OperandOf(w) \in OperandKinds
  BY <1>2, OperandIs
<1>4. [length |-> 4, operand |-> OperandOf(w), at |-> 0, offset |-> OffsetOf(w, reach),
       charted |-> TRUE, real |-> [length |-> 4, operand |-> Names(w), at |-> 0]] \in Instructions
  BY <1>1, <1>2, <1>3 DEF Instructions
<1> QED
  BY <1>4 DEF A64Instruction

(* inline_hook_aarch64.cpp: of every word of Armv8.0, whatever its registers and its
   immediate, decode() knows whether it is a branch, an ADR, an ADRP, a literal or none
   of them, and the immediate is put together to the number it stands for. *)
THEOREM A64DecodeIsRight ==
  ASSUME NEW reach \in Nat \ {0}, reach % 4 = 0, NEW w \in Words(reach), ~Unallocated(w)
  PROVE  /\ RightlyDecoded(A64Instruction(w, reach))
         /\ A64Instruction(w, reach).offset = A64Immediate(w, reach)
<1> DEFINE i == A64Instruction(w, reach)
<1>1. /\ i.length = 4 /\ i.operand = OperandOf(w) /\ i.at = 0 /\ i.offset = OffsetOf(w, reach)
      /\ i.charted = TRUE /\ i.real.length = 4 /\ i.real.operand = Names(w) /\ i.real.at = 0
  BY DEF A64Instruction
<1> HIDE DEF i
<1>2. OperandOf(w) = Names(w)
  BY OperandIs
<1>3. OperandOf(w) = "none" => OffsetOf(w, reach) = 0
  BY DEF OperandOf, OffsetOf
<1>4. RightlyDecoded(i)
  BY <1>1, <1>2, <1>3 DEF RightlyDecoded, Refused
<1> QED
  BY <1>1, <1>4, ImmediateIsRead DEF i

(* setAdrOffset(): what it changes of the word is the immediate. *)
LEMMA AdrIsRewritten ==
  ASSUME NEW reach \in Nat \ {0}, reach % 4 = 0, NEW w \in Words(reach), ~Unallocated(w),
         w.op \in Adr \cup Adrp, NEW delta \in -reach..reach - 1
  PROVE  LET v == setAdrOffset(w, delta, reach)
         IN /\ v \in Words(reach) /\ ~Unallocated(v) /\ v.low = w.low
            /\ v.op \in Adr <=> w.op \in Adr
            /\ v.op \in Adrp <=> w.op \in Adrp
            /\ adrOffset(v, reach) = delta
<1> DEFINE quarter == reach \div 4
           imm     == delta % (2 * reach)
           v       == setAdrOffset(w, delta, reach)
           op      == w.op - 32 * immlo(w) + 32 * (imm % 4)
           field   == (imm \div 4) % (reach \div 2)
<1>1. quarter \in Nat \ {0} /\ reach \div 2 = 2 * quarter /\ reach = 4 * quarter
  BY ReachIs
<1>2. imm = IF delta < 0 THEN delta + 2 * reach ELSE delta
  OBVIOUS
<1>3. imm \in 0..2 * reach - 1
  BY <1>2
<1>4. v = [w EXCEPT !.op = op, !.field = field]
  BY DEF setAdrOffset
<1> HIDE DEF imm, v, quarter
<1>5. imm \div 4 \in 0..2 * quarter - 1 /\ imm % 4 \in 0..3 /\ imm = 4 * (imm \div 4) + (imm % 4)
  BY <1>1, <1>3
<1>6. field = imm \div 4
  BY <1>1, <1>5
<1>7. /\ w.op \in Adr => op \in Adr /\ op \notin Adrp /\ w.op \notin Adrp
      /\ w.op \in Adrp => op \in Adrp /\ op \notin Adr /\ w.op \notin Adr
      /\ (op \div 32) % 4 = imm % 4 /\ op \in 0..255 /\ op # \hDC /\ op # \h54
  BY <1>5 DEF Adr, Adrp, immlo
<1> HIDE DEF op, field
<1>8. v.op = op /\ v.field = field /\ v.low = w.low /\ v \in Words(reach)
  <2>1. op \in 0..255 /\ field \in 0..reach \div 2 - 1
    BY <1>1, <1>5, <1>6, <1>7
  <2>2. w \in [op: 0..255, field: 0..reach \div 2 - 1, low: 0..31]
    BY DEF Words
  <2>3. v.op = op /\ v.field = field /\ v.low = w.low
    BY <1>4, <2>2
  <2>4. v \in Words(reach)
    <3> DEFINE fields == 0..reach \div 2 - 1
               u      == [w EXCEPT !.op = op]
    <3>1. field \in fields /\ w \in [op: 0..255, field: fields, low: 0..31]
      BY <2>1, <2>2
    <3>2. v = [u EXCEPT !.field = field]
      BY <1>4, <3>1
    <3> HIDE DEF fields
    <3>3. u \in [op: 0..255, field: fields, low: 0..31]
      BY <2>1, <3>1
    <3> HIDE DEF u
    <3>4. v \in [op: 0..255, field: fields, low: 0..31]
      BY <3>1, <3>2, <3>3
    <3> QED
      BY <3>4 DEF Words, fields
  <2> QED
    BY <2>3, <2>4
<1>9. adrOffset(v, reach) = signExtend(imm, reach)
  <2>1. 4 * field + ((op \div 32) % 4) = imm
    BY <1>5, <1>6, <1>7
  <2> QED
    BY <1>8, <2>1 DEF adrOffset, immlo
<1>10. signExtend(imm, reach) = delta
  <2>1. delta % (2 * reach) = imm
    BY DEF imm
  <2>2. Signed(imm, reach) = signExtend(imm, reach) /\ signExtend(imm, reach) \in -reach..reach - 1
    BY <1>3, SignedIs
  <2>3. CASE delta < 0
    <3>1. imm = delta + 2 * reach /\ imm + reach = (delta + reach) + 2 * reach
      BY <1>2, <2>3
    <3>2. (imm + reach) % (2 * reach) = delta + reach
      BY <2>3, <3>1
    <3> QED
      BY <3>2 DEF signExtend
  <2>4. CASE ~(delta < 0)
    <3>1. imm = delta /\ (imm + reach) % (2 * reach) = delta + reach
      BY <1>2, <2>4
    <3> QED
      BY <3>1 DEF signExtend
  <2> QED
    BY <2>3, <2>4
<1>11. ~Unallocated(v)
  BY <1>7, <1>8 DEF Unallocated
<1>12. /\ v.op \in Adr <=> w.op \in Adr
       /\ v.op \in Adrp <=> w.op \in Adrp
  BY <1>7, <1>8
<1> QED
  BY <1>8, <1>9, <1>10, <1>11, <1>12 DEF v

LEMMA LdrIsRewritten ==
  ASSUME NEW reach \in Nat \ {0}, reach % 4 = 0, NEW w \in Words(reach), ~Unallocated(w),
         w.op \in Literals, NEW words \in -(reach \div 4)..(reach \div 4) - 1
  PROVE  LET v == setLdrOffset(w, words, reach)
         IN /\ v \in Words(reach) /\ v.op = w.op /\ v.low = w.low
            /\ ldrOffset(v, reach) = words
<1> DEFINE quarter == reach \div 4
           field   == words % (reach \div 2)
           v       == setLdrOffset(w, words, reach)
<1>1. quarter \in Nat \ {0} /\ reach \div 2 = 2 * quarter
  BY ReachIs
<1>2. field = words % (2 * quarter)
  BY <1>1
<1>3. words \in -quarter..quarter - 1
  OBVIOUS
<1>4. v = [w EXCEPT !.field = field]
  BY DEF setLdrOffset
<1>5. ldrOffset(v, reach) = signExtend(v.field, quarter)
  BY DEF ldrOffset
<1> HIDE DEF quarter, field, v
<1>6. field = IF words < 0 THEN words + 2 * quarter ELSE words
  BY <1>1, <1>2, <1>3
<1>7. field \in 0..2 * quarter - 1
  BY <1>1, <1>3, <1>6
<1>8. v.field = field /\ v.op = w.op /\ v.low = w.low /\ v \in Words(reach)
  BY <1>1, <1>4, <1>7 DEF Words
<1>9. signExtend(field, quarter) = words
  <2>1. (field + quarter) % (2 * quarter) = words + quarter
    <3>1. CASE words < 0
      <4>1. /\ field + quarter = (words + quarter) + 2 * quarter
            /\ words + quarter \in 0..2 * quarter - 1
        BY <1>1, <1>3, <1>6, <3>1
      <4> QED
        BY <1>1, <4>1
    <3>2. CASE ~(words < 0)
      <4>1. field + quarter = words + quarter /\ words + quarter \in 0..2 * quarter - 1
        BY <1>1, <1>3, <1>6, <3>2
      <4> QED
        BY <1>1, <4>1
    <3> QED
      BY <3>1, <3>2
  <2> QED
    BY <1>1, <1>3, <2>1 DEF signExtend
<1> QED
  BY <1>5, <1>8, <1>9 DEF v

(* relocate(): the word that is written is the one Trampoline speaks of: the same
   instruction on the same register, its immediate the distance from the new place. *)
THEOREM CopiesAreWritten ==
  ASSUME build \in Builds, NEW w \in Words(build.reach), ~Unallocated(w), OperandOf(w) # "branch",
         NEW from \in Int, NEW to \in Int,
         NEW i, i = A64Instruction(w, build.reach),
         NEW delta, delta = Rebased(i, from, to), Fits(i, delta)
  PROVE  /\ A64Instruction(Rewritten(w, delta, build.reach), build.reach) = Encoded(i, delta)
         /\ Rewritten(w, delta, build.reach).low = w.low
<1> DEFINE reach == build.reach
           v     == Rewritten(w, delta, reach)
           o     == IF i.operand = "ldr" THEN SignExtend(delta \div 4, reach \div 4)
                                         ELSE SignExtend(delta, reach)
<1>1. reach \in Nat \ {0} /\ reach % 4 = 0
  BY BuildType
<1>2. w \in Words(reach) /\ i = A64Instruction(w, reach) /\ i \in Instructions
  BY <1>1, A64InstructionType
<1>3. /\ Encoded(i, delta) = [i EXCEPT !.offset = o]
      /\ i.operand = "ldr" => delta % 4 = 0 /\ delta \in -reach..reach - 4
      /\ i.operand # "ldr" => delta \in -reach..reach - 1
  BY DEF Encoded, Fits
<1>4. v = IF isAdrp(w) \/ isAdr(w) THEN setAdrOffset(w, delta, reach)
          ELSE IF isLdrLiteral(w) THEN setLdrOffset(w, delta \div 4, reach)
          ELSE w
  BY DEF Rewritten
<1>5. delta \in Int
  BY <1>2, RebasedType
<1>6. i.operand = Names(w) /\ w.op \notin Branches
  <2>1. i.operand = OperandOf(w)
    BY <1>2 DEF A64Instruction
  <2>2. OperandOf(w) = Names(w)
    BY <1>2, OperandIs
  <2>3. w.op \in Branches => w.op \notin Adr /\ w.op \notin Adrp /\ w.op \notin Literals
    BY DEF Branches, Adr, Adrp, Literals
  <2>4. w.op \in Branches => Names(w) = "branch"
    BY <2>3 DEF Names
  <2> QED
    BY <2>1, <2>2, <2>4
<1>7. /\ isAdr(w) <=> w.op \in Adr
      /\ isAdrp(w) <=> w.op \in Adrp
      /\ isLdrLiteral(w) <=> w.op \in Literals
  BY <1>2, OperandIs
<1> SUFFICES A64Instruction(v, reach) = Encoded(i, delta) /\ v.low = w.low
  OBVIOUS
<1> HIDE DEF reach, v
<1>8. ASSUME v \in Words(reach), ~Unallocated(v), v.low = w.low, Names(v) = Names(w),
             OffsetOf(v, reach) = o
      PROVE  A64Instruction(v, reach) = Encoded(i, delta) /\ v.low = w.low
  <2>1. OperandOf(v) = Names(w) /\ OperandOf(w) = Names(w)
    BY <1>2, <1>8, OperandIs
  <2>2. A64Instruction(v, reach) =
          [length |-> 4, operand |-> Names(w), at |-> 0, offset |-> o,
           charted |-> TRUE, real |-> [length |-> 4, operand |-> Names(w), at |-> 0]]
    BY <1>8, <2>1 DEF A64Instruction
  <2>3. i = [length |-> 4, operand |-> Names(w), at |-> 0, offset |-> OffsetOf(w, reach),
             charted |-> TRUE, real |-> [length |-> 4, operand |-> Names(w), at |-> 0]]
    BY <1>2, <2>1 DEF A64Instruction
  <2> HIDE DEF o
  <2>4. Encoded(i, delta) =
          [length |-> 4, operand |-> Names(w), at |-> 0, offset |-> o,
           charted |-> TRUE, real |-> [length |-> 4, operand |-> Names(w), at |-> 0]]
    <3> DEFINE k == Names(w)
               q == OffsetOf(w, reach)
               c == TRUE
               r == [length |-> 4, operand |-> Names(w), at |-> 0]
    <3>1. Encoded(i, delta) = [i EXCEPT !.offset = o]
      BY <1>3
    <3>2. i = [length |-> 4, operand |-> k, at |-> 0, offset |-> q, charted |-> c, real |-> r]
      BY <2>3
    <3> SUFFICES Encoded(i, delta) =
                   [length |-> 4, operand |-> k, at |-> 0, offset |-> o, charted |-> c, real |-> r]
      OBVIOUS
    <3> HIDE DEF k, q, c, r
    <3>3. [i EXCEPT !.offset = o] =
            [length |-> 4, operand |-> k, at |-> 0, offset |-> o, charted |-> c, real |-> r]
      BY <3>2
    <3> QED
      BY <3>1, <3>3
  <2> QED
    BY <1>8, <2>2, <2>4
<1>9. CASE w.op \in Adr \cup Adrp
  <2>1. w.op \notin Literals /\ (w.op \in Adr => w.op \notin Adrp)
    BY <1>9 DEF Adr, Adrp, Literals
  <2>2. i.operand # "ldr"
    BY <1>6, <1>9, <2>1 DEF Names
  <2>3. delta \in -reach..reach - 1 /\ o = delta
    BY <1>1, <1>3, <1>5, <2>2, SignExtendKeeps
  <2>4. v = setAdrOffset(w, delta, reach)
    BY <1>4, <1>7, <1>9
  <2>5. /\ v \in Words(reach) /\ ~Unallocated(v) /\ v.low = w.low
        /\ v.op \in Adr <=> w.op \in Adr
        /\ v.op \in Adrp <=> w.op \in Adrp
        /\ adrOffset(v, reach) = delta
    BY <1>1, <1>2, <1>9, <2>3, <2>4, AdrIsRewritten
  <2>6. v.op \notin Branches /\ v.op \notin Literals
    BY <1>9, <2>5 DEF Adr, Adrp, Branches, Literals
  <2>7. Names(v) = Names(w)
    BY <1>6, <1>9, <2>1, <2>5, <2>6 DEF Names
  <2>8. OffsetOf(v, reach) = delta
    <3>1. isAdr(v) \/ isAdrp(v)
      BY <1>9, <2>5, OperandIs
    <3> QED
      BY <2>5, <3>1 DEF OffsetOf
  <2> QED
    BY <1>8, <2>3, <2>5, <2>7, <2>8
<1>10. CASE w.op \in Literals
  <2>1. w.op \notin Adr /\ w.op \notin Adrp
    BY <1>10 DEF Adr, Adrp, Literals
  <2>2. i.operand = "ldr"
    BY <1>6, <1>10, <2>1 DEF Names
  <2>3. delta \div 4 \in -(reach \div 4)..(reach \div 4) - 1 /\ delta \div 4 \in Int
        /\ reach \div 4 \in Nat \ {0}
    BY <1>1, <1>3, <1>5, <2>2, QuarterOf
  <2>4. o = delta \div 4
    BY <2>2, <2>3, SignExtendKeeps
  <2>5. v = setLdrOffset(w, delta \div 4, reach)
    BY <1>4, <1>7, <1>10, <2>1
  <2>6. v \in Words(reach) /\ v.op = w.op /\ v.low = w.low /\ ldrOffset(v, reach) = delta \div 4
    BY <1>1, <1>2, <1>10, <2>3, <2>5, LdrIsRewritten
  <2>7. ~Unallocated(v) /\ Names(v) = Names(w)
    BY <2>6 DEF Unallocated, Names
  <2>8. isLdrLiteral(v) /\ ~isAdr(v) /\ ~isAdrp(v)
    BY <1>10, <2>1, <2>6, <2>7, OperandIs
  <2>9. OffsetOf(v, reach) = delta \div 4
    BY <2>6, <2>8 DEF OffsetOf
  <2> QED
    BY <1>8, <2>4, <2>6, <2>7, <2>9
<1>11. CASE w.op \notin Adr \cup Adrp \cup Literals
  <2>1. i.operand = "none"
    BY <1>6, <1>11 DEF Names
  <2>2. delta = 0
    BY <2>1 DEF Rebased
  <2>3. o = SignExtend(0, reach) /\ 0 \in -reach..reach - 1
    BY <1>1, <2>1, <2>2
  <2>4. o = 0
    BY <1>1, <2>3, SignExtendKeeps
  <2>5. v = w
    BY <1>4, <1>7, <1>11
  <2>6. OffsetOf(w, reach) = 0
    BY <1>7, <1>11 DEF OffsetOf
  <2> QED
    BY <1>2, <1>8, <2>4, <2>5, <2>6
<1> QED
  BY <1>9, <1>10, <1>11

-----------------------------------------------------------------------------
(* The builds there are: whatever lies at the hooked address, decode() of the one or of
   the other has read it.  Of both such builds there are (InstructionType,
   A64InstructionType). *)
DecodedFromBytes(b) ==
  \A i \in b.first \cup b.next : \E f \in Fields, offset \in Int : i = Instruction(f, offset)

DecodedFromWords(b) ==
  \A i \in b.first \cup b.next :
    \E w \in Words(b.reach) : ~Unallocated(w) /\ i = A64Instruction(w, b.reach)

DecodedFromMemory == \A b \in Builds : DecodedFromBytes(b) \/ DecodedFromWords(b)

LEMMA MemoryDecodesRight ==
  ASSUME DecodedFromMemory
  PROVE  DecodedRight
<1> SUFFICES ASSUME NEW b \in Builds, NEW i \in b.first \cup b.next
             PROVE  RightlyDecoded(i)
  BY DEF DecodedRight
<1>1. CASE DecodedFromBytes(b)
  BY <1>1, DecodeIsRight DEF DecodedFromBytes
<1>2. CASE DecodedFromWords(b)
  <2>1. b.reach \in Nat \ {0} /\ b.reach % 4 = 0
    BY BuildType
  <2>2. PICK w \in Words(b.reach) : ~Unallocated(w) /\ i = A64Instruction(w, b.reach)
    BY <1>2 DEF DecodedFromWords
  <2> QED
    BY <2>1, <2>2, A64DecodeIsRight
<1> QED
  BY <1>1, <1>2 DEF DecodedFromMemory

(* Nothing is left to suppose of the decoders: of any prologue of such instructions, on
   either architecture, the hook moves whole instructions, and each copy of a charted
   one names what the original named. *)
THEOREM HookedCodeIsKept ==
  ASSUME DecodedFromMemory
  PROVE  Spec => [](WholeInstructions /\ OperandsKept)
<1>1. Spec => []WholeInstructions
  BY MemoryDecodesRight, WholeInstructionsMove
<1>2. Spec => []OperandsKept
  BY MemoryDecodesRight, CopiesMeanTheSame
<1> QED
  BY <1>1, <1>2, PTL
=============================================================================
