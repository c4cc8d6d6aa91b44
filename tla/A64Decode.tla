----------------------------- MODULE A64Decode ------------------------------
(* inline_hook_aarch64.cpp, decode(): is the instruction the hooker is about to
   displace one of the branch forms, and does it name an address relative to its
   own, in an immediate that relocate() then writes anew.

   A word of four bytes is [op: bits 31..24, field: bits 23..5, low: bits 4..0];
   the 21 bits of an ADR immediate reach 2^20 to either side, here `reach`, of which
   the field then holds all but the last two bits.  The reference names the same
   instructions by what the Arm manual has in their first byte. *)
EXTENDS Integers

Weights == {128, 64, 32, 16, 8, 4, 2, 1}

Bit(byte, weight) == (byte \div weight) % 2

(* (byte & mask) == value *)
Masked(byte, mask, value) ==
  \A b \in Weights : Bit(byte, b) * Bit(mask, b) = Bit(value, b)

isAdr(w)        == Masked(w.op, \h9F, \h10)
isAdrp(w)       == Masked(w.op, \h9F, \h90)
isLdrLiteral(w) == Masked(w.op, \h3B, \h18)

Unconditional(w)    == Masked(w.op, \h7C, \h14)                     \* B, BL
Conditional(w)      == Masked(w.op, \hFF, \h54) /\ Bit(w.low, 16) = 0   \* B.cond
CompareAndBranch(w) == Masked(w.op, \h7E, \h34)                     \* CBZ, CBNZ
TestAndBranch(w)    == Masked(w.op, \h7E, \h36)                     \* TBZ, TBNZ

AllButTests(w) == Unconditional(w) \/ Conditional(w) \/ CompareAndBranch(w)   \* Fault: no TBZ

isBranchImmediate(w) ==
  Unconditional(w) \/ Conditional(w) \/ CompareAndBranch(w) \/ TestAndBranch(w)

(* A number of as many bits as count 2 * half, read with its sign. *)
signExtend(value, half) == ((value + half) % (2 * half)) - half

immlo(w) == (w.op \div 32) % 4

adrOffset(w, reach) == signExtend(4 * w.field + immlo(w), reach)

setAdrOffset(w, offset, reach) ==
  LET imm == offset % (2 * reach) IN
  [w EXCEPT !.op    = w.op - 32 * immlo(w) + 32 * (imm % 4),
            !.field = (imm \div 4) % (reach \div 2)]

(* A literal is counted in words. *)
ldrOffset(w, reach) == signExtend(w.field, reach \div 4)

setLdrOffset(w, offset, reach) == [w EXCEPT !.field = offset % (reach \div 2)]

(* The word as relocate() leaves it, its immediate to say delta bytes, or pages. *)
Rewritten(w, delta, reach) ==
  IF isAdrp(w) \/ isAdr(w) THEN setAdrOffset(w, delta, reach)
  ELSE IF isLdrLiteral(w) THEN setLdrOffset(w, delta \div 4, reach)
  ELSE w

(* What install() and relocate() take it for, in the order they ask. *)
OperandOf(w) ==
  IF isBranchImmediate(w) THEN "branch"
  ELSE IF isAdrp(w) THEN "adrp"
  ELSE IF isAdr(w) THEN "adr"
  ELSE IF isLdrLiteral(w) THEN "ldr"
  ELSE "none"

OffsetOf(w, reach) ==
  IF isAdrp(w) \/ isAdr(w) THEN adrOffset(w, reach)
  ELSE IF isLdrLiteral(w) THEN ldrOffset(w, reach)
  ELSE 0

-----------------------------------------------------------------------------
(* The reference. *)
Words(reach) == [op: 0..255, field: 0..reach \div 2 - 1, low: 0..31]

Branches == \h14..\h17 \cup \h94..\h97            \* B, BL
              \cup {\h54}                         \* B.cond
              \cup {\h34, \hB4, \h35, \hB5}       \* CBZ, CBNZ
              \cup {\h36, \hB6, \h37, \hB7}       \* TBZ, TBNZ

Adr      == {\h10, \h30, \h50, \h70}
Adrp     == {\h90, \hB0, \hD0, \hF0}
Literals == {\h18, \h58, \h98, \hD8}              \* LDR W, X, LDRSW, PRFM
              \cup {\h1C, \h5C, \h9C}             \* LDR S, D, Q

(* Armv8.0 leaves these two free; a later one has BC.cond in the second (README,
   "Where code and documents part"). *)
Unallocated(w) == w.op = \hDC \/ (w.op = \h54 /\ w.low >= 16)

(* What it really is. *)
Names(w) ==
  CASE w.op \in Branches -> "branch"
    [] w.op \in Adr      -> "adr"
    [] w.op \in Adrp     -> "adrp"
    [] w.op \in Literals -> "ldr"
    [] OTHER             -> "none"

(* The number whose last bits these are, in two's complement. *)
Signed(bits, half) == CHOOSE v \in -half..half - 1 : v % (2 * half) = bits

(* The immediate it really has: ADR and ADRP end theirs with two bits of the first byte. *)
A64Immediate(w, reach) ==
  CASE w.op \in Adr \cup Adrp -> Signed(4 * w.field + ((w.op \div 32) % 4), reach)
    [] w.op \in Literals -> Signed(w.field, reach \div 4)
    [] OTHER -> 0

(* What decode() and relocate() see next to what it is, for the prologues Trampoline moves. *)
A64Instruction(w, reach) ==
  [length |-> 4, operand |-> OperandOf(w), at |-> 0, offset |-> OffsetOf(w, reach),
   charted |-> TRUE, real |-> [length |-> 4, operand |-> Names(w), at |-> 0]]
=============================================================================
