----------------------------- MODULE X86Decode ------------------------------
(* inline_hook_x86_64.cpp, decode(): how long is the instruction the hooker is
   about to displace, is it a relative branch, and where is the displacement
   that has to be re-based.

   The decoder walks bytes; the reference it is held to, Length and its parts,
   is read off the fields the instruction was put together from, as the x86-64
   manual lays them out.  Instruction puts the two side by side, for the
   prologues Trampoline moves. *)
EXTENDS Naturals, Sequences, FiniteSetsExt

Byte == 0..255

(* Below, f is an instruction as its fields: legacy prefixes, a REX byte or none,
   an opcode of one to three bytes, ModRM (mod, reg, rm), and the base field of
   the SIB byte behind it. *)

-----------------------------------------------------------------------------
(* The decoder's tables. *)

Alu(r) == {8 * g + r : g \in 0..7}

gPrimary == [b \in Byte |->
  CASE b \in (UNION {Alu(r) : r \in 0..3}) \cup {\h63, \h8D, \h8F, \hFE, \hFF}
             \cup \h84..\h8B \cup \hD0..\hD3                    -> "modrm"
    [] b \in {\h6B, \h80, \h83, \hC0, \hC1, \hC6}               -> "modrm_i8"
    [] b \in {\h69, \h81, \hC7}                                 -> "modrm_iz"
    [] b \in Alu(4) \cup {\h6A, \hA8} \cup \hB0..\hB7           -> "i8"
    [] b \in Alu(5) \cup {\h68, \hA9}                           -> "iz"
    [] b \in \h50..\h5F \cup \h90..\h99 \cup
             {\h9C, \h9D, \hC3, \hC9, \hCC, \hF4}               -> "none"
    [] b \in \h70..\h7F \cup {\hEB}                             -> "rel8"
    [] b \in {\hE8, \hE9}                                       -> "rel32"
    [] b \in \hB8..\hBF                                         -> "mov_imm"
    [] b = \hC2                                                 -> "i16"
    [] b = \hF6                                                 -> "grp_f6"
    [] b = \hF7                                                 -> "grp_f7"
    [] OTHER                                                    -> "invalid"]

gSecondary == [b \in Byte |->
  CASE b \in {\h05, \h0B, \hA2}                                 -> "none"
    [] b \in \h70..\h73 \cup {\hA4, \hAC, \hBA, \hC2}           -> "modrm_i8"
    [] b \in \h80..\h8F                                         -> "rel32"
    [] b \in \h10..\h1F \cup \h28..\h2F \cup \h40..\h4F \cup \h51..\h6F
             \cup \h74..\h7F \cup \h90..\h9F \cup {\hA3, \hA5, \hAB}
             \cup \hAD..\hB1 \cup \hB3..\hB7 \cup \hBB..\hC1
             \cup \hC3..\hC6 \cup \hD0..\hFE                    -> "modrm"
    [] OTHER                                                    -> "invalid"]

Legacy == {\h66, \h67, \hF0, \hF2, \hF3, \h2E, \h36, \h3E, \h26, \h64, \h65}

(* Positions are counted from 1; byte b is the one at position b. *)
Opcode(code) == Min({b \in DOMAIN code : code[b] \notin Legacy})

IsRex(b) == b \in 64..79

(* The kind of the opcode at b, and the position behind it. *)
Kind(code, b) ==
  IF code[b] # \h0F THEN [kind |-> gPrimary[code[b]], next |-> b + 1]
  ELSE CASE code[b + 1] = \h38 -> [kind |-> "modrm", next |-> b + 3]
         [] code[b + 1] = \h3A -> [kind |-> "modrm_i8", next |-> b + 3]
         [] OTHER -> [kind |-> gSecondary[code[b + 1]], next |-> b + 2]

(* The size of the immediate; reg is the field of the ModRM byte, if any. *)
immSize(kind, reg, immediateZ, rexW) ==
  CASE kind \in {"i8", "modrm_i8", "rel8"} -> 1
    [] kind = "i16" -> 2
    [] kind \in {"iz", "modrm_iz"} -> immediateZ
    [] kind = "rel32" -> 4
    [] kind = "mov_imm" -> IF rexW THEN 8 ELSE immediateZ
    [] kind = "grp_f6" -> IF reg \in {0, 1} THEN 1 ELSE 0
    [] kind = "grp_f7" -> IF reg \in {0, 1} THEN immediateZ ELSE 0
    [] OTHER -> 0

hasModRM(kind) ==
  kind \in {"modrm", "modrm_i8", "modrm_iz", "grp_f6", "grp_f7"}

hasSibEver(mod, rm) == rm = 4   \* Fault: a register operand too

hasSib(mod, rm) == mod # 3 /\ rm = 4

relativeBranch(kind) == kind \in {"rel8", "rel32"}

ripRelative(mod, rm) == mod = 0 /\ rm = 5

(* The bytes of displacement that follow ModRM and SIB. *)
Displacement(mod, rm, base) ==
  CASE mod = 1 -> 1
    [] mod = 2 -> 4
    [] mod = 0 /\ (rm = 5 \/ (hasSib(mod, rm) /\ base = 5)) -> 4
    [] OTHER -> 0

Undecodable == [ok |-> FALSE, length |-> 0, relativeBranch |-> FALSE, ripAt |-> 0]

(* What decode() answers; ripAt is the offset of a RIP-relative displacement,
   0 when there is none. *)
Decode(code) ==
  LET p       == Opcode(code)
      rex     == IsRex(code[p])
      rexW    == rex /\ code[p] >= \h48
      wide    == \E b \in 1..p - 1 : code[b] = \h66
      k       == Kind(code, IF rex THEN p + 1 ELSE p)
      modrm   == hasModRM(k.kind)
      byte    == code[k.next]
      mod     == byte \div 64
      reg     == (byte \div 8) % 8
      rm      == byte % 8
      sib     == IF hasSib(mod, rm) THEN 1 ELSE 0
      imm     == immSize(k.kind, reg, IF wide THEN 2 ELSE 4, rexW)
      disp    == Displacement(mod, rm, code[k.next + 1] % 8)
      length  == k.next - 1 + imm + (IF modrm THEN 1 + sib + disp ELSE 0)
      branch  == relativeBranch(k.kind)
  IN IF k.kind = "invalid" \/ (length > 16 /\ ~branch) THEN Undecodable
     ELSE [ok |-> TRUE, length |-> length, relativeBranch |-> branch,
           ripAt |-> IF modrm /\ ripRelative(mod, rm) THEN k.next ELSE 0]

(* The instruction as it lies in memory, with what happens to follow it. *)
Bytes(f) ==
  f.prefixes \o f.rex \o f.opcode
    \o <<64 * f.mod + 8 * f.reg + f.rm, f.base>> \o [i \in 1..4 |-> 0]

-----------------------------------------------------------------------------
(* The reference: an instruction's length from its fields. *)

OneByte(f) == Len(f.opcode) = 1

TwoByte(f) == Len(f.opcode) = 2

LastByte(f) == f.opcode[Len(f.opcode)]

Addresses(f) ==
  \/ Len(f.opcode) = 3
  \/ TwoByte(f) /\ LastByte(f) \notin \h05..\h0B \cup \h30..\h37 \cup \h80..\h8F
        \cup \hA0..\hA2 \cup \hA8..\hAA \cup \hC8..\hCF \cup {\h77}
  \/ OneByte(f) /\ LastByte(f) \in \h80..\h8F \cup \hD0..\hD3 \cup \hD8..\hDF \cup
        {\h62, \h63, \h69, \h6B, \hF6, \hF7, \hFE, \hFF} \cup {\hC0, \hC1} \cup \hC4..\hC7
  \/ OneByte(f) /\ LastByte(f) < 64 /\ LastByte(f) % 8 < 4

Addressing(f) ==
  IF ~Addresses(f) THEN 0
  ELSE IF f.mod = 3 THEN 1
  ELSE 1 + (IF f.rm = 4 THEN 1 ELSE 0)
         + (CASE f.mod = 1 -> 1
              [] f.mod = 2 -> 4
              [] f.mod = 0 /\ (f.rm = 5 \/ (f.rm = 4 /\ f.base = 5)) -> 4
              [] OTHER -> 0)

(* The operand size: REX.W has the last word over a 66 prefix. *)
OperandSize(f) ==
  IF \E r \in 72..79 : f.rex = <<r>> THEN 8
  ELSE IF \E i \in DOMAIN f.prefixes : f.prefixes[i] = \h66 THEN 2 ELSE 4

Tests(f) == f.reg < 2

Immediate(f) ==
  LET b == LastByte(f) IN
  IF Len(f.opcode) = 3 THEN (IF f.opcode[2] = \h3A THEN 1 ELSE 0)
  ELSE IF TwoByte(f) THEN
    CASE b \in \h80..\h8F -> 4
      [] b \in \h70..\h73 \cup {\hA4, \hAC, \hBA, \hC2, \hC4, \hC5, \hC6} -> 1
      [] OTHER -> 0
  ELSE
    CASE b \in \hB8..\hBF -> OperandSize(f)
      [] b \in {\hE8, \hE9} -> 4
      [] b = \hC2 -> 2
      [] \/ b \in {\h68, \h69, \h81, \hA9, \hC7}
         \/ b < 64 /\ b % 8 = 5
         \/ b = \hF7 /\ Tests(f) -> IF OperandSize(f) = 2 THEN 2 ELSE 4
      [] \/ b \in {\h6A, \h6B, \h80, \h83, \hA8, \hC0, \hC1, \hC6, \hCD, \hEB}
         \/ b \in \h70..\h7F \cup \hB0..\hB7 \cup \hE0..\hE7
         \/ b < 64 /\ b % 8 = 4
         \/ b = \hF6 /\ Tests(f) -> 1
      [] OTHER -> 0

Length(f) ==
  Len(f.prefixes) + Len(f.rex) + Len(f.opcode) + Addressing(f) + Immediate(f)

(* Transfers of control relative to the instruction's own address. *)
Relative(f) ==
  \/ OneByte(f) /\ LastByte(f) \in \h70..\h7F \cup \hE0..\hE3 \cup {\hE8, \hE9, \hEB}
  \/ TwoByte(f) /\ LastByte(f) \in \h80..\h8F

RipRelative(f) == Addresses(f) /\ f.mod = 0 /\ f.rm = 5

-----------------------------------------------------------------------------
(* What the tables do not know: EMMS has no operand, PINSRW, PEXTRW and SHUFPS
   have an immediate. *)
Misfiled(f) == f.opcode \in {<<\h0F, \h77>>, <<\h0F, \hC4>>, <<\h0F, \hC5>>, <<\h0F, \hC6>>}

(* Nor is REX.W looked at for an immediate a 66 prefix made shorter. *)
Oversized(f) ==
  LET b == LastByte(f) IN
  /\ OperandSize(f) = 8 /\ \E i \in DOMAIN f.prefixes : f.prefixes[i] = \h66
  /\ OneByte(f) /\ b \notin \hB8..\hBF /\ Immediate(f) = 4 /\ ~Relative(f)

(* What the tables account for: everything but those two kinds (README, "Where
   code and documents part"). *)
Charted(f) == ~(Misfiled(f) \/ Oversized(f))

Operand(branch, at) == IF branch THEN "branch" ELSE IF at # 0 THEN "rip" ELSE "none"

(* An instruction, and what it names where it names an address, as decode() sees
   it and as it is. *)
Instruction(f, offset) ==
  LET seen   == Decode(Bytes(f))
      ripAt  == IF RipRelative(f)
                THEN Len(f.prefixes) + Len(f.rex) + Len(f.opcode) + 1 ELSE 0
  IN [length  |-> seen.length,
      operand |-> IF seen.ok THEN Operand(seen.relativeBranch, seen.ripAt) ELSE "unknown",
      at      |-> seen.ripAt,
      offset  |-> IF RipRelative(f) THEN offset ELSE 0,
      charted |-> Charted(f),
      real    |-> [length |-> Length(f), operand |-> Operand(Relative(f), ripAt), at |-> ripAt]]
=============================================================================
