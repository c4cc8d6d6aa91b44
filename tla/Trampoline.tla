----------------------------- MODULE Trampoline -----------------------------
(* inline_hook.cpp, install(), seen from the code it moves: whole instructions
   are measured until the jump fits, copied into fresh executable memory with
   their PC-relative operands re-based, and overwritten.  The re-basing is
   relocate() of inline_hook_x86_64.cpp and of inline_hook_aarch64.cpp.

   Addresses are small integers: a signed immediate reaches -Reach..Reach - 1
   where the machines' reach 2^31 and 2^20. *)
EXTENDS Integers, Sequences

CONSTANTS
  Builds,     \* the architectures: the instructions a prologue begins and goes on
              \* with, the size of the jump, what a PC-relative immediate reaches,
              \* the page ADRP counts in, the hooked address, where mmap may go
  MaxReach    \* bound: the largest of those reaches

OperandKinds == {"none", "branch", "rip", "adr", "adrp", "ldr", "unknown"}

(* What decode() makes of an instruction, and what it really is; at is where in
   it a displacement lies that has to be re-based.  charted is FALSE for the few
   the tables are known to measure wrongly. *)
Instructions ==
  [length: Nat, operand: OperandKinds, at: Nat, offset: Int, charted: BOOLEAN,
   real: [length: Nat \ {0}, operand: OperandKinds, at: Nat]]

ASSUME BuildsAssumption ==
  \A b \in Builds :
    /\ b.first \cup b.next \subseteq Instructions
    /\ b.code \in Nat \ {0} /\ b.bases \subseteq Nat \ {0}
    /\ b.jumpSize \in Nat \ {0} /\ b.page \in Nat \ {0}
    /\ b.reach \in 1..MaxReach /\ b.reach % 4 = 0

VARIABLES
  build,         \* one of Builds
  phase,         \* how far install() is
  instructions,  \* what was measured
  displaced,     \* its bytes
  base,          \* the trampoline, 0 while there is none
  trampoline     \* what was copied into it

vars == <<build, phase, instructions, displaced, base, trampoline>>

Init ==
  /\ build \in Builds
  /\ phase = "measure" /\ instructions = <<>> /\ displaced = 0
  /\ base = 0 /\ trampoline = <<>>

(* What measuring gives up at. *)
Refused(i) == i.operand \in {"unknown", "branch"} \/ i.length = 0

(* The instruction that lies next is measured, or ends the matter. *)
Measure ==
  /\ phase = "measure" /\ displaced < build.jumpSize
  /\ \E i \in IF instructions = <<>> THEN build.first ELSE build.next :
       IF Refused(i)
       THEN phase' = "refused" /\ UNCHANGED <<instructions, displaced>>
       ELSE /\ instructions' = Append(instructions, i)
            /\ displaced' = displaced + i.length
            /\ UNCHANGED phase
  /\ UNCHANGED <<build, base, trampoline>>

Allocate ==
  /\ phase = "measure" /\ displaced >= build.jumpSize
  /\ \/ \E b \in build.bases : base' = b /\ phase' = "relocate"
     \/ base' = 0 /\ phase' = "refused"
  /\ UNCHANGED <<build, instructions, displaced, trampoline>>

(* Where the n-th instruction lies, counted from the first. *)
Offset(n) ==
  LET sum[k \in 0..Len(instructions)] ==
        IF k = 0 THEN 0 ELSE sum[k - 1] + instructions[k].length
  IN sum[n - 1]

PageOf(address) == address - (address % build.page)

(* The immediate that makes an instruction at `to` mean what it meant at `from`. *)
Rebased(i, from, to) ==
  CASE i.operand \in {"rip", "adr"} -> from + i.offset - to
    [] i.operand = "adrp" -> (PageOf(from) + i.offset * build.page - PageOf(to)) \div build.page
    [] i.operand = "ldr" -> from + i.offset * 4 - to
    [] OTHER -> 0

FitsWider(i, delta) == delta \in -build.reach..build.reach   \* Fault: one too many

(* An LDR literal counts in words, and reaches as many bytes as ADR does. *)
Fits(i, delta) ==
  IF i.operand = "ldr" THEN delta % 4 = 0 /\ delta \in -build.reach..build.reach - 4
                       ELSE delta \in -build.reach..build.reach - 1

(* What the field holds after the write: its low bits, read with their sign. *)
ZeroExtend(value, reach) == (value + 2 * reach) % (2 * reach)   \* Fault: no sign

SignExtend(value, reach) == ((value + reach) % (2 * reach)) - reach

Encoded(i, delta) ==
  [i EXCEPT !.offset = IF i.operand = "ldr" THEN SignExtend(delta \div 4, build.reach \div 4)
                                            ELSE SignExtend(delta, build.reach)]

UnmapForgotten == UNCHANGED base /\ trampoline' = <<>>   \* Fault: still mapped

Unmap == base' = 0 /\ trampoline' = <<>>

Relocate ==
  /\ phase = "relocate" /\ Len(trampoline) < Len(instructions)
  /\ LET n     == Len(trampoline) + 1
         i     == instructions[n]
         delta == Rebased(i, build.code + Offset(n), base + Offset(n))
     IN IF Fits(i, delta)
        THEN trampoline' = Append(trampoline, Encoded(i, delta)) /\ UNCHANGED <<phase, base>>
        ELSE phase' = "refused" /\ Unmap
  /\ UNCHANGED <<build, instructions, displaced>>

(* The jump back is written behind the copies, the jump to the replacement over
   the originals; the page may refuse either way of writing. *)
Patch ==
  /\ phase = "relocate" /\ Len(trampoline) = Len(instructions)
  /\ \/ phase' = "installed" /\ UNCHANGED <<base, trampoline>>
     \/ phase' = "refused" /\ Unmap
  /\ UNCHANGED <<build, instructions, displaced>>

Next == Measure \/ Allocate \/ Relocate \/ Patch

Spec == Init /\ [][Next]_vars

-----------------------------------------------------------------------------
(* Type invariant; an immediate that was written lies in its field. *)
TypeOK ==
  /\ phase \in {"measure", "relocate", "installed", "refused"}
  /\ displaced \in Nat
  /\ \A n \in DOMAIN instructions : instructions[n] \in Instructions
  /\ base \in build.bases \cup {0}
  /\ Len(trampoline) <= Len(instructions)
  /\ \A n \in DOMAIN trampoline : trampoline[n].offset \in -build.reach..build.reach - 1

(* The address an instruction that lies at `at` really names. *)
Meaning(i, at) ==
  CASE i.real.operand \in {"rip", "adr"} -> at + i.offset
    [] i.real.operand = "adrp" -> PageOf(at) + i.offset * build.page
    [] i.real.operand = "ldr" -> at + 4 * i.offset
    [] OTHER -> i.offset

(* inline_hook_arch.h: relocate() copies an instruction "fixing up any
   PC-relative operand", or fails when "it cannot be represented at the new
   address": every copy means what the original meant, whatever it was taken
   for, and only the bytes of the operand were written. *)
OperandsKept ==
  \A n \in DOMAIN trampoline : instructions[n].charted =>
    /\ Meaning(trampoline[n], base + Offset(n)) = Meaning(instructions[n], build.code + Offset(n))
    /\ instructions[n].at = instructions[n].real.at

(* inline_hook_x86_64.cpp: anything not accounted for is refused "instead of
   writing a jump over an instruction it measured wrongly".  But for the
   uncharted ones, and for every one of those, a hook that is in has moved whole
   instructions: the jump covers them up to the boundary the trampoline jumps
   back to, and none was a branch, which "cannot be moved into a trampoline". *)
WholeInstructions ==
  phase = "installed" =>
    /\ displaced >= build.jumpSize /\ Offset(Len(instructions)) < build.jumpSize
    /\ displaced = Offset(Len(instructions) + 1)
    /\ \A n \in DOMAIN instructions :
         /\ instructions[n].length = instructions[n].real.length <=> instructions[n].charted
         /\ instructions[n].real.operand # "branch"

(* A refused hook leaves no trampoline mapped, and an installed one has its own. *)
NothingLeaks == (phase = "refused" => base = 0) /\ (phase = "installed" => base # 0)
=============================================================================
