---------------------------- MODULE MCTrampoline ----------------------------
(* Prologues that begin with any instruction of the x86-64 maps, under the
   prefixes that change a length or must not, with each kind of operand; prologues
   of four x86-64 lengths, with operands at and about the ends of what an immediate
   reaches; prologues of aarch64 words with every first byte and every immediate. *)
EXTENDS Trampoline, X86Decode, A64Decode

Fields ==
  {[mod |-> a[1], rm |-> a[2], base |-> a[3], reg |-> r] :
     r \in {0, 2},
     a \in {<<3, 0, 0>>, <<3, 4, 5>>, <<0, 1, 5>>, <<0, 5, 5>>, <<0, 4, 1>>, <<0, 4, 5>>,
            <<1, 4, 5>>, <<1, 5, 0>>, <<2, 4, 5>>, <<2, 2, 0>>}}

Prefixings ==
  {<<>>, <<\hF3>>, <<\h66>>, <<\h2E, \h66>>} \X {<<>>, <<\h41>>, <<\h48>>}

Opcodes ==
  {<<b>> : b \in 0..255 \ (Legacy \cup 64..79 \cup {\h0F})}
    \cup {<<\h0F, b>> : b \in 0..255 \ {\h38, \h3A}}
    \cup {<<\h0F, \h38, 0>>, <<\h0F, \h3A, \h0F>>}

AnyInstruction ==
  {Instruction([prefixes |-> p[1], rex |-> p[2], opcode |-> o,
                mod |-> a.mod, reg |-> a.reg, rm |-> a.rm, base |-> a.base], 8) :
     p \in Prefixings, o \in Opcodes, a \in Fields}

Taken(length, operand, at, offset) ==
  [length |-> length, operand |-> operand, at |-> at, offset |-> offset, charted |-> TRUE,
   real |-> [length |-> length, operand |-> operand, at |-> at]]

Plain(length, operand) == Taken(length, operand, 0, 0)

X86Instructions ==
  {Plain(1, "none"), Plain(7, "none"), Plain(10, "none"), Plain(5, "branch"), Plain(1, "unknown")}
    \cup {Taken(7, "rip", 3, o) : o \in {-16, -15, 0, 8, 15}}

ArmInstructions ==
  {A64Instruction(w, 8) : w \in {v \in Words(8) : v.low \in {0, 16} /\ ~Unallocated(v)}}

X86 == [first |-> X86Instructions, next |-> X86Instructions, jumpSize |-> 14, reach |-> 16,
        page |-> 8, code |-> 33, bases |-> {2, 20, 33, 60}]

X86Any == [X86 EXCEPT !.first = AnyInstruction, !.next = {Plain(7, "none"), Plain(5, "branch")}]

Arm == [first |-> ArmInstructions, next |-> ArmInstructions, jumpSize |-> 8, reach |-> 8,
        page |-> 8, code |-> 36, bases |-> {4 * n : n \in 1..20}]

MCBuilds == {X86, X86Any, Arm}
=============================================================================
