---------------------------- MODULE Instruction ----------------------------
(***************************************************************************)
(* One guest instruction from its encoding to its effect: the decoder of   *)
(* Decode, the host code of HostCode and its bytes (Encoder), against the  *)
(* instruction set of Isa, what the comments of riscv_ir.h say of each     *)
(* operation, and the processor of Host.                                   *)
(***************************************************************************)
EXTENDS Decode, SequencesExt

CONSTANTS
  Xlen, Wlen,    \* the widths of a register and of a word where code is executed: 64 and 32
  Encodings,     \* the instructions to decode
  Pc,            \* where they are
  Encoded,       \* those whose host code is written down,
  Environments,  \* for each of these programs
  Executed,      \* those whose host code is executed,
  Programs,      \* in each of these
  Operands,      \* with these values in their registers;
  Addresses,     \* loads and stores at these addresses,
  MemoryValues   \* of these contents

(* What the code of an operation depends on *)
Section == [addr : Int, size : Int, mem : Int]
Environment ==
  [pc : Int, jit : Int, ecall : Int, min : [word : Int, lo : Int, hi : Int], text : Section, data : Section]

(* What ir_translate reads at pc: two bytes, or four of them.  TLC has no   *)
(* number beyond those of a signed word.                                    *)
HalfwordsOfText == 0..2^16 - 1
WordsOfText == {i \in Int : i \div 2 \in -(2^30)..2^30 - 1}

ASSUME InstructionAssumption ==
  /\ Xlen \in Nat /\ Wlen \in Nat
  /\ 0 < Wlen /\ Wlen < Xlen
  /\ \A i \in Encodings : i \in IF IsRvc(i) THEN HalfwordsOfText ELSE WordsOfText
  /\ Pc \in Int
  /\ Environments \subseteq Environment

VARIABLES
  instr,  \* the word at pc
  ops,    \* what it is translated to
  host,   \* the bytes of one of the operations
  result  \* the effect of one of them

vars == <<instr, ops, host, result>>

Manual == INSTANCE Isa
Code == INSTANCE Encoder
Cpu == INSTANCE Host

Undecoded == Emit("UNDECODED", Zero, Zero, Zero, 0)
NotYet == [op |-> Undecoded[1]]

Init == instr \in Encodings /\ ops = Undecoded /\ host = NotYet /\ result = NotYet

Decode ==
  /\ ops = Undecoded
  /\ ops' = Translate(instr, Pc)
  /\ UNCHANGED <<instr, host, result>>

(* The code around the operations, and what is in front of each *)
Around == {Emit(op, Zero, Zero, Zero, 0)[1] : op \in {"FUEL_CHECK", "TRAMPOLINE", "EPILOGUE", "STUB"}}

HostCodeOf(o, env) == Code!Linked(Code!CodeOf(o, env))

Encode(o, env) ==
  /\ host' = [op |-> o, env |-> env, bytes |-> Code!Assembled(HostCodeOf(o, env))]
  /\ UNCHANGED <<instr, ops, result>>

(* The registers that an operation finds: those it reads hold a and b, the *)
(* others junk.  So does x0, which a debugger can write.                   *)
Junk == 9
XBefore(o, a, b) == [r \in 0..31 |-> IF r = o.rs1 THEN a ELSE IF r = o.rs2 THEN b ELSE Junk]
CpuBefore(o, a, b) ==
  [off \in {8 * k : k \in 0..33} |-> IF off < 256 THEN XBefore(o, a, b)[off \div 8] ELSE Junk]
HostBefore(p) ==
  [r \in 0..15 |-> CASE r = Code!Rbx -> p.text.addr
                     [] r = Code!Rbp -> p.text.addr + p.text.size
                     [] r = Code!R12 -> p.text.mem
                     [] r = Code!R13 -> p.stack.size
                     [] r = Code!R14 -> p.stack.mem
                     [] OTHER -> Junk]

ImmediateOps == DOMAIN Code!ImmOps \cup DOMAIN Code!ShiftImmOps \cup {"SLTI", "SLTIU"}
MemoryOps == DOMAIN Code!Loads \cup DOMAIN Code!Stores
Unexecuted == {"UNDECODED", "NOP", "ECALL", "EBREAK", "UD2"}

AnyProgram == CHOOSE p \in Programs : TRUE

(* b is the immediate of an operation that has one, and what a load finds *)
Given(o, b) == IF o.op \in ImmediateOps THEN [o EXCEPT !.imm = Cpu!Int2(Xlen, b)] ELSE o

Execute(o, a, b, p) ==
  LET m == Cpu!Run(HostCodeOf(o, p), Cpu!Machine(HostBefore(p), CpuBefore(o, a, b), b))
  IN /\ result' = [op |-> o, a |-> a, b |-> b, program |-> p,
                   effect |-> [x |-> m.cpu[Code!XOffset(o.rd)], x0 |-> m.cpu[0], pc |-> m.cpu[Code!PcOffset],
                               jumped |-> m.jumped, access |-> m.access, trap |-> m.trap]]
     /\ UNCHANGED <<instr, ops, host>>

Next ==
  \/ Decode
  \/ /\ ops # Undecoded /\ host = NotYet /\ result = NotYet
     /\ \/ /\ instr \in Encoded
           /\ \E o \in Around \cup {ops[k] : k \in DOMAIN ops} : \E env \in Environments : Encode(o, env)
        \/ /\ instr \in Executed
           /\ \E k \in DOMAIN ops :
                \/ /\ ops[k].op \in MemoryOps
                   /\ \E a \in Addresses, b \in MemoryValues, p \in Programs : Execute(ops[k], a, b, p)
                \/ /\ ops[k].op \notin MemoryOps \cup Unexecuted
                   /\ \E a, b \in Operands : Execute(Given(ops[k], b), a, b, AnyProgram)

Spec == Init /\ [][Next]_vars
-----------------------------------------------------------------------------
(* Several operations say the same: each in one form, and without those    *)
(* that change nothing.                                                    *)
Canonical(o) ==
  CASE o.op = "MOV"     -> Manual!I("ADD", o.rd, Zero, o.rs2, 0)
    [] o.op = "BEQZ"    -> Manual!I("BEQ", Zero, o.rs1, Zero, o.imm)
    [] o.op = "JMP_REG" -> Manual!I("JALR", Zero, o.rs1, Zero, 0)
    [] o.op = "ADDI" /\ o.rs1 = Zero -> Manual!I("LI", o.rd, Zero, Zero, o.imm)
    [] OTHER -> o

IsIdle(o) ==
  \/ Code!Discarded(o)
  \/ o.op \in {"ADDI", "SLLI", "SRLI", "SRAI"} /\ o.rd = o.rs1 /\ o.imm = 0

ShownBy(o) == IF IsIdle(o) THEN <<>> ELSE <<Canonical(o)>>
Effect(seq) == FlattenSeq([k \in DOMAIN seq |-> ShownBy(seq[k])])

Decoded == ops # Undecoded
Expected == Manual!Instruction(instr, Pc)
IsCJalr == Expected # <<>> /\ Expected[1].op = "C_JALR"

(* Every encoding that the instruction set defines is translated to what    *)
(* it means, compressed ones like the instruction they stand for; an        *)
(* encoding it does not define is refused (UD2, "unknown instruction"),     *)
(* and so are those of extensions that are not there.  c.jalr apart.        *)
DecodedAsDefined ==
  Decoded /\ Expected # Manual!Reserved /\ ~IsCJalr /\ (IsRvc(instr) \/ ~Manual!Lenient(instr))
    => Effect(ops) = Effect(Expected)

(* The builder has room for two operations per half-word of .text, the fuel *)
(* check among them (see IrTranslate, where this is assumed): a compressed  *)
(* instruction adds at most one, and a wide one at most two.  And the host  *)
(* code of every operation fits X86_GUEST_INSTR_MAX_BYTES, which is all the *)
(* room that CodeBuffer asks for, as the code around them fits its own.     *)
Room(op) ==
  CASE op = "TRAMPOLINE" -> 160 [] op = "EPILOGUE" -> 256 [] OTHER -> 224

FitsTheRoom ==
  /\ ops # Undecoded => Len(ops) <= IF IsRvc(instr) THEN 1 ELSE 2
  /\ host # NotYet => Len(host.bytes) <= Room(host.op.op)

(* handle_rvc_op10_jr_mv_jalr_add names c.jalr among the four it handles    *)
(* (riscv_ir.c:429, after RVC_F3_JR_MV_JALR_ADD of riscv_instr.h): a call   *)
(* through a register is not translated to nothing                          *)
CJalrIsTranslated == Decoded /\ IsCJalr => ops # Nothing
-----------------------------------------------------------------------------
(* What an operation means, for integers without a bound; the result is cut *)
(* to the width of the operation, and a word is extended with its sign.     *)
WordOps == {"ADD_EXT32", "ADDI_EXT32", "SUB_EXT32", "SLL_EXT32", "SLLI_EXT32", "SRL_EXT32", "SRLI_EXT32",
            "SRA_EXT32", "SRAI_EXT32", "MULW", "DIVW", "DIVUW", "REMW", "REMUW"}

SetIf(cond) == IF cond THEN 1 ELSE 0
IsBit(v, k) == (v \div 2^k) % 2 = 1
BitsWhere(w, Holds(_)) == MapThenSumSet(LAMBDA k : IF Holds(k) THEN 2^k ELSE 0, 0..w - 1)

UnsignedLoads == {"LOAD8_U", "LOAD16_U", "LOAD32_U"}
BranchOps == {"BEQ", "BEQZ", "BNE", "BLT", "BGE", "BLTU", "BGEU"}

(* The bits that an access has *)
BitsOf(op) ==
  LET n == Code!AccessSize(op) IN IF n = 8 THEN Xlen ELSE IF n = 4 THEN Wlen ELSE IF n = 2 THEN Wlen \div 2 ELSE Wlen \div 4

(* sa, sb are the operands as signed integers, ua, ub as unsigned ones *)
Exact(op, w, sa, sb, ua, ub) ==
  CASE op \in {"ADD", "ADDI", "ADD_EXT32", "ADDI_EXT32"} -> sa + sb
    [] op \in {"SUB", "SUB_EXT32"} -> sa - sb
    [] op \in {"AND", "ANDI"} -> BitsWhere(w, LAMBDA k : IsBit(ua, k) /\ IsBit(ub, k))
    [] op \in {"OR", "ORI"}   -> BitsWhere(w, LAMBDA k : IsBit(ua, k) \/ IsBit(ub, k))
    [] op \in {"XOR", "XORI"} -> BitsWhere(w, LAMBDA k : IsBit(ua, k) # IsBit(ub, k))
    [] op \in {"SLL", "SLLI", "SLL_EXT32", "SLLI_EXT32"} -> ua * 2^(ub % w)
    [] op \in {"SRL", "SRLI", "SRL_EXT32", "SRLI_EXT32"} -> ua \div 2^(ub % w)
    [] op \in {"SRA", "SRAI", "SRA_EXT32", "SRAI_EXT32"} -> sa \div 2^(ub % w)
    [] op \in {"MUL", "MULW"} -> sa * sb
    [] op = "MULH"   -> (sa * sb) \div 2^w
    [] op = "MULHSU" -> (sa * ub) \div 2^w
    [] op = "MULHU"  -> (ua * ub) \div 2^w
    [] op \in {"DIV", "DIVW"}   -> IF sb = 0 THEN -1 ELSE Cpu!Truncated(sa, sb)
    [] op \in {"DIVU", "DIVUW"} -> IF ub = 0 THEN -1 ELSE ua \div ub
    [] op \in {"REM", "REMW"}   -> IF sb = 0 THEN sa ELSE sa - sb * Cpu!Truncated(sa, sb)
    [] op \in {"REMU", "REMUW"} -> IF ub = 0 THEN ua ELSE ua % ub
    [] op \in {"SLT", "SLTI", "BLT"}    -> SetIf(sa < sb)
    [] op \in {"SLTU", "SLTIU", "BLTU"} -> SetIf(ua < ub)
    [] op = "BGE"  -> SetIf(~(sa < sb))
    [] op = "BGEU" -> SetIf(~(ua < ub))
    [] op \in {"BEQ", "BEQZ"} -> SetIf(sa = sb)
    [] op = "BNE"    -> SetIf(sa # sb)

Value(op, a, b) ==
  LET w  == IF op \in WordOps THEN Wlen ELSE Xlen
      ua == a % 2^w
      ub == b % 2^w
      e  == Exact(op, w, Cpu!Int2(w, ua), Cpu!Int2(w, ub), ua, ub)
  IN Cpu!Int2(w, e % 2^w) % 2^Xlen

(* A load gives the bits it reads of v; the ones above are zero, or copies *)
(* of the last.                                                            *)
Loaded(op, v) ==
  LET n == BitsOf(op)
  IN BitsWhere(Xlen, LAMBDA k : IF k < n THEN IsBit(v, k) ELSE op \notin UnsignedLoads /\ IsBit(v, n - 1))

(* Where the guest's memory is: as GuestMemory finds it *)
Memory(p) ==
  INSTANCE GuestMemory WITH
    Word <- 2^Xlen, Guard <- 8, Layouts <- {}, AccessSizes <- {1, 2, 4, 8}, Lengths <- {}, PacketCap <- 3,
    Byte <- {}, mem <- <<>>, reply <- <<>>,
    layout <- [stackSize |-> p.stack.size, textAddr |-> p.text.addr, textSize |-> p.text.size,
               dataAddr |-> p.data.addr, dataSize |-> p.data.size]

HostAddress(p, place) ==
  (place.off + CASE place.region = "stack" -> p.stack.mem
                 [] place.region = "data"  -> p.data.mem
                 [] place.region = "text"  -> p.text.mem) % 2^Xlen

(* The effect of an operation that does nothing but to set rd *)
Sets(o, x, v) ==
  [x |-> IF o.rd = Zero THEN 0 ELSE v, x0 |-> 0, pc |-> Junk, jumped |-> FALSE, access |-> Cpu!NoAccess, trap |-> FALSE]

AccessEffect(o, x, a, contents, p) ==
  LET store == o.op \in DOMAIN Code!Stores
      place == Memory(p)!GuestPlace((a + o.imm) % 2^Xlen, Code!AccessSize(o.op), store)
      access == [at |-> HostAddress(p, place), w |-> BitsOf(o.op), write |-> store,
                 value |-> IF store THEN x[o.rs2] % 2^BitsOf(o.op) ELSE 0]
  IN IF place = Memory(p)!Nowhere THEN [Sets(o, x, x[o.rd]) EXCEPT !.jumped = TRUE]
     ELSE [Sets(o, x, IF store THEN 0 ELSE Loaded(o.op, contents)) EXCEPT !.access = access]

EffectOf(o, a, b, p) ==
  LET x == [XBefore(o, a, b) EXCEPT ![0] = 0]
      second == IF o.op \in ImmediateOps THEN o.imm % 2^Xlen ELSE x[o.rs2]
      Jumps(v, pc) == [Sets(o, x, v) EXCEPT !.jumped = TRUE, !.pc = pc]
  IN CASE o.op \in MemoryOps /\ ~Code!Discarded(o) -> AccessEffect(o, x, x[o.rs1], b, p)
       [] o.op \in MemoryOps /\ Code!Discarded(o)  -> Sets(o, x, 0)
       [] o.op = "MOV" -> Sets(o, x, x[o.rs2])
       [] o.op = "LI"  -> Sets(o, x, o.imm % 2^Xlen)
       [] o.op = "JMP" -> Jumps(0, Junk)
       [] o.op = "JMP_REG" -> Jumps(0, x[o.rs1])
       [] o.op = "JALR" -> Jumps((p.pc + 4) % 2^Xlen, LET t == (x[o.rs1] + o.imm) % 2^Xlen IN t - (t % 2))
       [] o.op \in BranchOps -> [Sets(o, x, 0) EXCEPT !.jumped = Value(o.op, x[o.rs1], x[o.rs2]) = 1]
       [] OTHER -> Sets(o, x, Value(o.op, x[o.rs1], second))

(* The host code of an operation does what riscv_ir.h says of it and        *)
(* nothing else, for all operands: also for a zero divisor and for the most *)
(* negative dividend, where the host's own division would trap, for a       *)
(* register that is read and written, and for a load or a store at any      *)
(* address, which is made where GuestMemory says, or leaves for its fault.  *)
ResultIsTheMeaning ==
  result # NotYet => result.effect = EffectOf(result.op, result.a, result.b, result.program)

(* An x86-64 processor finds in the bytes of an operation the instructions  *)
(* that were meant, and each jump leads to the instruction that was meant,  *)
(* never into the middle of one.  A jump that is patched later leads to the *)
(* next instruction until then.                                             *)
HostCodeIsRead ==
  host # NotYet =>
    LET code == HostCodeOf(host.op, host.env)
        Jumps(h) == h.w = 0 /\ h.op \notin {"ret", "int3", "ud2"}
    IN Cpu!Read(host.bytes) =
         [k \in DOMAIN code |-> IF Jumps(code[k]) /\ code[k].to = 0 THEN [code[k] EXCEPT !.to = k + 1] ELSE code[k]]
=============================================================================
