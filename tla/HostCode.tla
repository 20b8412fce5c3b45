------------------------------ MODULE HostCode ------------------------------
(***************************************************************************)
(* emit_instruction: the host instructions for one operation.  A jump      *)
(* names a label of the same operation; the others leave it: their         *)
(* displacement is patched when all the code is there (see CodeBuffer).    *)
(***************************************************************************)
EXTENDS Integers, Sequences

(* The host's registers.  R15 holds the cpu, R14 and R13 stack_mem and      *)
(* stack_size, R12 the text_data, RBX and RBP the first address of .text    *)
(* and the one behind it.                                                   *)
Rax == 0
Rcx == 1
Rdx == 2
Rbx == 3
Rbp == 5
Rsi == 6
Rdi == 7
R12 == 12
R13 == 13
R14 == 14
R15 == 15

(* struct riscv_cpu: fields of eight bytes *)
XOffset(reg) == 8 * reg
PcOffset == 256
FuelOffset == 264
FaultOffset == 272
StackMemOffset == 280
StackSizeOffset == 288

Guard == 8        \* RISCV_STACK_GUARD_BYTES
Out == "out"      \* where a jump leaves the operation
NoJump == "none"  \* in an instruction that is not a jump
-----------------------------------------------------------------------------
(* An instruction of operand size w; an immediate of 64 bits has its upper *)
(* half in hi.                                                             *)
H(op, w, dst, src, imm, hi, to) ==
  [op |-> op, w |-> w, dst |-> dst, src |-> src, imm |-> imm, hi |-> hi, to |-> to]

RR(op, w, dst, src)         == H(op, w, dst, src, 0, 0, NoJump)
RI(op, w, dst, imm)         == H(op, w, dst, 0, imm, 0, NoJump)
Mem(op, w, reg, base, disp) == H(op, w, reg, base, disp, 0, NoJump)
Plain(op)                   == H(op, 0, 0, 0, 0, 0, NoJump)
Imm64(dst, lo, hi)          == H("imm64", 64, dst, 0, lo, hi, NoJump)
Jcc(cond, to)               == H(cond, 0, 0, 0, 0, 0, to)
Jmp(to)                     == Jcc("jmp", to)
Label(name)                 == Jcc("label", name)

(* A value of 32 bits or less as one of 64 *)
Wide(dst, v) == Imm64(dst, v, IF v < 0 THEN -1 ELSE 0)

Get(host, guest) == Mem("load", 64, host, R15, XOffset(guest))
Set(guest, host) == Mem("store", 64, host, R15, XOffset(guest))
SetPc(host) == Mem("store", 64, host, R15, PcOffset)
Operands2(o) == <<Get(Rax, o.rs1), Get(Rcx, o.rs2)>>
-----------------------------------------------------------------------------
(* ir_op_must_run_even_when_rd_is_zero: x0 has no result to store.  A load *)
(* is not among them.                                                      *)
MustRun(op) ==
  op \in {"FUEL_CHECK", "STORE8", "STORE16", "STORE32", "STORE64", "BEQZ", "BEQ", "BNE", "BLT", "BGE",
          "BLTU", "BGEU", "JMP", "JMP_REG", "JALR", "ECALL", "EBREAK", "UD2"}
Discarded(o) == o.rd = 0 /\ ~MustRun(o.op)

RegOps ==
  [ADD |-> "add", SUB |-> "sub", AND |-> "and", OR |-> "or", XOR |-> "xor", ADD_EXT32 |-> "add", SUB_EXT32 |-> "sub"]
ImmOps ==
  [ADDI |-> "addi", ANDI |-> "andi", ORI |-> "ori", XORI |-> "xori", ADDI_EXT32 |-> "addi"]
ShiftOps ==
  [SLL |-> "shl", SRL |-> "shr", SRA |-> "sar", SLL_EXT32 |-> "shl", SRL_EXT32 |-> "shr", SRA_EXT32 |-> "sar"]
ShiftImmOps ==
  [SLLI |-> "shli", SRLI |-> "shri", SRAI |-> "sari",
   SLLI_EXT32 |-> "shli", SRLI_EXT32 |-> "shri", SRAI_EXT32 |-> "sari"]
Ext32 ==
  {"ADD_EXT32", "SUB_EXT32", "ADDI_EXT32", "SLL_EXT32", "SRL_EXT32", "SRA_EXT32", "SLLI_EXT32", "SRLI_EXT32",
   "SRAI_EXT32"}

(* emit_binary_reg_result, emit_imm32_result, emit_imm8_result and          *)
(* emit_shift_reg_result, with their twins of 32 bits                       *)
Arithmetic(o) ==
  LET w == IF o.op \in Ext32 THEN 32 ELSE 64
  IN (CASE o.op \in DOMAIN RegOps      -> Operands2(o) \o <<RR(RegOps[o.op], w, Rax, Rcx)>>
        [] o.op \in DOMAIN ImmOps      -> <<Get(Rax, o.rs1), RI(ImmOps[o.op], w, Rax, o.imm)>>
        [] o.op \in DOMAIN ShiftOps    -> Operands2(o) \o <<RR(ShiftOps[o.op], w, Rax, 0)>>
        [] o.op \in DOMAIN ShiftImmOps -> <<Get(Rax, o.rs1), RI(ShiftImmOps[o.op], w, Rax, o.imm % 256)>>)
     \o (IF w = 32 THEN <<RR("movsxd", 64, Rax, Rax)>> ELSE <<>>)
     \o <<Set(o.rd, Rax)>>

Compares == [SLT |-> "setl", SLTU |-> "setb", SLTI |-> "setl", SLTIU |-> "setb"]
Branches == [BEQ |-> "je", BNE |-> "jne", BLT |-> "jl", BGE |-> "jge", BLTU |-> "jb", BGEU |-> "jae"]

(* emit_compare_reg_result and emit_compare_imm_result *)
Compare(o) ==
  (IF o.op \in {"SLT", "SLTU"} THEN Operands2(o) \o <<RR("cmp", 64, Rax, Rcx)>>
   ELSE <<Get(Rax, o.rs1), RI("cmpi", 64, Rax, o.imm)>>)
    \o <<RR(Compares[o.op], 8, Rax, 0), RR("movzx8", 64, Rax, Rax), Set(o.rd, Rax)>>

(* emit_conditional_branch *)
Branch(o) == Operands2(o) \o <<RR("cmp", 64, Rax, Rcx), Jcc(Branches[o.op], Out)>>

(* emit_mul *)
Multiply(o) ==
  Operands2(o)
    \o (CASE o.op = "MUL"   -> <<RR("imul2", 64, Rax, Rcx)>>
          [] o.op = "MULW"  -> <<RR("imul2", 32, Rax, Rcx), RR("movsxd", 64, Rax, Rax)>>
          [] o.op = "MULH"  -> <<RR("imul", 64, Rcx, 0), RR("mov", 64, Rax, Rdx)>>
          [] o.op = "MULHU" -> <<RR("mul", 64, Rcx, 0), RR("mov", 64, Rax, Rdx)>>
          [] o.op = "MULHSU" ->
               <<RR("mov", 64, Rsi, Rax), RR("mul", 64, Rcx, 0), RI("sari", 64, Rsi, 63),
                 RR("and", 64, Rsi, Rcx), RR("sub", 64, Rdx, Rsi), RR("mov", 64, Rax, Rdx)>>)
    \o <<Set(o.rd, Rax)>>

(* The quotient that does not fit: where the host's division would trap.    *)
(* min is the most negative number of the width.                            *)
OverflowCase(word, remainder, min) ==
  LET w == IF word THEN 32 ELSE 64
  IN <<RI("cmpi", w, Rcx, -1), Jcc("jne", "divide")>>
     \o (IF word THEN <<RI("cmpi", 32, Rax, min.word)>>
         ELSE <<Imm64(Rsi, min.lo, min.hi), RR("cmp", 64, Rax, Rsi)>>)
     \o <<Jcc("jne", "divide")>>
     \o (IF remainder THEN <<RR("xor", 64, Rax, Rax)>>
         ELSE IF word THEN <<RR("movsxd", 64, Rax, Rax)>> ELSE <<>>)
     \o <<Jmp("done")>>

(* Seeded fault: no test for the most negative dividend *)
DivremNoOverflow(o, signed, word, remainder, min) ==
  LET w == IF word THEN 32 ELSE 64
      extend == IF word THEN <<RR("movsxd", 64, Rax, Rax)>> ELSE <<>>
  IN Operands2(o) \o <<RR("test", w, Rcx, Rcx), Jcc("jne", "nonzero")>>
     \o (IF remainder THEN extend ELSE <<Wide(Rax, -1)>>)
     \o <<Jmp("done"), Label("nonzero"), Label("divide")>>
     \o (IF signed THEN <<RR("cqo", w, 0, 0), RR("idiv", w, Rcx, 0)>>
         ELSE <<RR("xor", 32, Rdx, Rdx), RR("div", w, Rcx, 0)>>)
     \o (IF remainder THEN <<RR("mov", 64, Rax, Rdx)>> ELSE <<>>)
     \o extend \o <<Label("done"), Set(o.rd, Rax)>>

(* emit_divrem *)
Divrem(o, signed, word, remainder, min) ==
  LET w == IF word THEN 32 ELSE 64
      extend == IF word THEN <<RR("movsxd", 64, Rax, Rax)>> ELSE <<>>
  IN Operands2(o) \o <<RR("test", w, Rcx, Rcx), Jcc("jne", "nonzero")>>
     \o (IF remainder THEN extend ELSE <<Wide(Rax, -1)>>)
     \o <<Jmp("done"), Label("nonzero")>>
     \o (IF signed THEN OverflowCase(word, remainder, min) ELSE <<>>)
     \o <<Label("divide")>>
     \o (IF signed THEN <<RR("cqo", w, 0, 0), RR("idiv", w, Rcx, 0)>>
         ELSE <<RR("xor", 32, Rdx, Rdx), RR("div", w, Rcx, 0)>>)
     \o (IF remainder THEN <<RR("mov", 64, Rax, Rdx)>> ELSE <<>>)
     \o extend \o <<Label("done"), Set(o.rd, Rax)>>

MulOps == {"MUL", "MULW", "MULH", "MULHU", "MULHSU"}
DivOps == {"DIV", "DIVU", "REM", "REMU", "DIVW", "DIVUW", "REMW", "REMUW"}
-----------------------------------------------------------------------------
(* x86_cg_emit_load and x86_cg_emit_store, at the address in RCX *)
Loads ==
  [LOAD8 |-> Mem("loadsx8", 64, Rax, Rcx, 0), LOAD8_U |-> Mem("loadzx8", 64, Rax, Rcx, 0),
   LOAD16 |-> Mem("loadsx16", 64, Rax, Rcx, 0), LOAD16_U |-> Mem("loadzx16", 64, Rax, Rcx, 0),
   LOAD32 |-> Mem("loadsx32", 64, Rax, Rcx, 0), LOAD32_U |-> Mem("load", 32, Rax, Rcx, 0),
   LOAD64 |-> Mem("load", 64, Rax, Rcx, 0)]
Stores ==
  [STORE8 |-> Mem("store", 8, Rax, Rcx, 0), STORE16 |-> Mem("store", 16, Rax, Rcx, 0),
   STORE32 |-> Mem("store", 32, Rax, Rcx, 0), STORE64 |-> Mem("store", 64, Rax, Rcx, 0)]

(* x86_mem_type_size *)
AccessSize(op) ==
  CASE op \in {"LOAD8", "LOAD8_U", "STORE8"} -> 1
    [] op \in {"LOAD16", "LOAD16_U", "STORE16"} -> 2
    [] op \in {"LOAD32", "LOAD32_U", "STORE32"} -> 4
    [] op \in {"LOAD64", "STORE64"} -> 8

StackTest(n) ==
  <<RI("cmpi", 64, Rcx, Guard), Jcc("jb", "not_stack"),
    RR("mov", 64, Rdx, R13), RI("addi", 64, Rdx, -n), RR("cmp", 64, Rdx, Rcx), Jcc("jae", "stack"),
    Label("not_stack")>>

(* Its bounds are constants; without .data there is no test *)
DataTest(n, data) ==
  IF data.size = 0 THEN <<>>
  ELSE <<Wide(Rsi, data.addr), RR("cmp", 64, Rcx, Rsi), Jcc("jb", "not_data"),
         Wide(Rsi, data.addr + data.size - n), RR("cmp", 64, Rcx, Rsi), Jcc("ja", "not_data"),
         Wide(Rsi, data.mem - data.addr), RR("add", 64, Rcx, Rsi), Jmp("access"), Label("not_data")>>

(* There is no .text for a store *)
TextTest(n, store) ==
  IF store THEN <<Jmp("fault")>>
  ELSE <<RR("cmp", 64, Rcx, Rbx), Jcc("jb", "fault"),
         RR("mov", 64, Rdx, Rbp), RI("addi", 64, Rdx, -n), RR("cmp", 64, Rdx, Rcx), Jcc("jb", "fault"),
         RR("mov", 64, Rdx, Rcx), RR("sub", 64, Rdx, Rbx), RR("add", 64, Rdx, R12), RR("mov", 64, Rcx, Rdx),
         Jmp("access")>>

(* x86_cg_emit_mem_access, up to the access *)
FindPlace(n, store, imm, data) ==
  (IF imm = 0 THEN <<>> ELSE <<RI("addi", 64, Rcx, imm)>>)
    \o StackTest(n) \o DataTest(n, data) \o TextTest(n, store)
    \o <<Label("stack"), RR("add", 64, Rcx, R14), Jmp("access"), Label("fault"), Jmp(Out), Label("access")>>

Load(o, data) ==
  <<Get(Rcx, o.rs1)>> \o FindPlace(AccessSize(o.op), FALSE, o.imm, data) \o <<Loads[o.op], Set(o.rd, Rax)>>
Store(o, data) ==
  <<Get(Rcx, o.rs1), Get(Rax, o.rs2)>> \o FindPlace(AccessSize(o.op), TRUE, o.imm, data) \o <<Stores[o.op]>>
-----------------------------------------------------------------------------
(* x86_cg_emit_fuel_check *)
FuelCheck ==
  <<Mem("load", 64, Rax, R15, FuelOffset), RI("addi", 64, Rax, -1), Mem("store", 64, Rax, R15, FuelOffset),
    RR("test", 64, Rax, Rax), Jcc("jle", Out)>>

(* RCX has the link: RAX keeps the target, which may come from rd *)
Jalr(o, pc) ==
  <<Get(Rax, o.rs1), RI("addi", 64, Rax, o.imm), RI("andi", 64, Rax, -2)>>
    \o (IF o.rd = 0 THEN <<>> ELSE <<Wide(Rcx, pc + 4), Set(o.rd, Rcx)>>)
    \o <<SetPc(Rax), Jmp(Out)>>

(* emit_ecall; where the jit and the function are is in env *)
Ecall(env) ==
  <<RR("push", 64, Rax, 0), Wide(Rdi, env.jit), Wide(Rax, env.ecall), RR("call", 64, Rax, 0), RR("pop", 64, Rax, 0)>>

(* env: what the code is compiled for, as it goes into immediates *)
EmitInstruction(o, env) ==
  CASE o.op \in DOMAIN RegOps \cup DOMAIN ImmOps \cup DOMAIN ShiftOps \cup DOMAIN ShiftImmOps -> Arithmetic(o)
    [] o.op \in DOMAIN Compares -> Compare(o)
    [] o.op \in DOMAIN Branches -> Branch(o)
    [] o.op \in DOMAIN Loads    -> Load(o, env.data)
    [] o.op \in DOMAIN Stores   -> Store(o, env.data)
    [] o.op \in MulOps -> Multiply(o)
    [] o.op \in DivOps -> Divrem(o, o.op \in {"DIV", "REM", "DIVW", "REMW"},
                                 o.op \in {"DIVW", "DIVUW", "REMW", "REMUW"},
                                 o.op \in {"REM", "REMU", "REMW", "REMUW"}, env.min)
    [] o.op = "NOP"     -> <<>>
    [] o.op = "MOV"     -> <<Get(Rax, o.rs2), Set(o.rd, Rax)>>
    [] o.op = "LI"      -> <<Wide(Rax, o.imm), Set(o.rd, Rax)>>
    [] o.op = "BEQZ"    -> <<Get(Rax, o.rs1), RR("test", 64, Rax, Rax), Jcc("je", Out)>>
    [] o.op = "JMP"     -> <<Jmp(Out)>>
    [] o.op = "JMP_REG" -> <<Get(Rax, o.rs1), SetPc(Rax), Jmp(Out)>>
    [] o.op = "JALR"    -> Jalr(o, env.pc)
    [] o.op = "ECALL"   -> Ecall(env)
    [] o.op = "EBREAK"  -> <<Plain("int3")>>
    [] o.op = "UD2"     -> <<Plain("ud2")>>
    [] o.op = "FUEL_CHECK" -> FuelCheck

(* Every operation begins with x0 = 0 *)
ZeroX0 == <<Wide(Rax, 0), Set(0, Rax)>>

(* The code in front of the operations and behind them, and a fault stub *)
CalleeSaved == <<Rbp, Rbx, R12, R13, R14, R15>>
Trampoline(env) ==
  [k \in 1..6 |-> RR("push", 64, CalleeSaved[k], 0)]
    \o <<RR("mov", 64, R15, Rdi), Mem("load", 64, R14, R15, StackMemOffset), Mem("load", 64, R13, R15, StackSizeOffset),
         Wide(R12, env.text.mem), Wide(Rbx, env.text.addr), Wide(Rbp, env.text.addr + env.text.size),
         RR("jmpr", 64, Rsi, 0)>>
Epilogue == [k \in 1..6 |-> RR("pop", 64, CalleeSaved[7 - k], 0)] \o <<Plain("ret")>>
FaultStub(env) ==
  <<Wide(Rax, env.pc), SetPc(Rax), Wide(Rax, 1), Mem("store", 64, Rax, R15, FaultOffset), Jmp(Out)>>

CodeOf(o, env) ==
  CASE o.op = "TRAMPOLINE" -> Trampoline(env)
    [] o.op = "EPILOGUE"   -> Epilogue
    [] o.op = "STUB"       -> FaultStub(env)
    [] OTHER -> ZeroX0 \o (IF Discarded(o) THEN <<>> ELSE EmitInstruction(o, env))

(* The jumps by number: a label stands for the instruction behind it, and   *)
(* Out for none.                                                            *)
Linked(code) ==
  LET IsLabel(h) == h.op = "label"
      real[n \in 0..Len(code)] ==
        IF n = 0 THEN <<>> ELSE IF IsLabel(code[n]) THEN real[n - 1] ELSE Append(real[n - 1], code[n])
      Target(h) ==
        IF h.to \in {NoJump, Out} THEN 0
        ELSE Len(real[CHOOSE k \in DOMAIN code : IsLabel(code[k]) /\ code[k].to = h.to]) + 1
      all == real[Len(code)]
  IN [k \in DOMAIN all |-> [all[k] EXCEPT !.to = Target(all[k])]]
=============================================================================
