------------------------------- MODULE Decode -------------------------------
(***************************************************************************)
(* The decoder: translate_rv32 and translate_rvc take an instruction apart *)
(* and give the operations that its handler pushes, none to two of them.   *)
(* An instruction is the word of 32 bits as a signed integer, or the       *)
(* half-word of 16.                                                        *)
(***************************************************************************)
EXTENDS Integers, Sequences

Field(instr, lsb, width) == (instr \div 2^lsb) % 2^width
Bit(instr, b) == IF b = 31 THEN (IF instr < 0 THEN 1 ELSE 0) ELSE Field(instr, b, 1)
Sign(instr, b, magnitude) == IF Bit(instr, b) = 1 THEN -magnitude ELSE 0

(* The fields of a 32-bit instruction *)
RV32(i) ==
  [opcode |-> Field(i, 0, 7), rd |-> Field(i, 7, 5), funct3 |-> Field(i, 12, 3), rs1 |-> Field(i, 15, 5),
   rs2 |-> Field(i, 20, 5), funct7 |-> Field(i, 25, 7), shamt |-> Field(i, 20, 5),
   shamt64 |-> Field(i, 20, 6), funct6 |-> Field(i, 26, 6)]

(* RV32_IMM_I to RV32_IMM_U *)
Imm32(format, i) ==
  CASE format = "I" -> Sign(i, 31, 4096) + Field(i, 20, 12)
    [] format = "S" -> Sign(i, 31, 4096) + Field(i, 25, 7) * 32 + Field(i, 7, 5)
    [] format = "B" -> Sign(i, 31, 4096) + Bit(i, 7) * 2048 + Field(i, 25, 6) * 32 + Field(i, 8, 4) * 2
    [] format = "U" -> (i \div 4096) * 4096

(* Seeded fault: bit 11 is read from the sign *)
ImmJSignAs11(i) == Sign(i, 31, 2^20) + Field(i, 12, 8) * 4096 + Bit(i, 31) * 2048 + Field(i, 21, 10) * 2
ImmJ(i) == Sign(i, 31, 2^20) + Field(i, 12, 8) * 4096 + Bit(i, 20) * 2048 + Field(i, 21, 10) * 2

(* Those of a compressed one; the primed registers are x8 to x15 *)
IsRvc(i) == Field(i, 0, 2) # 3
RVC(i) ==
  [op |-> Field(i, 0, 2), funct3 |-> Field(i, 13, 3), misc |-> Field(i, 10, 2), alu |-> Field(i, 5, 2),
   bit12 |-> Bit(i, 12), rd |-> Field(i, 7, 5), rs2 |-> Field(i, 2, 5),
   rs1p |-> 8 + Field(i, 7, 3), rs2p |-> 8 + Field(i, 2, 3)]

(* RVC_IMM_CI to RVC_IMM_ADDI16SP *)
Imm16(format, i) ==
  CASE format = "CI" -> Sign(i, 12, 32) + Field(i, 2, 5)
    [] format = "CJ" -> Sign(i, 12, 2048) + Bit(i, 8) * 1024 + Field(i, 9, 2) * 256 + Bit(i, 6) * 128
                          + Bit(i, 7) * 64 + Bit(i, 2) * 32 + Bit(i, 11) * 16 + Field(i, 3, 3) * 2
    [] format = "CB" -> Sign(i, 12, 256) + Field(i, 5, 2) * 64 + Bit(i, 2) * 32 + Field(i, 10, 2) * 8
                          + Field(i, 3, 2) * 2
    [] format = "LW"   -> Bit(i, 5) * 64 + Field(i, 10, 3) * 8 + Bit(i, 6) * 4
    [] format = "LD"   -> Field(i, 10, 3) * 8 + Field(i, 5, 2) * 64
    [] format = "LWSP" -> Field(i, 2, 2) * 64 + Bit(i, 12) * 32 + Field(i, 4, 3) * 4
    [] format = "LDSP" -> Bit(i, 12) * 32 + Field(i, 5, 2) * 8 + Field(i, 2, 3) * 64
    [] format = "SWSP" -> Field(i, 7, 2) * 64 + Field(i, 9, 4) * 4
    [] format = "SDSP" -> Field(i, 10, 3) * 8 + Field(i, 7, 3) * 64
    [] format = "ADDI4SPN" -> Field(i, 7, 4) * 64 + Field(i, 11, 2) * 16 + Bit(i, 5) * 8 + Bit(i, 6) * 4
    [] format = "ADDI16SP" -> Sign(i, 12, 512) + Field(i, 3, 2) * 128 + Bit(i, 5) * 64 + Bit(i, 2) * 32
                                + Bit(i, 6) * 16
-----------------------------------------------------------------------------
Zero == 0  \* RV_REG_ZERO, IR_NO_REGISTER and IR_NO_IMMEDIATE
Ra == 1
Sp == 2

Emit(op, rd, rs1, rs2, imm) == <<[op |-> op, rd |-> rd, rs1 |-> rs1, rs2 |-> rs2, imm |-> imm]>>
Nothing == <<>>
Invalid == Emit("UD2", Zero, Zero, Zero, 0)

(* A table of operations by funct3; an empty entry is no operation *)
None == "none"
Lookup(ops, f3) == ops[f3 + 1]
NotFound(ops, f3) == Lookup(ops, f3) = None

Store(i) ==
  LET ops == <<"STORE8", "STORE16", "STORE32", "STORE64", None, None, None, None>>
      f3  == RV32(i).funct3
  IN IF NotFound(ops, f3) THEN Invalid
     ELSE Emit(Lookup(ops, f3), Zero, RV32(i).rs1, RV32(i).rs2, Imm32("S", i))

Load(i) ==
  LET ops == <<"LOAD8", "LOAD16", "LOAD32", "LOAD64", "LOAD8_U", "LOAD16_U", "LOAD32_U", None>>
      f3  == RV32(i).funct3
  IN IF NotFound(ops, f3) THEN Invalid
     ELSE Emit(Lookup(ops, f3), RV32(i).rd, RV32(i).rs1, Zero, Imm32("I", i))

OpImm(i) ==
  LET ops == <<"ADDI", None, "SLTI", "SLTIU", "XORI", None, "ORI", "ANDI">>
      f3  == RV32(i).funct3
      Imm(op, imm) == Emit(op, RV32(i).rd, RV32(i).rs1, Zero, imm)
  IN CASE f3 = 1 -> Imm("SLLI", RV32(i).shamt64)
       [] f3 = 5 /\ RV32(i).funct6 = 0  -> Imm("SRLI", RV32(i).shamt64)
       [] f3 = 5 /\ RV32(i).funct6 = 16 -> Imm("SRAI", RV32(i).shamt64)
       [] f3 = 5 /\ RV32(i).funct6 \notin {0, 16} -> Invalid
       [] OTHER -> Imm(Lookup(ops, f3), Imm32("I", i))

OpImm32(i) ==
  LET f3 == RV32(i).funct3
      f7 == RV32(i).funct7
      Imm(op, imm) == Emit(op, RV32(i).rd, RV32(i).rs1, Zero, imm)
  IN CASE f3 = 0            -> Imm("ADDI_EXT32", Imm32("I", i))
       [] f3 = 1 /\ f7 = 0  -> Imm("SLLI_EXT32", RV32(i).shamt)
       [] f3 = 5 /\ f7 = 0  -> Imm("SRLI_EXT32", RV32(i).shamt)
       [] f3 = 5 /\ f7 = 32 -> Imm("SRAI_EXT32", RV32(i).shamt)
       [] OTHER -> Invalid

RegReg(op, i) == Emit(op, RV32(i).rd, RV32(i).rs1, RV32(i).rs2, 0)

(* emit_funct7_opcode *)
Funct7(i, base, alt) ==
  CASE RV32(i).funct7 = 0  -> RegReg(base, i)
    [] RV32(i).funct7 = 32 -> RegReg(alt, i)
    [] OTHER -> Invalid

OpMulDiv(i) ==
  LET ops == <<"MUL", "MULH", "MULHSU", "MULHU", "DIV", "DIVU", "REM", "REMU">>
  IN RegReg(Lookup(ops, RV32(i).funct3), i)

Op32MulDiv(i) ==
  LET ops == <<"MULW", None, None, None, "DIVW", "DIVUW", "REMW", "REMUW">>
      f3  == RV32(i).funct3
  IN IF NotFound(ops, f3) THEN Invalid ELSE RegReg(Lookup(ops, f3), i)

Op(i) ==
  LET f3  == RV32(i).funct3
      f7  == RV32(i).funct7
      ops == <<None, "SLL", "SLT", "SLTU", "XOR", None, "OR", "AND">>
  IN CASE f7 = 1 -> OpMulDiv(i)
       [] f7 # 1 /\ f3 = 0 -> Funct7(i, "ADD", "SUB")
       [] f7 # 1 /\ f3 = 5 -> Funct7(i, "SRL", "SRA")
       [] f7 = 0 /\ f3 \notin {0, 5} -> RegReg(Lookup(ops, f3), i)
       [] OTHER -> Invalid

Op32(i) ==
  LET f3 == RV32(i).funct3
      f7 == RV32(i).funct7
  IN CASE f7 = 1 -> Op32MulDiv(i)
       [] f7 # 1 /\ f3 = 0 -> Funct7(i, "ADD_EXT32", "SUB_EXT32")
       [] f7 # 1 /\ f3 = 5 -> Funct7(i, "SRL_EXT32", "SRA_EXT32")
       [] f7 = 0 /\ f3 = 1 -> RegReg("SLL_EXT32", i)
       [] OTHER -> Invalid

Branch(i, pc) ==
  LET ops == <<"BEQ", "BNE", None, None, "BLT", "BGE", "BLTU", "BGEU">>
      f3  == RV32(i).funct3
  IN IF NotFound(ops, f3) THEN Invalid
     ELSE Emit(Lookup(ops, f3), Zero, RV32(i).rs1, RV32(i).rs2, pc + Imm32("B", i))

Jal(i, pc) ==
  Emit("LI", RV32(i).rd, Zero, Zero, pc + 4) \o Emit("JMP", Zero, Zero, Zero, pc + ImmJ(i))

Jalr(i) == Emit("JALR", RV32(i).rd, RV32(i).rs1, Zero, Imm32("I", i))
MiscMem(i) == Emit("NOP", Zero, Zero, Zero, 0)
Lui(i) == Emit("LI", RV32(i).rd, Zero, Zero, Imm32("U", i))
Auipc(i, pc) == Emit("LI", RV32(i).rd, Zero, Zero, pc + Imm32("U", i))

System(i) ==
  CASE RV32(i).funct3 # 0 -> Invalid
    [] RV32(i).funct3 = 0 /\ Imm32("I", i) = 0 -> Emit("ECALL", Zero, Zero, Zero, 0)
    [] RV32(i).funct3 = 0 /\ Imm32("I", i) = 1 -> Emit("EBREAK", Zero, Zero, Zero, 0)
    [] OTHER -> Invalid

TranslateRv32(i, pc) ==
  LET opcode == RV32(i).opcode
  IN CASE opcode = 3   -> Load(i)
       [] opcode = 15  -> MiscMem(i)
       [] opcode = 19  -> OpImm(i)
       [] opcode = 23  -> Auipc(i, pc)
       [] opcode = 27  -> OpImm32(i)
       [] opcode = 35  -> Store(i)
       [] opcode = 51  -> Op(i)
       [] opcode = 55  -> Lui(i)
       [] opcode = 59  -> Op32(i)
       [] opcode = 99  -> Branch(i, pc)
       [] opcode = 103 -> Jalr(i)
       [] opcode = 111 -> Jal(i, pc)
       [] opcode = 115 -> System(i)
       [] OTHER -> Invalid
-----------------------------------------------------------------------------
(* The compressed instructions.  What has no effect emits nothing. *)
Imm(op, rd, rs1, imm) == Emit(op, rd, rs1, Zero, imm)
Unless(none, ops) == IF none THEN Nothing ELSE ops

Addi4spn(i) == Unless(Imm16("ADDI4SPN", i) = 0, Imm("ADDI", RVC(i).rs2p, Sp, Imm16("ADDI4SPN", i)))

(* The accesses through a primed register *)
LoadStoreP(i) ==
  LET r == RVC(i)
  IN CASE r.funct3 = 2 -> Imm("LOAD32", r.rs2p, r.rs1p, Imm16("LW", i))
       [] r.funct3 = 3 -> Imm("LOAD64", r.rs2p, r.rs1p, Imm16("LD", i))
       [] r.funct3 = 6 -> Emit("STORE32", Zero, r.rs1p, r.rs2p, Imm16("LW", i))
       [] r.funct3 = 7 -> Emit("STORE64", Zero, r.rs1p, r.rs2p, Imm16("LD", i))

AddiAddiw(i) ==
  LET r == RVC(i)
  IN Unless(r.rd = Zero, Imm(IF r.funct3 = 1 THEN "ADDI_EXT32" ELSE "ADDI", r.rd, r.rd, Imm16("CI", i)))

Li(i) == Unless(RVC(i).rd = Zero, Imm("LI", RVC(i).rd, Zero, Imm16("CI", i)))

LuiAddi16sp(i) ==
  LET rd == RVC(i).rd
  IN IF rd = Sp THEN Imm("ADDI", Sp, Sp, Imm16("ADDI16SP", i))
     ELSE Unless(rd = Zero, Imm("LI", rd, Zero, Imm16("CI", i) * 4096))

RvcShamt(i) == RVC(i).bit12 * 32 + Field(i, 2, 5)

MiscAlu(i) ==
  LET r == RVC(i)
      Alu(op) == Emit(op, r.rs1p, r.rs1p, r.rs2p, 0)
      Shift(op) == Unless(RvcShamt(i) = 0, Imm(op, r.rs1p, r.rs1p, RvcShamt(i)))
  IN CASE r.misc = 0 -> Shift("SRLI")
       [] r.misc = 1 -> Shift("SRAI")
       [] r.misc = 2 -> Imm("ANDI", r.rs1p, r.rs1p, Imm16("CI", i))
       [] r.misc = 3 /\ r.bit12 = 0 -> Alu(<<"SUB", "XOR", "OR", "AND">>[r.alu + 1])
       [] r.misc = 3 /\ r.bit12 = 1 /\ r.alu \in {0, 1} -> Alu(<<"SUB_EXT32", "ADD_EXT32">>[r.alu + 1])
       [] OTHER -> Invalid

(* c.j, c.beqz and c.bnez *)
RvcJump(i, pc) ==
  LET r == RVC(i)
  IN CASE r.funct3 = 5 -> Imm("JMP", Zero, Zero, pc + Imm16("CJ", i))
       [] r.funct3 = 6 -> Imm("BEQZ", Zero, r.rs1p, pc + Imm16("CB", i))
       [] r.funct3 = 7 -> Imm("BNE", Zero, r.rs1p, pc + Imm16("CB", i))

Slli(i) ==
  LET rd    == RVC(i).rd
      shamt == Imm16("CI", i) % 64
  IN Unless(rd = Zero \/ shamt = 0, Imm("SLLI", rd, rd, shamt))

(* The accesses through the stack pointer *)
LoadStoreSp(i) ==
  LET r == RVC(i)
  IN CASE r.funct3 = 2 -> Unless(r.rd = Zero, Imm("LOAD32", r.rd, Sp, Imm16("LWSP", i)))
       [] r.funct3 = 3 -> Unless(r.rd = Zero, Imm("LOAD64", r.rd, Sp, Imm16("LDSP", i)))
       [] r.funct3 = 6 -> Emit("STORE32", Zero, Sp, r.rs2, Imm16("SWSP", i))
       [] r.funct3 = 7 -> Emit("STORE64", Zero, Sp, r.rs2, Imm16("SDSP", i))

(* Seeded fault: c.jalr as two operations, the link and the jump *)
JrMvJalrAddInTwo(i, pc) ==
  LET r == RVC(i)
  IN IF r.rs2 = Zero
     THEN Unless(r.bit12 = 0, Imm("LI", Ra, Zero, pc + 2)) \o Imm("JMP_REG", Zero, r.rd, 0)
     ELSE Unless(r.rd = Zero, Emit("ADD", r.rd, IF r.bit12 = 1 THEN r.rd ELSE Zero, r.rs2, 0))

(* There is no branch for c.jalr, where bit 12 is set and rs2 is zero *)
JrMvJalrAdd(i, pc) ==
  LET r == RVC(i)
  IN CASE r.bit12 = 0 /\ r.rs2 = Zero -> Imm("JMP_REG", Zero, r.rd, 0)
       [] r.bit12 = 0 /\ r.rs2 # Zero -> Unless(r.rd = Zero, Emit("MOV", r.rd, Zero, r.rs2, 0))
       [] r.bit12 = 1 -> Unless(r.rd = Zero \/ r.rs2 = Zero, Emit("ADD", r.rd, r.rd, r.rs2, 0))

Nop == 1          \* RVC_INSTR_NOP
Ebreak == 36866   \* RVC_INSTR_EBREAK, 0x9002

(* rvc_dispatch_table *)
RvcHandler(i, pc) ==
  LET r == RVC(i)
      at == <<r.op, r.funct3>>
  IN CASE at = <<0, 0>> -> Addi4spn(i)
       [] r.op = 0 /\ r.funct3 \in {2, 3, 6, 7} -> LoadStoreP(i)
       [] r.op = 1 /\ r.funct3 \in {0, 1} -> AddiAddiw(i)
       [] at = <<1, 2>> -> Li(i)
       [] at = <<1, 3>> -> LuiAddi16sp(i)
       [] at = <<1, 4>> -> MiscAlu(i)
       [] r.op = 1 /\ r.funct3 \in {5, 6, 7} -> RvcJump(i, pc)
       [] at = <<2, 0>> -> Slli(i)
       [] r.op = 2 /\ r.funct3 \in {2, 3, 6, 7} -> LoadStoreSp(i)
       [] at = <<2, 4>> -> JrMvJalrAdd(i, pc)
       [] OTHER -> Invalid

TranslateRvc(i, pc) ==
  CASE i = Nop    -> Nothing
    [] i = Ebreak -> Emit("EBREAK", Zero, Zero, Zero, 0)
    [] OTHER -> RvcHandler(i, pc)

(* What ir_translate pushes after the fuel check *)
Translate(i, pc) == IF IsRvc(i) THEN TranslateRvc(i, pc) ELSE TranslateRv32(i, pc)
=============================================================================
