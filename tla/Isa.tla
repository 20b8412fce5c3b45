-------------------------------- MODULE Isa --------------------------------
(***************************************************************************)
(* The reference for the decoder: RV64IMC as its manual lays instructions  *)
(* out, a table of fixed fields for the 32-bit formats and an expansion    *)
(* for each compressed one.  Immediates are written as the manual draws    *)
(* them: which bit of the instruction each bit of the immediate is.        *)
(* Nothing here is taken from the decoder.                                 *)
(***************************************************************************)
LOCAL INSTANCE Integers

IBit(i, b) == IF b = 31 THEN (IF i < 0 THEN 1 ELSE 0) ELSE (i \div 2^b) % 2
IBits(i, hi, lo) == (i \div 2^lo) % 2^(hi - lo + 1)

(* A number written as its bits, the highest first *)
a ++ b == 2 * a + b

(* One instruction in the reference's form; an effect is a sequence of them *)
I(op, rd, rs1, rs2, imm) == [op |-> op, rd |-> rd, rs1 |-> rs1, rs2 |-> rs2, imm |-> imm]
Illegal == <<I("UD2", 0, 0, 0, 0)>>
-----------------------------------------------------------------------------
(* <<opcode, funct3, funct7>> of the register-register instructions *)
RType ==
  [ADD |-> <<51, 0, 0>>, SUB |-> <<51, 0, 32>>, SLL |-> <<51, 1, 0>>, SLT |-> <<51, 2, 0>>,
   SLTU |-> <<51, 3, 0>>, XOR |-> <<51, 4, 0>>, SRL |-> <<51, 5, 0>>, SRA |-> <<51, 5, 32>>,
   OR |-> <<51, 6, 0>>, AND |-> <<51, 7, 0>>,
   MUL |-> <<51, 0, 1>>, MULH |-> <<51, 1, 1>>, MULHSU |-> <<51, 2, 1>>, MULHU |-> <<51, 3, 1>>,
   DIV |-> <<51, 4, 1>>, DIVU |-> <<51, 5, 1>>, REM |-> <<51, 6, 1>>, REMU |-> <<51, 7, 1>>,
   ADD_EXT32 |-> <<59, 0, 0>>, SUB_EXT32 |-> <<59, 0, 32>>, SLL_EXT32 |-> <<59, 1, 0>>,
   SRL_EXT32 |-> <<59, 5, 0>>, SRA_EXT32 |-> <<59, 5, 32>>, MULW |-> <<59, 0, 1>>,
   DIVW |-> <<59, 4, 1>>, DIVUW |-> <<59, 5, 1>>, REMW |-> <<59, 6, 1>>, REMUW |-> <<59, 7, 1>>]

(* <<opcode, funct3>> of those with an immediate *)
IType ==
  [ADDI |-> <<19, 0>>, SLTI |-> <<19, 2>>, SLTIU |-> <<19, 3>>, XORI |-> <<19, 4>>, ORI |-> <<19, 6>>,
   ANDI |-> <<19, 7>>, ADDI_EXT32 |-> <<27, 0>>, LOAD8 |-> <<3, 0>>, LOAD16 |-> <<3, 1>>,
   LOAD32 |-> <<3, 2>>, LOAD64 |-> <<3, 3>>, LOAD8_U |-> <<3, 4>>, LOAD16_U |-> <<3, 5>>, LOAD32_U |-> <<3, 6>>]
SType == [STORE8 |-> <<35, 0>>, STORE16 |-> <<35, 1>>, STORE32 |-> <<35, 2>>, STORE64 |-> <<35, 3>>]
BType == [BEQ |-> <<99, 0>>, BNE |-> <<99, 1>>, BLT |-> <<99, 4>>, BGE |-> <<99, 5>>,
          BLTU |-> <<99, 6>>, BGEU |-> <<99, 7>>]

(* <<opcode, funct3, the bits above the shift amount>>, and its width *)
Shift64 == [SRLI |-> <<19, 5, 0>>, SRAI |-> <<19, 5, 16>>]
Shift32 == [SLLI_EXT32 |-> <<27, 1, 0>>, SRLI_EXT32 |-> <<27, 5, 0>>, SRAI_EXT32 |-> <<27, 5, 32>>]

Fixed(i) == <<IBits(i, 6, 0), IBits(i, 14, 12)>>
FixedAnd(i, rest) == <<IBits(i, 6, 0), IBits(i, 14, 12), rest>>
Matching(table, key) == {op \in DOMAIN table : table[op] = key}
The(S) == CHOOSE op \in S : TRUE

(* The immediates; the highest bit of a signed one counts negatively *)
ImmOfI(i) ==
  LET b(k) == IBit(i, k)
  IN (b(30) ++ b(29) ++ b(28) ++ b(27) ++ b(26) ++ b(25) ++ b(24) ++ b(23) ++ b(22) ++ b(21)
        ++ b(20)) - 2^11 * b(31)
ImmOfS(i) ==
  LET b(k) == IBit(i, k)
  IN (b(30) ++ b(29) ++ b(28) ++ b(27) ++ b(26) ++ b(25) ++ b(11) ++ b(10) ++ b(9) ++ b(8)
        ++ b(7)) - 2^11 * b(31)
ImmOfB(i) ==
  LET b(k) == IBit(i, k)
  IN (b(7) ++ b(30) ++ b(29) ++ b(28) ++ b(27) ++ b(26) ++ b(25) ++ b(11) ++ b(10) ++ b(9)
        ++ b(8) ++ 0) - 2^12 * b(31)
ImmOfJ(i) ==
  LET b(k) == IBit(i, k)
  IN (b(19) ++ b(18) ++ b(17) ++ b(16) ++ b(15) ++ b(14) ++ b(13) ++ b(12) ++ b(20) ++ b(30)
        ++ b(29) ++ b(28) ++ b(27) ++ b(26) ++ b(25) ++ b(24) ++ b(23) ++ b(22) ++ b(21) ++ 0) - 2^20 * b(31)
ImmOfU(i) ==
  LET b(k) == IBit(i, k)
  IN ((b(30) ++ b(29) ++ b(28) ++ b(27) ++ b(26) ++ b(25) ++ b(24) ++ b(23) ++ b(22) ++ b(21)
        ++ b(20) ++ b(19) ++ b(18) ++ b(17) ++ b(16) ++ b(15) ++ b(14) ++ b(13) ++ b(12)) - 2^19 * b(31)) * 2^12

Wide(i, pc) ==
  LET rd == IBits(i, 11, 7)  rs1 == IBits(i, 19, 15)  rs2 == IBits(i, 24, 20)
      r   == Matching(RType, FixedAnd(i, IBits(i, 30, 25) + 64 * IBit(i, 31)))
      im  == Matching(IType, Fixed(i))
      st  == Matching(SType, Fixed(i))
      br  == Matching(BType, Fixed(i))
      s64 == Matching(Shift64, FixedAnd(i, IBits(i, 30, 26) + 32 * IBit(i, 31)))
      s32 == Matching(Shift32, FixedAnd(i, IBits(i, 30, 25) + 64 * IBit(i, 31)))
      opcode == IBits(i, 6, 0)
  IN CASE r # {}   -> <<I(The(r), rd, rs1, rs2, 0)>>
       [] im # {}  -> <<I(The(im), rd, rs1, 0, ImmOfI(i))>>
       [] st # {}  -> <<I(The(st), 0, rs1, rs2, ImmOfS(i))>>
       [] br # {}  -> <<I(The(br), 0, rs1, rs2, pc + ImmOfB(i))>>
       [] s64 # {} -> <<I(The(s64), rd, rs1, 0, IBits(i, 25, 20))>>
       [] s32 # {} -> <<I(The(s32), rd, rs1, 0, IBits(i, 24, 20))>>
       [] opcode = 55  -> <<I("LI", rd, 0, 0, ImmOfU(i))>>
       [] opcode = 23  -> <<I("LI", rd, 0, 0, pc + ImmOfU(i))>>
       [] opcode = 111 -> <<I("LI", rd, 0, 0, pc + 4), I("JMP", 0, 0, 0, pc + ImmOfJ(i))>>
       [] i = 115      -> <<I("ECALL", 0, 0, 0, 0)>>
       [] i = 2^20 + 115 -> <<I("EBREAK", 0, 0, 0, 0)>>
       [] Fixed(i) = <<19, 1>> -> <<I("SLLI", rd, rs1, 0, IBits(i, 25, 20))>>
       [] opcode = 103 -> <<I("JALR", rd, rs1, 0, ImmOfI(i))>>
       [] opcode = 15  -> <<>>
       [] OTHER -> Illegal

(* Wide does not look at every field of SLLI, JALR, FENCE and SYSTEM: the  *)
(* encodings that the manual leaves open there are set apart.              *)
Lenient(i) ==
  \/ Fixed(i) = <<19, 1>> /\ IBits(i, 30, 26) + IBit(i, 31) # 0
  \/ IBits(i, 6, 0) = 103 /\ IBits(i, 14, 12) # 0
  \/ IBits(i, 6, 0) = 15 /\ IBits(i, 14, 12) \notin {0, 1}
  \/ IBits(i, 6, 0) = 115 /\ ImmOfI(i) \in {0, 1} /\ IBits(i, 14, 12) = 0 /\ IBits(i, 19, 7) # 0
-----------------------------------------------------------------------------
(* The compressed instructions of RV64C, each as what it expands to.  The  *)
(* floating-point ones belong to extensions that this guest does not have. *)
Reserved == <<I("RESERVED", 0, 0, 0, 0)>>
NonZero(imm, expansion) == IF imm = 0 THEN Reserved ELSE expansion

(* Their immediates; those of loads, stores and c.addi4spn have no sign *)
Imm6(i) ==
  LET b(k) == IBit(i, k)
  IN b(12) ++ b(6) ++ b(5) ++ b(4) ++ b(3) ++ b(2)
SignedImm6(i) ==
  LET b(k) == IBit(i, k)
  IN (b(6) ++ b(5) ++ b(4) ++ b(3) ++ b(2)) - 2^5 * b(12)
OffsetW(i) ==
  LET b(k) == IBit(i, k)
  IN b(5) ++ b(12) ++ b(11) ++ b(10) ++ b(6) ++ 0 ++ 0
OffsetD(i) ==
  LET b(k) == IBit(i, k)
  IN b(6) ++ b(5) ++ b(12) ++ b(11) ++ b(10) ++ 0 ++ 0 ++ 0
Sp4n(i) ==
  LET b(k) == IBit(i, k)
  IN b(10) ++ b(9) ++ b(8) ++ b(7) ++ b(12) ++ b(11) ++ b(5) ++ b(6) ++ 0 ++ 0
Sp16(i) ==
  LET b(k) == IBit(i, k)
  IN (b(4) ++ b(3) ++ b(5) ++ b(2) ++ b(6) ++ 0 ++ 0 ++ 0 ++ 0) - 2^9 * b(12)
Upper(i) == SignedImm6(i) * 2^12
Jump(i) ==
  LET b(k) == IBit(i, k)
  IN (b(8) ++ b(10) ++ b(9) ++ b(6) ++ b(7) ++ b(2) ++ b(11) ++ b(5) ++ b(4) ++ b(3)
        ++ 0) - 2^11 * b(12)
Beyond(i) ==
  LET b(k) == IBit(i, k)
  IN (b(6) ++ b(5) ++ b(2) ++ b(11) ++ b(10) ++ b(4) ++ b(3) ++ 0) - 2^8 * b(12)
LoadSpW(i) ==
  LET b(k) == IBit(i, k)
  IN b(3) ++ b(2) ++ b(12) ++ b(6) ++ b(5) ++ b(4) ++ 0 ++ 0
LoadSpD(i) ==
  LET b(k) == IBit(i, k)
  IN b(4) ++ b(3) ++ b(2) ++ b(12) ++ b(6) ++ b(5) ++ 0 ++ 0 ++ 0
StoreSpW(i) ==
  LET b(k) == IBit(i, k)
  IN b(8) ++ b(7) ++ b(12) ++ b(11) ++ b(10) ++ b(9) ++ 0 ++ 0
StoreSpD(i) ==
  LET b(k) == IBit(i, k)
  IN b(9) ++ b(8) ++ b(7) ++ b(12) ++ b(11) ++ b(10) ++ 0 ++ 0 ++ 0

Funct3(i) == IBits(i, 15, 13)
Rd(i) == IBits(i, 11, 7)
Rs2(i) == IBits(i, 6, 2)
RdPrime(i) == 8 + IBits(i, 4, 2)
Rs1Prime(i) == 8 + IBits(i, 9, 7)

Quadrant0(i) ==
  LET f3 == Funct3(i)  rd == RdPrime(i)  rs1 == Rs1Prime(i)
  IN CASE f3 = 0 -> NonZero(Sp4n(i), <<I("ADDI", rd, 2, 0, Sp4n(i))>>)
       [] f3 = 2 -> <<I("LOAD32", rd, rs1, 0, OffsetW(i))>>
       [] f3 = 3 -> <<I("LOAD64", rd, rs1, 0, OffsetD(i))>>
       [] f3 = 6 -> <<I("STORE32", 0, rs1, rd, OffsetW(i))>>
       [] f3 = 7 -> <<I("STORE64", 0, rs1, rd, OffsetD(i))>>
       [] f3 = 4 -> Reserved
       [] f3 \in {1, 5} -> Illegal

Arithmetic(i) ==
  LET kind == IBits(i, 11, 10)  rs1 == Rs1Prime(i)  rs2 == RdPrime(i)
  IN CASE kind = 0 -> <<I("SRLI", rs1, rs1, 0, Imm6(i))>>
       [] kind = 1 -> <<I("SRAI", rs1, rs1, 0, Imm6(i))>>
       [] kind = 2 -> <<I("ANDI", rs1, rs1, 0, SignedImm6(i))>>
       [] kind = 3 /\ IBit(i, 12) = 0 ->
            <<I(<<"SUB", "XOR", "OR", "AND">>[IBits(i, 6, 5) + 1], rs1, rs1, rs2, 0)>>
       [] kind = 3 /\ IBit(i, 12) = 1 /\ IBit(i, 6) = 0 ->
            <<I(<<"SUB_EXT32", "ADD_EXT32">>[IBits(i, 6, 5) + 1], rs1, rs1, rs2, 0)>>
       [] OTHER -> Reserved

Quadrant1(i, pc) ==
  LET f3 == Funct3(i)  rd == Rd(i)  rs1 == Rs1Prime(i)
  IN CASE f3 = 0 -> <<I("ADDI", rd, rd, 0, SignedImm6(i))>>
       [] f3 = 1 -> NonZero(rd, <<I("ADDI_EXT32", rd, rd, 0, SignedImm6(i))>>)
       [] f3 = 2 -> <<I("LI", rd, 0, 0, SignedImm6(i))>>
       [] f3 = 3 /\ rd = 2 -> NonZero(Sp16(i), <<I("ADDI", 2, 2, 0, Sp16(i))>>)
       [] f3 = 3 /\ rd # 2 -> NonZero(Upper(i), <<I("LI", rd, 0, 0, Upper(i))>>)
       [] f3 = 4 -> Arithmetic(i)
       [] f3 = 5 -> <<I("JMP", 0, 0, 0, pc + Jump(i))>>
       [] f3 = 6 -> <<I("BEQ", 0, rs1, 0, pc + Beyond(i))>>
       [] f3 = 7 -> <<I("BNE", 0, rs1, 0, pc + Beyond(i))>>

Quadrant2(i) ==
  LET f3 == Funct3(i)  rd == Rd(i)  rs2 == Rs2(i)  b12 == IBit(i, 12)
  IN CASE f3 = 0 -> <<I("SLLI", rd, rd, 0, Imm6(i))>>
       [] f3 = 2 -> NonZero(rd, <<I("LOAD32", rd, 2, 0, LoadSpW(i))>>)
       [] f3 = 3 -> NonZero(rd, <<I("LOAD64", rd, 2, 0, LoadSpD(i))>>)
       [] f3 = 4 /\ b12 = 0 /\ rs2 = 0 -> NonZero(rd, <<I("JALR", 0, rd, 0, 0)>>)
       [] f3 = 4 /\ b12 = 0 /\ rs2 # 0 -> <<I("ADD", rd, 0, rs2, 0)>>
       [] f3 = 4 /\ b12 = 1 /\ rs2 = 0 ->
            IF rd = 0 THEN <<I("EBREAK", 0, 0, 0, 0)>> ELSE <<I("C_JALR", 1, rd, 0, 0)>>
       [] f3 = 4 /\ b12 = 1 /\ rs2 # 0 -> <<I("ADD", rd, rd, rs2, 0)>>
       [] f3 = 6 -> <<I("STORE32", 0, 2, rs2, StoreSpW(i))>>
       [] f3 = 7 -> <<I("STORE64", 0, 2, rs2, StoreSpD(i))>>
       [] f3 \in {1, 5} -> Illegal

Compressed(i, pc) ==
  CASE IBits(i, 1, 0) = 0 -> Quadrant0(i)
    [] IBits(i, 1, 0) = 1 -> Quadrant1(i, pc)
    [] IBits(i, 1, 0) = 2 -> Quadrant2(i)

Instruction(i, pc) == IF IBits(i, 1, 0) = 3 THEN Wide(i, pc) ELSE Compressed(i, pc)
=============================================================================
