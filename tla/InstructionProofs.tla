------------------------- MODULE InstructionProofs -------------------------
(***************************************************************************)
(* What becomes of an instruction, for every encoding, every program and   *)
(* every constant.                                                         *)
(*                                                                         *)
(* First how much room it takes: how many operations it is translated to,  *)
(* and how many bytes of host code each operation is.  The bytes of each   *)
(* form of host instruction are bounded (BytesShort), pieces of code add   *)
(* their bounds (Takes, Join), linking and assembling keep them (LinkedIs, *)
(* AssembledFits); the decoder is followed handler by handler.             *)
(*                                                                         *)
(* Then what it is translated to: a run of bits is a field (the From       *)
(* lemmas, RunIs), so an immediate of the decoder is the one the manual    *)
(* draws (the Immediate lemmas); the manual's tables are read off for each *)
(* opcode (WideIs, TableOfOpcode), and each handler pushes what they say;  *)
(* the compressed instructions go by quadrant, up to what has no effect.   *)
(***************************************************************************)
EXTENDS Instruction, Induction, SequenceTheorems, TLAPS

(* A byte of host code *)
Byte == 0..255

(* The k-th byte of v, from the lowest *)
Digit(v, k) == (v \div 256^(k - 1)) % 256

(* The four bytes of a word *)
LEMMA DigitIs ==
  ASSUME NEW v \in Int
  PROVE  /\ Digit(v, 1) = v % 256
         /\ Digit(v, 2) = (v \div 256) % 256
         /\ Digit(v, 3) = (v \div 65536) % 256
         /\ Digit(v, 4) = (v \div 16777216) % 256
         /\ {Digit(v, 1), Digit(v, 2), Digit(v, 3), Digit(v, 4)} \subseteq Byte
<1>1. /\ 256^(1 - 1) = 1
      /\ 256^(2 - 1) = 256
      /\ 256^(3 - 1) = 65536
      /\ 256^(4 - 1) = 16777216
  OBVIOUS
<1>2. /\ Digit(v, 1) = v % 256
      /\ Digit(v, 2) = (v \div 256) % 256
      /\ Digit(v, 3) = (v \div 65536) % 256
      /\ Digit(v, 4) = (v \div 16777216) % 256
  BY <1>1 DEF Digit
<1>3. Digit(v, 1) \in Byte /\ Digit(v, 2) \in Byte /\ Digit(v, 3) \in Byte /\ Digit(v, 4) \in Byte
  BY <1>2 DEF Byte
<1> QED
  BY <1>2, <1>3

(* A value written from its lowest byte *)
LEMMA LeIs ==
  ASSUME NEW v \in Int
  PROVE  /\ Code!Le(v, 1) = <<Digit(v, 1)>>
         /\ Code!Le(v, 4) = <<Digit(v, 1), Digit(v, 2), Digit(v, 3), Digit(v, 4)>>
<1>1. Code!Le(v, 1) = [i \in 1..1 |-> Digit(v, i)] /\ Code!Le(v, 4) = [i \in 1..4 |-> Digit(v, i)]
  BY DEF Code!Le, Digit
<1> QED
  BY <1>1

(* At most n bytes *)
Short(bs, n) == bs \in Seq(Byte) /\ Len(bs) <= n

(* Bytes behind others, and bytes that are written out *)
LEMMA ShortBoth ==
  ASSUME NEW a, NEW b, NEW m \in Nat, NEW n \in Nat, Short(a, m), Short(b, n)
  PROVE  Short(a \o b, m + n)
<1> DEFINE ab == a \o b
<1>1. ab \in Seq(Byte) /\ Len(ab) = Len(a) + Len(b) /\ Len(a) \in Nat /\ Len(b) \in Nat
  BY DEF Short
<1> HIDE DEF ab
<1>2. Short(ab, m + n)
  BY <1>1 DEF Short
<1> QED
  BY <1>2 DEF ab

(* No bytes *)
LEMMA ShortNone ==
  ASSUME NEW n \in Nat
  PROVE  Short(<<>>, n)
BY DEF Short

(* One byte *)
LEMMA ShortOne ==
  ASSUME NEW x \in Byte
  PROVE  Short(<<x>>, 1)
BY DEF Short

(* Two bytes *)
LEMMA ShortTwo ==
  ASSUME NEW x \in Byte, NEW y \in Byte
  PROVE  Short(<<x, y>>, 2)
BY DEF Short

(* Four bytes *)
LEMMA ShortFour ==
  ASSUME NEW x \in Byte, NEW y \in Byte, NEW z \in Byte, NEW u \in Byte
  PROVE  Short(<<x, y, z, u>>, 4)
BY DEF Short

(* A value takes as many bytes as it is written with. *)
LEMMA ShortLe ==
  ASSUME NEW v \in Int
  PROVE  Short(Code!Le(v, 1), 1) /\ Short(Code!Le(v, 4), 4)
<1>1. Digit(v, 1) \in Byte /\ Digit(v, 2) \in Byte /\ Digit(v, 3) \in Byte /\ Digit(v, 4) \in Byte
  BY DigitIs
<1>2. Short(<<Digit(v, 1)>>, 1)
  BY <1>1, ShortOne
<1>3. Short(<<Digit(v, 1), Digit(v, 2), Digit(v, 3), Digit(v, 4)>>, 4)
  BY <1>1, ShortFour
<1> QED
  BY <1>2, <1>3, LeIs, Zenon

(* The registers of the host, by number *)
Numbers == 0..15

(* The prefix is one byte. *)
LEMMA ShortRex ==
  ASSUME NEW w, NEW reg \in Numbers, NEW rm \in Numbers
  PROVE  Short(Code!Rex(w, reg, rm), 1)
<1> DEFINE bits == (IF w = 64 THEN 8 ELSE 0) + (IF reg >= 8 THEN 4 ELSE 0) + (IF rm >= 8 THEN 1 ELSE 0)
<1>1. bits \in 0..13
  OBVIOUS
<1>2. Code!Rex(w, reg, rm) = IF bits = 0 THEN <<>> ELSE <<64 + bits>>
  BY DEF Code!Rex
<1> HIDE DEF bits
<1>3. 64 + bits \in Byte
  BY <1>1 DEF Byte
<1> QED
  BY <1>2, <1>3, ShortNone, ShortOne

(* The operands are one byte. *)
LEMMA ShortModRM ==
  ASSUME NEW mod \in 0..3, NEW reg \in Numbers, NEW rm \in Numbers
  PROVE  Short(Code!ModRM(mod, reg, rm), 1)
<1>1. 64 * mod + 8 * (reg % 8) + (rm % 8) \in Byte
  BY DEF Byte, Numbers
<1> QED
  BY <1>1, ShortOne DEF Code!ModRM

(* An opcode with two registers takes two bytes more. *)
LEMMA ShortRegReg ==
  ASSUME NEW opcode, NEW n \in Nat, Short(opcode, n), NEW w, NEW reg \in Numbers, NEW rm \in Numbers
  PROVE  Short(Code!RegReg(opcode, w, reg, rm), n + 2)
<1>1. Short(Code!Rex(w, reg, rm), 1) /\ Short(Code!ModRM(3, reg, rm), 1)
  BY ShortRex, ShortModRM
<1>2. Short(Code!Rex(w, reg, rm) \o opcode, 1 + n)
  BY <1>1, ShortBoth
<1>3. Short((Code!Rex(w, reg, rm) \o opcode) \o Code!ModRM(3, reg, rm), (1 + n) + 1)
  BY <1>1, <1>2, ShortBoth
<1>4. (1 + n) + 1 = n + 2
  OBVIOUS
<1> QED
  BY <1>3, <1>4 DEF Code!RegReg

(* An opcode with a place in memory takes at most seven more: the prefix,  *)
(* the operands, the byte for rsp and r12, and the displacement.           *)
LEMMA ShortRegMem ==
  ASSUME NEW opcode, NEW n \in Nat, Short(opcode, n), NEW w, NEW reg \in Numbers, NEW base \in Numbers,
         NEW disp \in Int
  PROVE  Short(Code!RegMem(opcode, w, reg, base, disp), n + 7)
<1> DEFINE isShort == Code!FitsI8(disp)
           rex == Code!Rex(w, reg, base)
           modrm == Code!ModRM(IF isShort THEN 1 ELSE 2, reg, base)
           sib == IF base % 8 = 4 THEN <<32 + (base % 8)>> ELSE <<>>
           le == Code!Le(disp, IF isShort THEN 1 ELSE 4)
<1>1. Short(rex, 1)
  BY ShortRex
<1>2. Short(modrm, 1)
  <2>1. (IF isShort THEN 1 ELSE 2) \in 0..3
    OBVIOUS
  <2> HIDE DEF isShort
  <2> QED
    BY <2>1, ShortModRM
<1>3. Short(sib, 1)
  <2>1. base % 8 = 4 => 32 + (base % 8) \in Byte
    BY DEF Byte
  <2> QED
    BY <2>1, ShortOne, ShortNone
<1>4. Short(le, 4)
  <2>1. CASE isShort
    BY <2>1, ShortLe DEF Short
  <2>2. CASE ~isShort
    BY <2>2, ShortLe
  <2> QED
    BY <2>1, <2>2
<1>5. Code!RegMem(opcode, w, reg, base, disp) = (((rex \o opcode) \o modrm) \o sib) \o le
  BY DEF Code!RegMem
<1> HIDE DEF isShort, rex, modrm, sib, le
<1>6. Short(rex \o opcode, 1 + n)
  BY <1>1, ShortBoth
<1>7. Short((rex \o opcode) \o modrm, (1 + n) + 1)
  BY <1>2, <1>6, ShortBoth
<1>8. Short(((rex \o opcode) \o modrm) \o sib, ((1 + n) + 1) + 1)
  BY <1>3, <1>7, ShortBoth
<1>9. Short((((rex \o opcode) \o modrm) \o sib) \o le, (((1 + n) + 1) + 1) + 4)
  BY <1>4, <1>8, ShortBoth
<1>10. (((1 + n) + 1) + 1) + 4 = n + 7
  OBVIOUS
<1> QED
  BY <1>5, <1>9, <1>10

(* An operation with an immediate *)
LEMMA ShortAluImm ==
  ASSUME NEW ext \in Numbers, NEW w, NEW dst \in Numbers, NEW imm \in Int
  PROVE  Short(Code!AluImm(ext, w, dst, imm), 7)
<1> DEFINE rex == Code!Rex(w, 0, dst)
           modrm == Code!ModRM(3, ext, dst)
           one == Code!Le(imm, 1)
           four == Code!Le(imm, 4)
<1>1. Short(rex, 1)
  BY ShortRex DEF Numbers
<1>2. Short(modrm, 1)
  BY ShortModRM
<1>3. Short(one, 1) /\ Short(four, 4)
  BY ShortLe
<1>4. Short(<<131>>, 1) /\ Short(<<5>>, 1) /\ Short(<<129>>, 1)
  BY ShortOne DEF Byte
<1>5. Code!AluImm(ext, w, dst, imm) =
        rex \o (IF Code!FitsI8(imm) THEN (<<131>> \o modrm) \o one
                ELSE IF dst = Code!Rax /\ ext = 0 THEN <<5>> \o four
                ELSE (<<129>> \o modrm) \o four)
  BY DEF Code!AluImm
<1> HIDE DEF rex, modrm, one, four
<1>6. Short((<<131>> \o modrm) \o one, 3) /\ Short((<<129>> \o modrm) \o four, 6) /\ Short(<<5>> \o four, 5)
  <2>1. Short(<<131>> \o modrm, 2) /\ Short(<<129>> \o modrm, 2) /\ Short(<<5>> \o four, 5)
    BY <1>2, <1>3, <1>4, ShortBoth
  <2> QED
    BY <1>3, <2>1, ShortBoth
<1>7. Short(IF Code!FitsI8(imm) THEN (<<131>> \o modrm) \o one
            ELSE IF dst = Code!Rax /\ ext = 0 THEN <<5>> \o four ELSE (<<129>> \o modrm) \o four, 6)
  BY <1>6 DEF Short
<1>8. 1 + 6 = 7
  OBVIOUS
<1> QED
  BY <1>1, <1>5, <1>7, <1>8, ShortBoth

(* The instructions with a ModRM byte for two registers, and those no longer *)
RegisterForms ==
  DOMAIN Code!AluOpcode \cup DOMAIN Code!ShiftExtension \cup DOMAIN Code!Group3 \cup DOMAIN Code!Group5
    \cup DOMAIN Code!SetCode \cup {"movsxd", "movzx8", "imul2", "push", "pop", "cqo"}
(* Those with a place in memory *)
MemoryForms == DOMAIN Code!WideLoadOpcode \cup {"load", "loadsx32", "store"}

(* The bytes that an instruction takes at most *)
Most(op) ==
  CASE op \in RegisterForms -> 4
    [] op \in DOMAIN Code!AluExtension -> 7
    [] op \in DOMAIN Code!ShiftImmExtension -> 4
    [] op \in MemoryForms -> 9
    [] op \in DOMAIN Code!JccCode -> 6
    [] op \in DOMAIN Code!Fixed -> 2
    [] op = "imm64" -> 10
    [] op = "jmp"   -> 5
    [] op = "label" -> 0

(* All instructions *)
HostOps == RegisterForms \cup DOMAIN Code!AluExtension \cup DOMAIN Code!ShiftImmExtension \cup MemoryForms
             \cup DOMAIN Code!JccCode \cup DOMAIN Code!Fixed \cup {"imm64", "jmp", "label"}

(* Operand sizes *)
Widths == {0, 8, 16, 32, 64}
(* No jump, and a jump out *)
Outside == {"none", "out"}
(* The labels of HostCode *)
Labels == {"nonzero", "divide", "done", "not_stack", "stack", "not_data", "access", "fault"}
(* Where a jump leads, linked or not *)
Places == Labels \cup Outside \cup Nat

(* An instruction of the host *)
HostInstr ==
  [op : HostOps, w : Widths, dst : Numbers, src : Numbers, imm : Int, hi : Int, to : Places]

(* What fits a room fits a larger one. *)
LEMMA ShortMore ==
  ASSUME NEW bs, NEW m \in Nat, NEW n \in Nat, Short(bs, m), m <= n
  PROVE  Short(bs, n)
BY DEF Short

(* The forms with a ModRM byte for two registers *)
LEMMA ShortOneReg ==
  ASSUME NEW x \in Byte, NEW w, NEW reg \in Numbers, NEW rm \in Numbers
  PROVE  Short(Code!RegReg(<<x>>, w, reg, rm), 4)
<1>1. Short(<<x>>, 1)
  BY ShortOne
<1>2. Short(Code!RegReg(<<x>>, w, reg, rm), 1 + 2)
  BY <1>1, ShortRegReg
<1> QED
  BY <1>2 DEF Short

(* An opcode of two bytes with two registers *)
LEMMA ShortTwoReg ==
  ASSUME NEW x \in Byte, NEW y \in Byte, NEW w, NEW reg \in Numbers, NEW rm \in Numbers
  PROVE  Short(Code!RegReg(<<x, y>>, w, reg, rm), 4)
<1>1. Short(<<x, y>>, 2)
  BY ShortTwo
<1>2. Short(Code!RegReg(<<x, y>>, w, reg, rm), 2 + 2)
  BY <1>1, ShortRegReg
<1> QED
  BY <1>2 DEF Short

(* The instructions that each table has *)
LEMMA Tables ==
  /\ DOMAIN Code!AluOpcode = {"add", "or", "and", "sub", "xor", "cmp", "test", "mov"}
  /\ DOMAIN Code!AluExtension = {"addi", "ori", "andi", "xori", "cmpi"}
  /\ DOMAIN Code!ShiftExtension = {"shl", "shr", "sar"}
  /\ DOMAIN Code!ShiftImmExtension = {"shli", "shri", "sari"}
  /\ DOMAIN Code!Group3 = {"mul", "imul", "div", "idiv"}
  /\ DOMAIN Code!Group5 = {"call", "jmpr"}
  /\ DOMAIN Code!WideLoadOpcode = {"loadzx8", "loadzx16", "loadsx8", "loadsx16"}
  /\ DOMAIN Code!JccCode = {"jb", "jae", "je", "jne", "ja", "jl", "jge", "jle"}
  /\ DOMAIN Code!SetCode = {"setb", "setl"}
  /\ DOMAIN Code!Fixed = {"ret", "int3", "ud2"}
BY DEF Code!AluOpcode, Code!AluExtension, Code!ShiftExtension, Code!ShiftImmExtension, Code!Group3,
   Code!Group5, Code!WideLoadOpcode, Code!JccCode, Code!SetCode, Code!Fixed

(* What the forms that have a table are in bytes *)
LEMMA BytesOfTables ==
  ASSUME NEW h, NEW rel
  PROVE  /\ h.op \in DOMAIN Code!AluOpcode => Code!Bytes(h, rel) = Code!RegReg(<<Code!AluOpcode[h.op]>>, h.w, h.src, h.dst)
         /\ h.op \in DOMAIN Code!AluExtension => Code!Bytes(h, rel) = Code!AluImm(Code!AluExtension[h.op], h.w, h.dst, h.imm)
         /\ h.op \in DOMAIN Code!ShiftExtension => Code!Bytes(h, rel) = Code!RegReg(<<211>>, h.w, Code!ShiftExtension[h.op], h.dst)
         /\ h.op \in DOMAIN Code!ShiftImmExtension => Code!Bytes(h, rel) = Code!RegReg(<<193>>, h.w, Code!ShiftImmExtension[h.op], h.dst) \o Code!Le(h.imm, 1)
         /\ h.op \in DOMAIN Code!Group3 => Code!Bytes(h, rel) = Code!RegReg(<<247>>, h.w, Code!Group3[h.op], h.dst)
         /\ h.op \in DOMAIN Code!Group5 => Code!Bytes(h, rel) = Code!RegReg(<<255>>, 0, Code!Group5[h.op], h.dst)
         /\ h.op \in DOMAIN Code!WideLoadOpcode => Code!Bytes(h, rel) = (Code!Rex(64, h.dst, h.src) \o <<15, Code!WideLoadOpcode[h.op]>>) \o Code!ModRM(0, h.dst, h.src)
         /\ h.op \in DOMAIN Code!JccCode => Code!Bytes(h, rel) = <<15, 128 + Code!JccCode[h.op]>> \o Code!Le(rel, 4)
         /\ h.op \in DOMAIN Code!SetCode => Code!Bytes(h, rel) = Code!Setcc(Code!SetCode[h.op], h.dst)
         /\ h.op \in DOMAIN Code!Fixed => Code!Bytes(h, rel) = Code!Fixed[h.op]
<1>1. h.op \in DOMAIN Code!AluOpcode => Code!Bytes(h, rel) = Code!RegReg(<<Code!AluOpcode[h.op]>>, h.w, h.src, h.dst)
  BY Tables DEF Code!Bytes
<1>2. h.op \in DOMAIN Code!AluExtension => Code!Bytes(h, rel) = Code!AluImm(Code!AluExtension[h.op], h.w, h.dst, h.imm)
  BY Tables DEF Code!Bytes
<1>3. h.op \in DOMAIN Code!ShiftExtension => Code!Bytes(h, rel) = Code!RegReg(<<211>>, h.w, Code!ShiftExtension[h.op], h.dst)
  BY Tables DEF Code!Bytes
<1>4. h.op \in DOMAIN Code!ShiftImmExtension => Code!Bytes(h, rel) = Code!RegReg(<<193>>, h.w, Code!ShiftImmExtension[h.op], h.dst) \o Code!Le(h.imm, 1)
  BY Tables DEF Code!Bytes
<1>5. h.op \in DOMAIN Code!Group3 => Code!Bytes(h, rel) = Code!RegReg(<<247>>, h.w, Code!Group3[h.op], h.dst)
  BY Tables DEF Code!Bytes
<1>6. h.op \in DOMAIN Code!Group5 => Code!Bytes(h, rel) = Code!RegReg(<<255>>, 0, Code!Group5[h.op], h.dst)
  BY Tables DEF Code!Bytes
<1>7. h.op \in DOMAIN Code!WideLoadOpcode => Code!Bytes(h, rel) = (Code!Rex(64, h.dst, h.src) \o <<15, Code!WideLoadOpcode[h.op]>>) \o Code!ModRM(0, h.dst, h.src)
  BY Tables DEF Code!Bytes
<1>8. h.op \in DOMAIN Code!JccCode => Code!Bytes(h, rel) = <<15, 128 + Code!JccCode[h.op]>> \o Code!Le(rel, 4)
  BY Tables DEF Code!Bytes
<1>9. h.op \in DOMAIN Code!SetCode => Code!Bytes(h, rel) = Code!Setcc(Code!SetCode[h.op], h.dst)
  BY Tables DEF Code!Bytes
<1>10. h.op \in DOMAIN Code!Fixed => Code!Bytes(h, rel) = Code!Fixed[h.op]
  BY Tables DEF Code!Bytes
<1> QED
  BY <1>1, <1>2, <1>3, <1>4, <1>5, <1>6, <1>7, <1>8, <1>9, <1>10

(* The moves and the products *)
LEMMA BytesOfMoves ==
  ASSUME NEW h, NEW rel
  PROVE  /\ h.op = "movsxd" => Code!Bytes(h, rel) = Code!RegReg(<<99>>, 64, h.dst, h.src)
         /\ h.op = "movzx8" => Code!Bytes(h, rel) = Code!RegReg(<<15, 182>>, 64, h.dst, h.src)
         /\ h.op = "imul2" => Code!Bytes(h, rel) = Code!RegReg(<<15, 175>>, h.w, h.dst, h.src)
         /\ h.op = "load" => Code!Bytes(h, rel) = Code!RegMem(<<139>>, h.w, h.dst, h.src, h.imm)
         /\ h.op = "loadsx32" => Code!Bytes(h, rel) = Code!RegMem(<<99>>, 64, h.dst, h.src, h.imm)
         /\ h.op = "store" => Code!Bytes(h, rel) = Code!StoreBytes(h.w, h.dst, h.src, h.imm)
         /\ h.op = "imm64" => Code!Bytes(h, rel) = ((Code!Rex(64, 0, h.dst) \o <<184 + (h.dst % 8)>>) \o Code!Le(h.imm, 4)) \o Code!Le(h.hi, 4)
<1>1. h.op = "movsxd" => Code!Bytes(h, rel) = Code!RegReg(<<99>>, 64, h.dst, h.src)
  BY Tables DEF Code!Bytes
<1>2. h.op = "movzx8" => Code!Bytes(h, rel) = Code!RegReg(<<15, 182>>, 64, h.dst, h.src)
  BY Tables DEF Code!Bytes
<1>3. h.op = "imul2" => Code!Bytes(h, rel) = Code!RegReg(<<15, 175>>, h.w, h.dst, h.src)
  BY Tables DEF Code!Bytes
<1>4. h.op = "load" => Code!Bytes(h, rel) = Code!RegMem(<<139>>, h.w, h.dst, h.src, h.imm)
  BY Tables DEF Code!Bytes
<1>5. h.op = "loadsx32" => Code!Bytes(h, rel) = Code!RegMem(<<99>>, 64, h.dst, h.src, h.imm)
  BY Tables DEF Code!Bytes
<1>6. h.op = "store" => Code!Bytes(h, rel) = Code!StoreBytes(h.w, h.dst, h.src, h.imm)
  BY Tables DEF Code!Bytes
<1>7. h.op = "imm64" => Code!Bytes(h, rel) = ((Code!Rex(64, 0, h.dst) \o <<184 + (h.dst % 8)>>) \o Code!Le(h.imm, 4)) \o Code!Le(h.hi, 4)
  BY Tables DEF Code!Bytes
<1> QED
  BY <1>1, <1>2, <1>3, <1>4, <1>5, <1>6, <1>7

(* The others *)
LEMMA BytesOfOthers ==
  ASSUME NEW h, NEW rel
  PROVE  /\ h.op = "push" => Code!Bytes(h, rel) = Code!RegOpcode(80, h.dst)
         /\ h.op = "pop" => Code!Bytes(h, rel) = Code!RegOpcode(88, h.dst)
         /\ h.op = "cqo" => Code!Bytes(h, rel) = Code!Rex(h.w, 0, 0) \o <<153>>
         /\ h.op = "jmp" => Code!Bytes(h, rel) = <<233>> \o Code!Le(rel, 4)
<1>1. h.op = "push" => Code!Bytes(h, rel) = Code!RegOpcode(80, h.dst)
  BY Tables DEF Code!Bytes
<1>2. h.op = "pop" => Code!Bytes(h, rel) = Code!RegOpcode(88, h.dst)
  BY Tables DEF Code!Bytes
<1>3. h.op = "cqo" => Code!Bytes(h, rel) = Code!Rex(h.w, 0, 0) \o <<153>>
  BY Tables DEF Code!Bytes
<1>4. h.op = "jmp" => Code!Bytes(h, rel) = <<233>> \o Code!Le(rel, 4)
  BY Tables DEF Code!Bytes
<1> QED
  BY <1>1, <1>2, <1>3, <1>4

(* The forms for registers take at most four bytes. *)
LEMMA ShortRegister ==
  ASSUME NEW h \in HostInstr, h.op \in RegisterForms, NEW rel \in Int
  PROVE  Short(Code!Bytes(h, rel), 4)
<1>1. h.dst \in Numbers /\ h.src \in Numbers /\ 0 \in Numbers
  BY DEF HostInstr, Numbers
<1>2. CASE h.op \in DOMAIN Code!AluOpcode
  <2>1. Code!AluOpcode[h.op] \in Byte
    BY <1>2 DEF Code!AluOpcode, Byte
  <2>2. Code!Bytes(h, rel) = Code!RegReg(<<Code!AluOpcode[h.op]>>, h.w, h.src, h.dst)
    BY <1>2, BytesOfTables, Zenon
  <2> QED
    BY <1>1, <2>1, <2>2, ShortOneReg
<1>3. CASE h.op \in DOMAIN Code!ShiftExtension
  <2>1. Code!ShiftExtension[h.op] \in Numbers /\ 211 \in Byte
    BY <1>3 DEF Code!ShiftExtension, Byte, Numbers
  <2>2. Code!Bytes(h, rel) = Code!RegReg(<<211>>, h.w, Code!ShiftExtension[h.op], h.dst)
    BY <1>3, BytesOfTables, Zenon
  <2> QED
    BY <1>1, <2>1, <2>2, ShortOneReg
<1>4. CASE h.op \in DOMAIN Code!Group3
  <2>1. Code!Group3[h.op] \in Numbers /\ 247 \in Byte
    BY <1>4 DEF Code!Group3, Byte, Numbers
  <2>2. Code!Bytes(h, rel) = Code!RegReg(<<247>>, h.w, Code!Group3[h.op], h.dst)
    BY <1>4, BytesOfTables, Zenon
  <2> QED
    BY <1>1, <2>1, <2>2, ShortOneReg
<1>5. CASE h.op \in DOMAIN Code!Group5
  <2>1. Code!Group5[h.op] \in Numbers /\ 255 \in Byte
    BY <1>5 DEF Code!Group5, Byte, Numbers
  <2>2. Code!Bytes(h, rel) = Code!RegReg(<<255>>, 0, Code!Group5[h.op], h.dst)
    BY <1>5, BytesOfTables, Zenon
  <2> QED
    BY <1>1, <2>1, <2>2, ShortOneReg
<1>6. CASE h.op \in DOMAIN Code!SetCode
  <2>1. Code!SetCode[h.op] \in Numbers /\ 144 + Code!SetCode[h.op] \in Byte /\ 15 \in Byte
    BY <1>6 DEF Code!SetCode, Byte, Numbers
  <2> DEFINE code == Code!SetCode[h.op]
             rex == Code!Rex(0, 0, h.dst)
             modrm == Code!ModRM(3, 0, h.dst)
  <2>2. Short(rex, 1) /\ Short(modrm, 1) /\ Short(<<15, 144 + code>>, 2)
    BY <1>1, <2>1, ShortRex, ShortModRM, ShortTwo
  <2>3. Code!Bytes(h, rel) = (rex \o <<15, 144 + code>>) \o modrm
    BY <1>6, BytesOfTables, Zenon DEF Code!Setcc
  <2> HIDE DEF code, rex, modrm
  <2>4. Short(rex \o <<15, 144 + code>>, 3)
    BY <2>2, ShortBoth
  <2>5. Short((rex \o <<15, 144 + code>>) \o modrm, 4)
    BY <2>2, <2>4, ShortBoth
  <2> QED
    BY <2>3, <2>5
<1>7. CASE h.op \in {"movsxd", "movzx8", "imul2"}
  <2>1. 99 \in Byte /\ 15 \in Byte /\ 182 \in Byte /\ 175 \in Byte
    BY DEF Byte
  <2>2. \/ Code!Bytes(h, rel) = Code!RegReg(<<99>>, 64, h.dst, h.src)
        \/ Code!Bytes(h, rel) = Code!RegReg(<<15, 182>>, 64, h.dst, h.src)
        \/ Code!Bytes(h, rel) = Code!RegReg(<<15, 175>>, h.w, h.dst, h.src)
    BY <1>7, BytesOfMoves, Zenon
  <2> QED
    BY <1>1, <2>1, <2>2, ShortOneReg, ShortTwoReg
<1>8. CASE h.op \in {"push", "pop"}
  <2>1. 80 + (h.dst % 8) \in Byte /\ 88 + (h.dst % 8) \in Byte
    BY <1>1 DEF Byte, Numbers
  <2> DEFINE rex == Code!Rex(0, 0, h.dst)
  <2>2. Short(rex, 1) /\ Short(<<80 + (h.dst % 8)>>, 1) /\ Short(<<88 + (h.dst % 8)>>, 1)
    BY <1>1, <2>1, ShortRex, ShortOne
  <2>3. \/ Code!Bytes(h, rel) = rex \o <<80 + (h.dst % 8)>>
        \/ Code!Bytes(h, rel) = rex \o <<88 + (h.dst % 8)>>
    BY <1>8, BytesOfOthers, Zenon DEF Code!RegOpcode
  <2> HIDE DEF rex
  <2>4. Short(rex \o <<80 + (h.dst % 8)>>, 2) /\ Short(rex \o <<88 + (h.dst % 8)>>, 2)
    BY <2>2, ShortBoth
  <2>5. Short(Code!Bytes(h, rel), 2)
    BY <2>3, <2>4
  <2> QED
    BY <2>5, ShortMore
<1>9. CASE h.op = "cqo"
  <2> DEFINE rex == Code!Rex(h.w, 0, 0)
  <2>1. Short(rex, 1) /\ Short(<<153>>, 1)
    BY <1>1, ShortRex, ShortOne DEF Byte
  <2>2. Code!Bytes(h, rel) = rex \o <<153>>
    BY <1>9, BytesOfOthers, Zenon
  <2> HIDE DEF rex
  <2>3. Short(rex \o <<153>>, 2)
    BY <2>1, ShortBoth
  <2> QED
    BY <2>2, <2>3, ShortMore
<1> QED
  BY <1>2, <1>3, <1>4, <1>5, <1>6, <1>7, <1>8, <1>9 DEF RegisterForms

(* What each form takes at most *)
LEMMA MostIs ==
  ASSUME NEW op \in HostOps
  PROVE  /\ Most(op) \in Nat
         /\ op \in RegisterForms => Most(op) = 4
         /\ op \in DOMAIN Code!AluExtension => Most(op) = 7
         /\ op \in DOMAIN Code!ShiftImmExtension => Most(op) = 4
         /\ op \in MemoryForms => Most(op) = 9
         /\ op \in DOMAIN Code!JccCode => Most(op) = 6
         /\ op \in DOMAIN Code!Fixed => Most(op) = 2
         /\ op = "imm64" => Most(op) = 10
         /\ op = "jmp" => Most(op) = 5
         /\ op = "label" => Most(op) = 0
BY Tables DEF Most, HostOps, RegisterForms, MemoryForms

(* The forms for memory take at most nine bytes. *)
LEMMA ShortMemory ==
  ASSUME NEW h \in HostInstr, h.op \in MemoryForms, NEW rel \in Int
  PROVE  Short(Code!Bytes(h, rel), 9)
<1>1. h.dst \in Numbers /\ h.src \in Numbers /\ h.imm \in Int
  BY DEF HostInstr, Numbers
<1>2. CASE h.op \in DOMAIN Code!WideLoadOpcode
  <2> DEFINE rex == Code!Rex(64, h.dst, h.src)
             code == Code!WideLoadOpcode[h.op]
             modrm == Code!ModRM(0, h.dst, h.src)
  <2>1. code \in Byte /\ 15 \in Byte
    BY <1>2 DEF Code!WideLoadOpcode, Byte
  <2>2. Short(rex, 1) /\ Short(modrm, 1) /\ Short(<<15, code>>, 2)
    <3> HIDE DEF code
    <3> QED
      BY <1>1, <2>1, ShortRex, ShortModRM, ShortTwo
  <2>3. Code!Bytes(h, rel) = (rex \o <<15, code>>) \o modrm
    BY <1>2, BytesOfTables, Zenon
  <2> HIDE DEF rex, code, modrm
  <2>4. Short(rex \o <<15, code>>, 3)
    BY <2>2, ShortBoth
  <2>5. Short((rex \o <<15, code>>) \o modrm, 4)
    BY <2>2, <2>4, ShortBoth
  <2> QED
    BY <2>3, <2>5, ShortMore
<1>3. ASSUME NEW x \in Byte, NEW w
      PROVE  Short(Code!RegMem(<<x>>, w, h.dst, h.src, h.imm), 8)
  <2>1. Short(<<x>>, 1)
    BY <1>3, ShortOne
  <2>2. Short(Code!RegMem(<<x>>, w, h.dst, h.src, h.imm), 1 + 7)
    BY <1>1, <2>1, ShortRegMem
  <2> QED
    BY <2>2
<1>4. 139 \in Byte /\ 99 \in Byte /\ 136 \in Byte /\ 137 \in Byte /\ 102 \in Byte
  BY DEF Byte
<1>5. CASE h.op = "load"
  <2>1. Code!Bytes(h, rel) = Code!RegMem(<<139>>, h.w, h.dst, h.src, h.imm)
    BY <1>5, BytesOfMoves, Zenon
  <2>2. Short(Code!RegMem(<<139>>, h.w, h.dst, h.src, h.imm), 8)
    BY <1>3, <1>4
  <2> QED
    BY <2>1, <2>2, ShortMore
<1>6. CASE h.op = "loadsx32"
  <2>1. Code!Bytes(h, rel) = Code!RegMem(<<99>>, 64, h.dst, h.src, h.imm)
    BY <1>6, BytesOfMoves, Zenon
  <2>2. Short(Code!RegMem(<<99>>, 64, h.dst, h.src, h.imm), 8)
    BY <1>3, <1>4
  <2> QED
    BY <2>1, <2>2, ShortMore
<1>7. CASE h.op = "store"
  <2> DEFINE byte == Code!RegMem(<<136>>, 32, h.dst, h.src, h.imm)
             half == Code!RegMem(<<137>>, 32, h.dst, h.src, h.imm)
             other == Code!RegMem(<<137>>, h.w, h.dst, h.src, h.imm)
  <2>1. Short(byte, 8) /\ Short(half, 8) /\ Short(other, 8) /\ Short(<<102>>, 1)
    BY <1>3, <1>4, ShortOne
  <2>2. Code!Bytes(h, rel) = Code!StoreBytes(h.w, h.dst, h.src, h.imm)
    BY <1>7, BytesOfMoves, Zenon
  <2>3. Code!StoreBytes(h.w, h.dst, h.src, h.imm) \in {byte, <<102>> \o half, other}
    BY DEF Code!StoreBytes
  <2> HIDE DEF byte, half, other
  <2>4. Short(<<102>> \o half, 9) /\ Short(byte, 9) /\ Short(other, 9)
    <3>1. Short(<<102>> \o half, 1 + 8)
      BY <2>1, ShortBoth
    <3> QED
      BY <2>1, <3>1, ShortMore
  <2> QED
    BY <2>2, <2>3, <2>4
<1> QED
  BY <1>2, <1>5, <1>6, <1>7 DEF MemoryForms

(* No instruction takes more bytes than its form has *)
LEMMA BytesShort ==
  ASSUME NEW h \in HostInstr, h.op # "label", NEW rel \in Int
  PROVE  Short(Code!Bytes(h, rel), Most(h.op))
<1>1. h.dst \in Numbers /\ h.src \in Numbers /\ 0 \in Numbers /\ h.imm \in Int /\ h.hi \in Int /\ h.op \in HostOps
  BY DEF HostInstr, Numbers
<1>2. CASE h.op \in RegisterForms
  BY <1>1, <1>2, MostIs, ShortRegister
<1>3. CASE h.op \in MemoryForms
  BY <1>1, <1>3, MostIs, ShortMemory
<1>4. CASE h.op \in DOMAIN Code!AluExtension
  <2>1. Code!AluExtension[h.op] \in Numbers
    BY <1>4 DEF Code!AluExtension, Numbers
  <2>2. Code!Bytes(h, rel) = Code!AluImm(Code!AluExtension[h.op], h.w, h.dst, h.imm)
    BY <1>4, BytesOfTables, Zenon
  <2> QED
    BY <1>1, <1>4, <2>1, <2>2, MostIs, ShortAluImm
<1>5. CASE h.op \in DOMAIN Code!ShiftImmExtension
  <2> DEFINE front == Code!RegReg(<<193>>, h.w, Code!ShiftImmExtension[h.op], h.dst)
             le == Code!Le(h.imm, 1)
  <2>1. Code!ShiftImmExtension[h.op] \in Numbers /\ 193 \in Byte
    BY <1>5 DEF Code!ShiftImmExtension, Numbers, Byte
  <2>2. Short(front, 1 + 2) /\ Short(le, 1)
    BY <1>1, <2>1, ShortOne, ShortRegReg, ShortLe
  <2>3. Code!Bytes(h, rel) = front \o le
    BY <1>5, BytesOfTables, Zenon
  <2> HIDE DEF front, le
  <2>4. Short(front \o le, (1 + 2) + 1)
    BY <2>2, ShortBoth
  <2> QED
    BY <1>1, <1>5, <2>3, <2>4, MostIs
<1>6. CASE h.op \in DOMAIN Code!JccCode
  <2> DEFINE code == Code!JccCode[h.op]
             le == Code!Le(rel, 4)
  <2>1. 128 + code \in Byte /\ 15 \in Byte
    BY <1>6 DEF Code!JccCode, Byte
  <2>2. Code!Bytes(h, rel) = <<15, 128 + code>> \o le
    BY <1>6, BytesOfTables, Zenon
  <2> HIDE DEF code
  <2>3. Short(<<15, 128 + code>>, 2) /\ Short(le, 4)
    BY <2>1, ShortTwo, ShortLe
  <2> HIDE DEF le
  <2>4. Short(<<15, 128 + code>> \o le, 2 + 4)
    BY <2>3, ShortBoth
  <2> QED
    BY <1>1, <1>6, <2>2, <2>4, MostIs
<1>7. CASE h.op \in DOMAIN Code!Fixed
  <2>1. 195 \in Byte /\ 204 \in Byte /\ 15 \in Byte /\ 11 \in Byte
    BY DEF Byte
  <2>2. Code!Fixed[h.op] \in {<<195>>, <<204>>, <<15, 11>>}
    BY <1>7 DEF Code!Fixed
  <2>3. Short(<<195>>, 2) /\ Short(<<204>>, 2) /\ Short(<<15, 11>>, 2)
    BY <2>1, ShortOne, ShortTwo, ShortMore
  <2>4. Code!Bytes(h, rel) = Code!Fixed[h.op]
    BY <1>7, BytesOfTables, Zenon
  <2> QED
    BY <1>1, <1>7, <2>2, <2>3, <2>4, MostIs
<1>8. CASE h.op = "imm64"
  <2> DEFINE rex == Code!Rex(64, 0, h.dst)
             code == 184 + (h.dst % 8)
             lo == Code!Le(h.imm, 4)
             hi == Code!Le(h.hi, 4)
  <2>1. code \in Byte
    BY <1>1 DEF Byte, Numbers
  <2>2. Short(rex, 1) /\ Short(<<code>>, 1) /\ Short(lo, 4) /\ Short(hi, 4)
    BY <1>1, <2>1, ShortRex, ShortOne, ShortLe
  <2>3. Code!Bytes(h, rel) = ((rex \o <<code>>) \o lo) \o hi
    BY <1>8, BytesOfMoves, Zenon
  <2> HIDE DEF rex, code, lo, hi
  <2>4. Short(rex \o <<code>>, 2)
    BY <2>2, ShortBoth
  <2>5. Short((rex \o <<code>>) \o lo, 6)
    BY <2>2, <2>4, ShortBoth
  <2>6. Short(((rex \o <<code>>) \o lo) \o hi, 10)
    BY <2>2, <2>5, ShortBoth
  <2> QED
    BY <1>1, <1>8, <2>3, <2>6, MostIs
<1>9. CASE h.op = "jmp"
  <2> DEFINE le == Code!Le(rel, 4)
  <2>1. Short(<<233>>, 1) /\ Short(le, 4)
    BY ShortOne, ShortLe DEF Byte
  <2>2. Code!Bytes(h, rel) = <<233>> \o le
    BY <1>9, BytesOfOthers, Zenon
  <2> HIDE DEF le
  <2>3. Short(<<233>> \o le, 5)
    BY <2>1, ShortBoth
  <2> QED
    BY <1>1, <1>9, <2>2, <2>3, MostIs
<1> QED
  BY <1>1, <1>2, <1>3, <1>4, <1>5, <1>6, <1>7, <1>8, <1>9 DEF HostOps

-----------------------------------------------------------------------------
(* A piece of code whose instructions take at most n bytes: f says how many *)
(* the first ones take.  Its jumps lead to labels of T, and those of L are  *)
(* in it.                                                                   *)
Budget(f, code, n) ==
  /\ f \in [0..Len(code) -> Nat]
  /\ f[0] = 0 /\ f[Len(code)] <= n
  /\ \A k \in 1..Len(code) : f[k - 1] + Most(code[k].op) <= f[k]

IsLabel(h, name) == h.op = "label" /\ h.to = name

Takes(code, n, T, L) ==
  /\ code \in Seq(HostInstr)
  /\ \A k \in 1..Len(code) : code[k].to \in T \cup Outside
  /\ \A name \in L : \E k \in 1..Len(code) : IsLabel(code[k], name)
  /\ \E f : Budget(f, code, n)

(* No code takes nothing. *)
LEMMA TakesNone ==
  Takes(<<>>, 0, {}, {})
<1> DEFINE f == [k \in 0..0 |-> 0]
<1>1. Budget(f, <<>>, 0)
  BY DEF Budget
<1> HIDE DEF f
<1> QED
  BY <1>1 DEF Takes

(* What takes so much is a sequence of instructions. *)
LEMMA TakesIsCode ==
  ASSUME NEW code, NEW n, NEW T, NEW L, Takes(code, n, T, L)
  PROVE  code \in Seq(HostInstr) /\ Len(code) \in Nat
<1>1. code \in Seq(HostInstr)
  BY Zenon DEF Takes
<1> QED
  BY <1>1

(* Every instruction has a bound. *)
LEMMA MostIsNat ==
  ASSUME NEW h \in HostInstr
  PROVE  Most(h.op) \in Nat
<1>1. h.op \in HostOps
  BY DEF HostInstr
<1> QED
  BY <1>1, MostIs, Zenon

(* One instruction that jumps to no label *)
LEMMA TakesOne ==
  ASSUME NEW h \in HostInstr, h.to \in Outside
  PROVE  Takes(<<h>>, Most(h.op), {}, {})
<1> DEFINE most == Most(h.op)
           f == [k \in 0..1 |-> IF k = 0 THEN 0 ELSE most]
           code == <<h>>
<1>1. most \in Nat
  BY MostIsNat
<1> HIDE DEF most
<1>2. code \in Seq(HostInstr)
  OBVIOUS
<1>3. Len(code) = 1
  OBVIOUS
<1>4. code[1] = h
  OBVIOUS
<1>5. f \in [0..1 -> Nat] /\ f[0] = 0 /\ f[1] = most
  BY <1>1
<1> HIDE DEF f, code
<1>6. \A k \in 1..Len(code) : k = 1
  BY <1>3
<1>7. \A k \in 1..Len(code) : f[k - 1] + Most(code[k].op) <= f[k]
  BY <1>1, <1>4, <1>5, <1>6 DEF most
<1>8. Budget(f, code, most)
  BY <1>1, <1>3, <1>5, <1>7 DEF Budget
<1>9. \A k \in 1..Len(code) : code[k].to \in Outside
  BY <1>4, <1>6
<1>10. Takes(code, most, {}, {})
  BY <1>2, <1>8, <1>9 DEF Takes
<1> QED
  BY <1>10 DEF code, most

(* One piece behind another *)
LEMMA TakesBoth ==
  ASSUME NEW a, NEW b, NEW m \in Nat, NEW n \in Nat, NEW T, NEW U, NEW L, NEW M,
         Takes(a, m, T, L), Takes(b, n, U, M)
  PROVE  Takes(a \o b, m + n, T \cup U, L \cup M)
<1> DEFINE code == a \o b
           A == Len(a)
           B == Len(b)
<1>1. a \in Seq(HostInstr) /\ b \in Seq(HostInstr) /\ A \in Nat /\ B \in Nat
  BY TakesIsCode
<1>2. /\ code \in Seq(HostInstr) /\ Len(code) = A + B
      /\ \A k \in 1..A : code[k] = a[k]
      /\ \A k \in A + 1..A + B : code[k] = b[k - A]
  BY <1>1
<1>3. \A k \in 1..A + B : k \in 1..A \/ (k \in A + 1..A + B /\ k - A \in 1..B)
  BY <1>1
<1>4. \A k \in 1..B : A + k \in A + 1..A + B /\ A + k \in 1..A + B /\ (A + k) - A = k
  BY <1>1
<1>5. \A k \in 1..A : k \in 1..A + B
  BY <1>1
<1>6. PICK f : Budget(f, a, m)
  BY DEF Takes
<1>7. PICK g : Budget(g, b, n)
  BY DEF Takes
<1> DEFINE h == [k \in 0..A + B |-> IF k <= A THEN f[k] ELSE f[A] + g[k - A]]
<1>8. f \in [0..A -> Nat] /\ g \in [0..B -> Nat] /\ f[0] = 0 /\ g[0] = 0 /\ f[A] <= m /\ g[B] <= n
  BY <1>6, <1>7 DEF Budget
<1>9. h \in [0..A + B -> Nat]
  BY <1>1, <1>8
<1>10. h[0] = 0 /\ h[A + B] <= m + n
  <2>1. h[0] = 0
    BY <1>1, <1>8
  <2>2. f[A] \in Nat /\ g[B] \in Nat
    BY <1>1, <1>8
  <2>3. h[A + B] = f[A] + g[B]
    <3>1. CASE B = 0
      BY <1>1, <1>8, <2>2, <3>1
    <3>2. CASE B # 0
      <4>1. ~(A + B <= A) /\ (A + B) - A = B /\ A + B \in 0..A + B
        BY <1>1, <3>2
      <4> HIDE DEF A, B
      <4> QED
        BY <4>1
    <3> QED
      BY <3>1, <3>2
  <2> HIDE DEF h, A, B
  <2> QED
    BY <1>8, <2>1, <2>2, <2>3
<1>11. ASSUME NEW k \in 1..A
       PROVE  h[k - 1] + Most(code[k].op) <= h[k]
  <2>1. f[k - 1] + Most(a[k].op) <= f[k]
    BY <1>6 DEF Budget
  <2>2. h[k - 1] = f[k - 1] /\ h[k] = f[k] /\ code[k] = a[k]
    BY <1>1, <1>2
  <2> HIDE DEF h, code, A, B
  <2> QED
    BY <2>1, <2>2
<1>12. ASSUME NEW k \in A + 1..A + B
       PROVE  h[k - 1] + Most(code[k].op) <= h[k]
  <2>1. k - A \in 1..B /\ (k - A) - 1 \in 0..B /\ (k - A) - 1 = (k - 1) - A
    BY <1>1
  <2>2. g[(k - A) - 1] + Most(b[k - A].op) <= g[k - A]
    BY <1>7, <2>1 DEF Budget
  <2>3. h[k - 1] = f[A] + g[(k - A) - 1]
    <3>1. k - 1 \in 0..A + B
      BY <1>1
    <3>2. h[k - 1] = IF k - 1 <= A THEN f[k - 1] ELSE f[A] + g[(k - 1) - A]
      BY <3>1
    <3>3. CASE k - 1 <= A
      <4>1. k - 1 = A /\ (k - A) - 1 = 0
        BY <1>1, <3>3
      <4>2. f[A] \in Nat
        BY <1>1, <1>8
      <4> HIDE DEF h, A, B
      <4> QED
        BY <1>8, <3>2, <3>3, <4>1, <4>2
    <3>4. CASE ~(k - 1 <= A)
      BY <2>1, <3>2, <3>4
    <3> QED
      BY <3>3, <3>4
  <2>4. h[k] = f[A] + g[k - A] /\ code[k] = b[k - A]
    BY <1>1, <1>2
  <2>5. f[A] \in Nat /\ g[k - A] \in Nat /\ g[(k - A) - 1] \in Nat
    <3>1. A \in 0..A /\ k - A \in 0..B
      BY <1>1, <2>1
    <3> HIDE DEF A, B
    <3> QED
      BY <1>8, <2>1, <3>1
  <2>6. Most(b[k - A].op) \in Nat
    <3>1. b[k - A] \in HostInstr
      BY <1>1, <2>1
    <3> QED
      BY <3>1, MostIsNat
  <2> HIDE DEF h, code, A, B
  <2> QED
    BY <2>2, <2>3, <2>4, <2>5, <2>6
<1> HIDE DEF h, code
<1>13. Budget(h, code, m + n)
  BY <1>2, <1>3, <1>9, <1>10, <1>11, <1>12 DEF Budget
<1>14. \A k \in 1..Len(code) : code[k].to \in (T \cup U) \cup Outside
  <2>1. \A k \in 1..A : a[k].to \in T \cup Outside
    BY DEF Takes
  <2>2. \A k \in 1..B : b[k].to \in U \cup Outside
    BY DEF Takes
  <2> HIDE DEF A, B
  <2> QED
    BY <1>2, <1>3, <2>1, <2>2
<1>15. \A name \in L \cup M : \E k \in 1..Len(code) : IsLabel(code[k], name)
  <2>1. ASSUME NEW name \in L
        PROVE  \E k \in 1..Len(code) : IsLabel(code[k], name)
    <3>1. PICK k \in 1..A : IsLabel(a[k], name)
      BY DEF Takes
    <3> HIDE DEF A, B
    <3> QED
      BY <1>2, <1>5, <3>1
  <2>2. ASSUME NEW name \in M
        PROVE  \E k \in 1..Len(code) : IsLabel(code[k], name)
    <3>1. PICK k \in 1..B : IsLabel(b[k], name)
      BY DEF Takes
    <3> HIDE DEF A, B
    <3>2. code[A + k] = b[k] /\ A + k \in 1..Len(code)
      BY <1>2, <1>4
    <3> QED
      BY <3>1, <3>2
  <2> QED
    BY <2>1, <2>2
<1>16. Takes(code, m + n, T \cup U, L \cup M)
  BY <1>2, <1>13, <1>14, <1>15 DEF Takes
<1> QED
  BY <1>16 DEF code

(* A larger room, more labels to jump to, fewer that are there *)
LEMMA TakesMore ==
  ASSUME NEW code, NEW m \in Nat, NEW n \in Nat, NEW T, NEW U, NEW L, NEW M,
         Takes(code, m, T, L), m <= n, T \subseteq U, M \subseteq L
  PROVE  Takes(code, n, U, M)
<1>1. PICK f : Budget(f, code, m)
  BY DEF Takes
<1>2. Len(code) \in Nat /\ code \in Seq(HostInstr)
  BY TakesIsCode
<1>3. f[Len(code)] \in Nat /\ f[Len(code)] <= n
  BY <1>1, <1>2 DEF Budget
<1>4. Budget(f, code, n)
  BY <1>1, <1>3 DEF Budget
<1>5. \A k \in 1..Len(code) : code[k].to \in U \cup Outside
  BY DEF Takes
<1>6. \A name \in M : \E k \in 1..Len(code) : IsLabel(code[k], name)
  BY DEF Takes
<1> QED
  BY <1>2, <1>4, <1>5, <1>6 DEF Takes

-----------------------------------------------------------------------------
(* Pieces of one instruction *)
LEMMA PieceRR ==
  ASSUME NEW T, NEW op \in RegisterForms, NEW w \in Widths, NEW dst \in Numbers, NEW src \in Numbers
  PROVE  Takes(<<Code!RR(op, w, dst, src)>>, 4, T, {})
<1> DEFINE h == Code!RR(op, w, dst, src)
<1>1. op \in HostOps
  BY DEF HostOps
<1>2. h \in HostInstr /\ h.to \in Outside /\ h.op = op
  BY <1>1 DEF Code!RR, Code!H, Code!NoJump, HostInstr, Places, Outside
<1>3. Most(op) = 4
  BY <1>1, MostIs
<1> HIDE DEF h
<1>4. Takes(<<h>>, 4, {}, {})
  BY <1>2, <1>3, TakesOne
<1>5. Takes(<<h>>, 4, T, {})
  BY <1>4, TakesMore
<1> QED
  BY <1>5 DEF h

(* An operation with an immediate *)
LEMMA PieceRI ==
  ASSUME NEW T, NEW op \in DOMAIN Code!AluExtension, NEW w \in Widths, NEW dst \in Numbers, NEW imm \in Int
  PROVE  Takes(<<Code!RI(op, w, dst, imm)>>, 7, T, {})
<1> DEFINE h == Code!RI(op, w, dst, imm)
<1>1. op \in HostOps
  BY DEF HostOps
<1>2. h \in HostInstr /\ h.to \in Outside /\ h.op = op
  BY <1>1 DEF Code!RI, Code!H, Code!NoJump, HostInstr, Places, Outside, Numbers
<1>3. Most(op) = 7
  BY <1>1, MostIs
<1> HIDE DEF h
<1>4. Takes(<<h>>, 7, {}, {})
  BY <1>2, <1>3, TakesOne
<1>5. Takes(<<h>>, 7, T, {})
  BY <1>4, TakesMore
<1> QED
  BY <1>5 DEF h

(* A shift by an immediate *)
LEMMA PieceShift ==
  ASSUME NEW T, NEW op \in DOMAIN Code!ShiftImmExtension, NEW w \in Widths, NEW dst \in Numbers, NEW imm \in Int
  PROVE  Takes(<<Code!RI(op, w, dst, imm)>>, 4, T, {})
<1> DEFINE h == Code!RI(op, w, dst, imm)
<1>1. op \in HostOps
  BY DEF HostOps
<1>2. h \in HostInstr /\ h.to \in Outside /\ h.op = op
  BY <1>1 DEF Code!RI, Code!H, Code!NoJump, HostInstr, Places, Outside, Numbers
<1>3. Most(op) = 4
  BY <1>1, MostIs
<1> HIDE DEF h
<1>4. Takes(<<h>>, 4, {}, {})
  BY <1>2, <1>3, TakesOne
<1>5. Takes(<<h>>, 4, T, {})
  BY <1>4, TakesMore
<1> QED
  BY <1>5 DEF h

(* A load or a store *)
LEMMA PieceMem ==
  ASSUME NEW T, NEW op \in MemoryForms, NEW w \in Widths, NEW reg \in Numbers, NEW base \in Numbers, NEW disp \in Int
  PROVE  Takes(<<Code!Mem(op, w, reg, base, disp)>>, 9, T, {})
<1> DEFINE h == Code!Mem(op, w, reg, base, disp)
<1>1. op \in HostOps
  BY DEF HostOps
<1>2. h \in HostInstr /\ h.to \in Outside /\ h.op = op
  BY <1>1 DEF Code!Mem, Code!H, Code!NoJump, HostInstr, Places, Outside
<1>3. Most(op) = 9
  BY <1>1, MostIs
<1> HIDE DEF h
<1>4. Takes(<<h>>, 9, {}, {})
  BY <1>2, <1>3, TakesOne
<1>5. Takes(<<h>>, 9, T, {})
  BY <1>4, TakesMore
<1> QED
  BY <1>5 DEF h

(* An immediate of 64 bits *)
LEMMA PieceImm64 ==
  ASSUME NEW T, NEW dst \in Numbers, NEW lo \in Int, NEW hi \in Int
  PROVE  Takes(<<Code!Imm64(dst, lo, hi)>>, 10, T, {})
<1> DEFINE h == Code!Imm64(dst, lo, hi)
<1>1. "imm64" \in HostOps
  BY DEF HostOps
<1>2. h \in HostInstr /\ h.to \in Outside /\ h.op = "imm64"
  BY <1>1 DEF Code!Imm64, Code!H, Code!NoJump, HostInstr, Places, Outside, Numbers, Widths
<1>3. Most("imm64") = 10
  BY <1>1, MostIs
<1> HIDE DEF h
<1>4. Takes(<<h>>, 10, {}, {})
  BY <1>2, <1>3, TakesOne
<1>5. Takes(<<h>>, 10, T, {})
  BY <1>4, TakesMore
<1> QED
  BY <1>5 DEF h

(* A value that is known when the code is written *)
LEMMA PieceWide ==
  ASSUME NEW T, NEW dst \in Numbers, NEW v \in Int
  PROVE  Takes(<<Code!Wide(dst, v)>>, 10, T, {})
<1>1. (IF v < 0 THEN -1 ELSE 0) \in Int
  OBVIOUS
<1> DEFINE hi == IF v < 0 THEN -1 ELSE 0
<1> HIDE DEF hi
<1>2. Takes(<<Code!Imm64(dst, v, hi)>>, 10, T, {})
  BY <1>1, PieceImm64 DEF hi
<1> QED
  BY <1>2, Zenon DEF Code!Wide, hi

(* An instruction without operands *)
LEMMA PiecePlain ==
  ASSUME NEW T, NEW op \in DOMAIN Code!Fixed
  PROVE  Takes(<<Code!Plain(op)>>, 2, T, {})
<1> DEFINE h == Code!Plain(op)
<1>1. op \in HostOps
  BY DEF HostOps
<1>2. h \in HostInstr /\ h.to \in Outside /\ h.op = op
  BY <1>1 DEF Code!Plain, Code!H, Code!NoJump, HostInstr, Places, Outside, Numbers, Widths
<1>3. Most(op) = 2
  BY <1>1, MostIs
<1> HIDE DEF h
<1>4. Takes(<<h>>, 2, {}, {})
  BY <1>2, <1>3, TakesOne
<1>5. Takes(<<h>>, 2, T, {})
  BY <1>4, TakesMore
<1> QED
  BY <1>5 DEF h

(* Those that leave the operation *)
LEMMA PieceJccOut ==
  ASSUME NEW T, NEW op \in DOMAIN Code!JccCode
  PROVE  Takes(<<Code!Jcc(op, Code!Out)>>, 6, T, {})
<1> DEFINE h == Code!Jcc(op, Code!Out)
<1>1. op \in HostOps
  BY DEF HostOps
<1>2. h \in HostInstr /\ h.to \in Outside /\ h.op = op
  BY <1>1 DEF Code!Jcc, Code!H, Code!Out, HostInstr, Places, Outside, Numbers, Widths
<1>3. Most(op) = 6
  BY <1>1, MostIs
<1> HIDE DEF h
<1>4. Takes(<<h>>, 6, {}, {})
  BY <1>2, <1>3, TakesOne
<1>5. Takes(<<h>>, 6, T, {})
  BY <1>4, TakesMore
<1> QED
  BY <1>5 DEF h

(* A jump out of the operation *)
LEMMA PieceJmpOut ==
  ASSUME NEW T
  PROVE  Takes(<<Code!Jmp(Code!Out)>>, 5, T, {})
<1> DEFINE h == Code!Jmp(Code!Out)
<1>1. "jmp" \in HostOps
  BY DEF HostOps
<1>2. h \in HostInstr /\ h.to \in Outside /\ h.op = "jmp"
  BY <1>1 DEF Code!Jmp, Code!Jcc, Code!H, Code!Out, HostInstr, Places, Outside, Numbers, Widths
<1>3. Most("jmp") = 5
  BY <1>1, MostIs
<1> HIDE DEF h
<1>4. Takes(<<h>>, 5, {}, {})
  BY <1>2, <1>3, TakesOne
<1>5. Takes(<<h>>, 5, T, {})
  BY <1>4, TakesMore
<1> QED
  BY <1>5 DEF h

(* Those that jump to a label, and the labels *)
LEMMA TakesTo ==
  ASSUME NEW h \in HostInstr
  PROVE  Takes(<<h>>, Most(h.op), {h.to}, IF h.op = "label" THEN {h.to} ELSE {})
<1> DEFINE most == Most(h.op)
           f == [k \in 0..1 |-> IF k = 0 THEN 0 ELSE most]
           code == <<h>>
           L == IF h.op = "label" THEN {h.to} ELSE {}
<1>1. most \in Nat
  BY MostIsNat
<1> HIDE DEF most
<1>2. code \in Seq(HostInstr)
  OBVIOUS
<1>3. Len(code) = 1
  OBVIOUS
<1>4. code[1] = h
  OBVIOUS
<1>5. f \in [0..1 -> Nat] /\ f[0] = 0 /\ f[1] = most
  BY <1>1
<1> HIDE DEF f, code
<1>6. \A k \in 1..Len(code) : k = 1
  BY <1>3
<1>7. \A k \in 1..Len(code) : f[k - 1] + Most(code[k].op) <= f[k]
  BY <1>1, <1>4, <1>5, <1>6 DEF most
<1>8. Budget(f, code, most)
  BY <1>1, <1>3, <1>5, <1>7 DEF Budget
<1>9. \A k \in 1..Len(code) : code[k].to \in {h.to} \cup Outside
  BY <1>4, <1>6
<1>10. \A name \in L : \E k \in 1..Len(code) : IsLabel(code[k], name)
  BY <1>3, <1>4 DEF IsLabel
<1> HIDE DEF L
<1>11. Takes(code, most, {h.to}, L)
  BY <1>2, <1>8, <1>9, <1>10 DEF Takes
<1> QED
  BY <1>11 DEF code, most, L

(* A conditional jump to a label *)
LEMMA PieceJcc ==
  ASSUME NEW T, NEW op \in DOMAIN Code!JccCode, NEW name \in T \cap Labels
  PROVE  Takes(<<Code!Jcc(op, name)>>, 6, T, {})
<1> DEFINE h == Code!Jcc(op, name)
<1>1. op \in HostOps
  BY DEF HostOps
<1>2. h \in HostInstr /\ h.to = name /\ h.op = op
  BY <1>1 DEF Code!Jcc, Code!H, HostInstr, Places, Numbers, Widths
<1>3. Most(op) = 6
  BY <1>1, MostIs
<1> HIDE DEF h
<1>4. Takes(<<h>>, 6, {name}, IF h.op = "label" THEN {h.to} ELSE {})
  BY <1>2, <1>3, TakesTo
<1>5. Takes(<<h>>, 6, T, {})
  BY <1>4, TakesMore
<1> QED
  BY <1>5 DEF h

(* A jump to a label *)
LEMMA PieceJmp ==
  ASSUME NEW T, NEW name \in T \cap Labels
  PROVE  Takes(<<Code!Jmp(name)>>, 5, T, {})
<1> DEFINE h == Code!Jmp(name)
<1>1. "jmp" \in HostOps
  BY DEF HostOps
<1>2. h \in HostInstr /\ h.to = name /\ h.op = "jmp"
  BY <1>1 DEF Code!Jmp, Code!Jcc, Code!H, HostInstr, Places, Numbers, Widths
<1>3. Most("jmp") = 5
  BY <1>1, MostIs
<1> HIDE DEF h
<1>4. Takes(<<h>>, 5, {name}, IF h.op = "label" THEN {h.to} ELSE {})
  BY <1>2, <1>3, TakesTo
<1>5. Takes(<<h>>, 5, T, {})
  BY <1>4, TakesMore
<1> QED
  BY <1>5 DEF h

(* A label takes nothing. *)
LEMMA PieceLabel ==
  ASSUME NEW T, NEW name \in T \cap Labels
  PROVE  Takes(<<Code!Label(name)>>, 0, T, {name})
<1> DEFINE h == Code!Label(name)
<1>1. "label" \in HostOps
  BY DEF HostOps
<1>2. h \in HostInstr /\ h.to = name /\ h.op = "label"
  BY <1>1 DEF Code!Label, Code!Jcc, Code!H, HostInstr, Places, Numbers, Widths
<1>3. Most("label") = 0
  BY <1>1, MostIs
<1> HIDE DEF h
<1>4. Takes(<<h>>, 0, {name}, {name})
  BY <1>2, <1>3, TakesTo
<1>5. Takes(<<h>>, 0, T, {name})
  BY <1>4, TakesMore
<1> QED
  BY <1>5 DEF h

-----------------------------------------------------------------------------
(* Pieces of several instructions *)
LEMMA Join ==
  ASSUME NEW a, NEW b, NEW m \in Nat, NEW n \in Nat, NEW T, NEW L, NEW M, Takes(a, m, T, L), Takes(b, n, T, M)
  PROVE  Takes(a \o b, m + n, T, L \cup M)
<1>1. Takes(a \o b, m + n, T \cup T, L \cup M)
  BY TakesBoth
<1>2. T \cup T = T
  OBVIOUS
<1> QED
  BY <1>1, <1>2

(* The same without labels *)
LEMMA JoinPlain ==
  ASSUME NEW a, NEW b, NEW m \in Nat, NEW n \in Nat, NEW T, Takes(a, m, T, {}), Takes(b, n, T, {})
  PROVE  Takes(a \o b, m + n, T, {})
<1>1. Takes(a \o b, m + n, T, {} \cup {})
  BY Join
<1>2. {} \cup {} = {}
  OBVIOUS
<1> QED
  BY <1>1, <1>2

(* When a sequence is two others, one behind the other *)
LEMMA IsCat ==
  ASSUME NEW S, NEW x \in Seq(S), NEW y \in Seq(S), NEW z \in Seq(S), Len(z) = Len(x) + Len(y),
         \A i \in 1..Len(x) : z[i] = x[i], \A i \in 1..Len(y) : z[Len(x) + i] = y[i]
  PROVE  x \o y = z
<1> DEFINE w == x \o y
<1>1. Len(x) \in Nat /\ Len(y) \in Nat /\ w \in Seq(S) /\ Len(w) = Len(x) + Len(y)
  OBVIOUS
<1>2. ASSUME NEW i \in 1..Len(x) + Len(y)
      PROVE  w[i] = z[i]
  <2>1. CASE i <= Len(x)
    BY <1>1, <2>1
  <2>2. CASE i > Len(x)
    <3>1. i - Len(x) \in 1..Len(y) /\ w[i] = y[i - Len(x)] /\ Len(x) + (i - Len(x)) = i
      BY <1>1, <2>2
    <3> QED
      BY <3>1
  <2> QED
    BY <1>1, <2>1, <2>2
<1> HIDE DEF w
<1>3. w = z
  BY <1>1, <1>2, SeqEqual
<1> QED
  BY <1>3 DEF w

(* Sequences that are written out *)
LEMMA Cat11 ==
  ASSUME NEW S, NEW a \in S, NEW b \in S
  PROVE  <<a>> \o <<b>> = <<a, b>>
<1> DEFINE x == <<a>>
           y == <<b>>
           z == <<a, b>>
<1>1. x \in Seq(S) /\ y \in Seq(S) /\ z \in Seq(S) /\ Len(x) = 1 /\ Len(y) = 1 /\ Len(z) = 2
  OBVIOUS
<1>2. \A i \in 1..1 : z[i] = x[i]
  OBVIOUS
<1>3. \A i \in 1..1 : z[1 + i] = y[i]
  OBVIOUS
<1> HIDE DEF x, y, z
<1>4. /\ Len(z) = Len(x) + Len(y)
      /\ \A i \in 1..Len(x) : z[i] = x[i]
      /\ \A i \in 1..Len(y) : z[Len(x) + i] = y[i]
  BY <1>1, <1>2, <1>3
<1>5. x \o y = z
  BY <1>1, <1>4, IsCat
<1> QED
  BY <1>5 DEF x, y, z

(* Two and one *)
LEMMA Cat21 ==
  ASSUME NEW S, NEW a \in S, NEW b \in S, NEW c \in S
  PROVE  <<a, b>> \o <<c>> = <<a, b, c>>
<1> DEFINE x == <<a, b>>
           y == <<c>>
           z == <<a, b, c>>
<1>1. x \in Seq(S) /\ y \in Seq(S) /\ z \in Seq(S) /\ Len(x) = 2 /\ Len(y) = 1 /\ Len(z) = 3
  OBVIOUS
<1>2. \A i \in 1..2 : z[i] = x[i]
  OBVIOUS
<1>3. \A i \in 1..1 : z[2 + i] = y[i]
  OBVIOUS
<1> HIDE DEF x, y, z
<1>4. /\ Len(z) = Len(x) + Len(y)
      /\ \A i \in 1..Len(x) : z[i] = x[i]
      /\ \A i \in 1..Len(y) : z[Len(x) + i] = y[i]
  BY <1>1, <1>2, <1>3
<1>5. x \o y = z
  BY <1>1, <1>4, IsCat
<1> QED
  BY <1>5 DEF x, y, z

(* Two and two *)
LEMMA Cat22 ==
  ASSUME NEW S, NEW a \in S, NEW b \in S, NEW c \in S, NEW d \in S
  PROVE  <<a, b>> \o <<c, d>> = <<a, b, c, d>>
<1> DEFINE x == <<a, b>>
           y == <<c, d>>
           z == <<a, b, c, d>>
<1>1. x \in Seq(S) /\ y \in Seq(S) /\ z \in Seq(S) /\ Len(x) = 2 /\ Len(y) = 2 /\ Len(z) = 4
  OBVIOUS
<1>2. \A i \in 1..2 : z[i] = x[i]
  OBVIOUS
<1>3. \A i \in 1..2 : z[2 + i] = y[i]
  OBVIOUS
<1> HIDE DEF x, y, z
<1>4. /\ Len(z) = Len(x) + Len(y)
      /\ \A i \in 1..Len(x) : z[i] = x[i]
      /\ \A i \in 1..Len(y) : z[Len(x) + i] = y[i]
  BY <1>1, <1>2, <1>3
<1>5. x \o y = z
  BY <1>1, <1>4, IsCat
<1> QED
  BY <1>5 DEF x, y, z

(* Four and one *)
LEMMA Cat41 ==
  ASSUME NEW S, NEW a \in S, NEW b \in S, NEW c \in S, NEW d \in S, NEW e \in S
  PROVE  <<a, b, c, d>> \o <<e>> = <<a, b, c, d, e>>
<1> DEFINE x == <<a, b, c, d>>
           y == <<e>>
           z == <<a, b, c, d, e>>
<1>1. x \in Seq(S) /\ y \in Seq(S) /\ z \in Seq(S) /\ Len(x) = 4 /\ Len(y) = 1 /\ Len(z) = 5
  OBVIOUS
<1>2. \A i \in 1..4 : z[i] = x[i]
  OBVIOUS
<1>3. \A i \in 1..1 : z[4 + i] = y[i]
  OBVIOUS
<1> HIDE DEF x, y, z
<1>4. /\ Len(z) = Len(x) + Len(y)
      /\ \A i \in 1..Len(x) : z[i] = x[i]
      /\ \A i \in 1..Len(y) : z[Len(x) + i] = y[i]
  BY <1>1, <1>2, <1>3
<1>5. x \o y = z
  BY <1>1, <1>4, IsCat
<1> QED
  BY <1>5 DEF x, y, z

(* Four and two *)
LEMMA Cat42 ==
  ASSUME NEW S, NEW a \in S, NEW b \in S, NEW c \in S, NEW d \in S, NEW e \in S, NEW f \in S
  PROVE  <<a, b, c, d>> \o <<e, f>> = <<a, b, c, d, e, f>>
<1> DEFINE x == <<a, b, c, d>>
           y == <<e, f>>
           z == <<a, b, c, d, e, f>>
<1>1. x \in Seq(S) /\ y \in Seq(S) /\ z \in Seq(S) /\ Len(x) = 4 /\ Len(y) = 2 /\ Len(z) = 6
  OBVIOUS
<1>2. \A i \in 1..4 : z[i] = x[i]
  OBVIOUS
<1>3. \A i \in 1..2 : z[4 + i] = y[i]
  OBVIOUS
<1> HIDE DEF x, y, z
<1>4. /\ Len(z) = Len(x) + Len(y)
      /\ \A i \in 1..Len(x) : z[i] = x[i]
      /\ \A i \in 1..Len(y) : z[Len(x) + i] = y[i]
  BY <1>1, <1>2, <1>3
<1>5. x \o y = z
  BY <1>1, <1>4, IsCat
<1> QED
  BY <1>5 DEF x, y, z

(* Four and three *)
LEMMA Cat43 ==
  ASSUME NEW S, NEW a \in S, NEW b \in S, NEW c \in S, NEW d \in S, NEW e \in S, NEW f \in S, NEW g \in S
  PROVE  <<a, b, c, d>> \o <<e, f, g>> = <<a, b, c, d, e, f, g>>
<1> DEFINE x == <<a, b, c, d>>
           y == <<e, f, g>>
           z == <<a, b, c, d, e, f, g>>
<1>1. x \in Seq(S) /\ y \in Seq(S) /\ z \in Seq(S) /\ Len(x) = 4 /\ Len(y) = 3 /\ Len(z) = 7
  OBVIOUS
<1>2. \A i \in 1..4 : z[i] = x[i]
  OBVIOUS
<1>3. \A i \in 1..3 : z[4 + i] = y[i]
  OBVIOUS
<1> HIDE DEF x, y, z
<1>4. /\ Len(z) = Len(x) + Len(y)
      /\ \A i \in 1..Len(x) : z[i] = x[i]
      /\ \A i \in 1..Len(y) : z[Len(x) + i] = y[i]
  BY <1>1, <1>2, <1>3
<1>5. x \o y = z
  BY <1>1, <1>4, IsCat
<1> QED
  BY <1>5 DEF x, y, z

(* Four and four *)
LEMMA Cat44 ==
  ASSUME NEW S, NEW a \in S, NEW b \in S, NEW c \in S, NEW d \in S, NEW e \in S, NEW f \in S, NEW g \in S, NEW h \in S
  PROVE  <<a, b, c, d>> \o <<e, f, g, h>> = <<a, b, c, d, e, f, g, h>>
<1> DEFINE x == <<a, b, c, d>>
           y == <<e, f, g, h>>
           z == <<a, b, c, d, e, f, g, h>>
<1>1. x \in Seq(S) /\ y \in Seq(S) /\ z \in Seq(S) /\ Len(x) = 4 /\ Len(y) = 4 /\ Len(z) = 8
  OBVIOUS
<1>2. \A i \in 1..4 : z[i] = x[i]
  OBVIOUS
<1>3. \A i \in 1..4 : z[4 + i] = y[i]
  OBVIOUS
<1> HIDE DEF x, y, z
<1>4. /\ Len(z) = Len(x) + Len(y)
      /\ \A i \in 1..Len(x) : z[i] = x[i]
      /\ \A i \in 1..Len(y) : z[Len(x) + i] = y[i]
  BY <1>1, <1>2, <1>3
<1>5. x \o y = z
  BY <1>1, <1>4, IsCat
<1> QED
  BY <1>5 DEF x, y, z

(* An instruction that is a piece of code *)
LEMMA OneIsCode ==
  ASSUME NEW a, NEW n, NEW T, NEW L, Takes(<<a>>, n, T, L)
  PROVE  a \in HostInstr
<1>1. <<a>> \in Seq(HostInstr)
  BY TakesIsCode
<1> QED
  BY <1>1

(* Two instructions in a row *)
LEMMA Two ==
  ASSUME NEW a, NEW b, NEW m \in Nat, NEW n \in Nat, NEW T, Takes(<<a>>, m, T, {}), Takes(<<b>>, n, T, {})
  PROVE  Takes(<<a, b>>, m + n, T, {})
<1>1. a \in HostInstr /\ b \in HostInstr
  BY OneIsCode
<1>2. <<a>> \o <<b>> = <<a, b>>
  BY <1>1, Cat11
<1>3. Takes(<<a>> \o <<b>>, m + n, T, {})
  BY JoinPlain
<1> QED
  BY <1>2, <1>3, Zenon

(* Three instructions in a row *)
LEMMA Three ==
  ASSUME NEW a, NEW b, NEW c, NEW k \in Nat, NEW m \in Nat, NEW n \in Nat, NEW T,
         Takes(<<a>>, k, T, {}), Takes(<<b>>, m, T, {}), Takes(<<c>>, n, T, {})
  PROVE  Takes(<<a, b, c>>, (k + m) + n, T, {})
<1>1. a \in HostInstr /\ b \in HostInstr /\ c \in HostInstr
  BY OneIsCode
<1>2. <<a, b>> \o <<c>> = <<a, b, c>>
  BY <1>1, Cat21
<1>3. k + m \in Nat
  OBVIOUS
<1>4. Takes(<<a, b>>, k + m, T, {})
  BY Two
<1>5. Takes(<<a, b>> \o <<c>>, (k + m) + n, T, {})
  BY <1>3, <1>4, JoinPlain
<1> QED
  BY <1>2, <1>5, Zenon

(* Four instructions in a row *)
LEMMA Four ==
  ASSUME NEW a, NEW b, NEW c, NEW d, NEW k \in Nat, NEW l \in Nat, NEW m \in Nat, NEW n \in Nat, NEW T,
         Takes(<<a>>, k, T, {}), Takes(<<b>>, l, T, {}), Takes(<<c>>, m, T, {}), Takes(<<d>>, n, T, {})
  PROVE  Takes(<<a, b, c, d>>, (k + l) + (m + n), T, {})
<1>1. a \in HostInstr /\ b \in HostInstr /\ c \in HostInstr /\ d \in HostInstr
  BY OneIsCode
<1>2. <<a, b>> \o <<c, d>> = <<a, b, c, d>>
  BY <1>1, Cat22
<1>3. k + l \in Nat /\ m + n \in Nat
  OBVIOUS
<1>4. Takes(<<a, b>>, k + l, T, {}) /\ Takes(<<c, d>>, m + n, T, {})
  BY Two
<1>5. Takes(<<a, b>> \o <<c, d>>, (k + l) + (m + n), T, {})
  BY <1>3, <1>4, JoinPlain
<1> QED
  BY <1>2, <1>5, Zenon

(* Reading and writing guest registers *)
Guests == 0..31

(* A guest register is read or written in at most nine bytes. *)
LEMMA GetSet ==
  ASSUME NEW T, NEW r \in Numbers, NEW g \in Guests
  PROVE  Takes(<<Code!Get(r, g)>>, 9, T, {}) /\ Takes(<<Code!Set(g, r)>>, 9, T, {})
<1>1. 8 * g \in Int /\ 15 \in Numbers /\ 64 \in Widths
  BY DEF Guests, Numbers, Widths
<1>2. "load" \in MemoryForms /\ "store" \in MemoryForms
  BY DEF MemoryForms
<1>3. Takes(<<Code!Mem("load", 64, r, 15, 8 * g)>>, 9, T, {}) /\ Takes(<<Code!Mem("store", 64, r, 15, 8 * g)>>, 9, T, {})
  BY <1>1, <1>2, PieceMem
<1> QED
  BY <1>3, Zenon DEF Code!Get, Code!Set, Code!XOffset, Code!R15

(* So is pc. *)
LEMMA PieceSetPc ==
  ASSUME NEW T, NEW r \in Numbers
  PROVE  Takes(<<Code!SetPc(r)>>, 9, T, {})
<1>1. Code!PcOffset \in Int /\ 15 \in Numbers /\ 64 \in Widths
  BY DEF Code!PcOffset, Numbers, Widths
<1>2. "store" \in MemoryForms
  BY DEF MemoryForms
<1>3. Takes(<<Code!Mem("store", 64, r, 15, Code!PcOffset)>>, 9, T, {})
  BY <1>1, <1>2, PieceMem
<1> QED
  BY <1>3, Zenon DEF Code!SetPc, Code!R15

(* The operations of riscv_ir.h by their form *)
ArithmeticOps == DOMAIN Code!RegOps \cup DOMAIN Code!ImmOps \cup DOMAIN Code!ShiftOps \cup DOMAIN Code!ShiftImmOps
OtherOps == {"NOP", "MOV", "LI", "BEQZ", "JMP", "JMP_REG", "JALR", "ECALL", "EBREAK", "UD2", "FUEL_CHECK"}
OpNames == ArithmeticOps \cup DOMAIN Code!Compares \cup DOMAIN Code!Branches \cup DOMAIN Code!Loads
             \cup DOMAIN Code!Stores \cup Code!MulOps \cup Code!DivOps \cup OtherOps
Operation == [op : OpNames, rd : Guests, rs1 : Guests, rs2 : Guests, imm : Int]

(* The host's registers and the widths *)
LEMMA Constants ==
  /\ Code!Rax \in Numbers /\ Code!Rcx \in Numbers /\ Code!Rdx \in Numbers /\ Code!Rbx \in Numbers
  /\ Code!Rbp \in Numbers /\ Code!Rsi \in Numbers /\ Code!Rdi \in Numbers /\ Code!R12 \in Numbers
  /\ Code!R13 \in Numbers /\ Code!R14 \in Numbers /\ Code!R15 \in Numbers /\ 0 \in Numbers
  /\ 0 \in Widths /\ 8 \in Widths /\ 16 \in Widths /\ 32 \in Widths /\ 64 \in Widths
BY DEF Code!Rax, Code!Rcx, Code!Rdx, Code!Rbx, Code!Rbp, Code!Rsi, Code!Rdi, Code!R12, Code!R13, Code!R14,
   Code!R15, Numbers, Widths

(* Both operands *)
LEMMA PieceOperands2 ==
  ASSUME NEW T, NEW o, o.rs1 \in Guests, o.rs2 \in Guests
  PROVE  Takes(Code!Operands2(o), 18, T, {})
<1>1. Takes(<<Code!Get(Code!Rax, o.rs1)>>, 9, T, {}) /\ Takes(<<Code!Get(Code!Rcx, o.rs2)>>, 9, T, {})
  BY Constants, GetSet
<1>2. Takes(<<Code!Get(Code!Rax, o.rs1), Code!Get(Code!Rcx, o.rs2)>>, 9 + 9, T, {})
  BY <1>1, Two
<1> QED
  BY <1>2 DEF Code!Operands2

(* No code fits any room. *)
LEMMA PieceNone ==
  ASSUME NEW T, NEW n \in Nat
  PROVE  Takes(<<>>, n, T, {})
BY TakesNone, TakesMore

(* The operations that each table has *)
LEMMA OpTables ==
  /\ DOMAIN Code!RegOps = {"ADD", "SUB", "AND", "OR", "XOR", "ADD_EXT32", "SUB_EXT32"}
  /\ DOMAIN Code!ImmOps = {"ADDI", "ANDI", "ORI", "XORI", "ADDI_EXT32"}
  /\ DOMAIN Code!ShiftOps = {"SLL", "SRL", "SRA", "SLL_EXT32", "SRL_EXT32", "SRA_EXT32"}
  /\ DOMAIN Code!ShiftImmOps = {"SLLI", "SRLI", "SRAI", "SLLI_EXT32", "SRLI_EXT32", "SRAI_EXT32"}
  /\ DOMAIN Code!Compares = {"SLT", "SLTU", "SLTI", "SLTIU"}
  /\ DOMAIN Code!Branches = {"BEQ", "BNE", "BLT", "BGE", "BLTU", "BGEU"}
  /\ DOMAIN Code!Loads = {"LOAD8", "LOAD8_U", "LOAD16", "LOAD16_U", "LOAD32", "LOAD32_U", "LOAD64"}
  /\ DOMAIN Code!Stores = {"STORE8", "STORE16", "STORE32", "STORE64"}
BY DEF Code!RegOps, Code!ImmOps, Code!ShiftOps, Code!ShiftImmOps, Code!Compares, Code!Branches, Code!Loads, Code!Stores

(* Names of instructions that are in the forms *)
LEMMA FormsHave ==
  /\ {"add", "or", "and", "sub", "xor", "cmp", "test", "mov", "shl", "shr", "sar", "mul", "imul", "div", "idiv",
      "call", "jmpr", "setb", "setl", "movsxd", "movzx8", "imul2", "push", "pop", "cqo"} \subseteq RegisterForms
  /\ {"load", "store", "loadsx8", "loadsx16", "loadsx32", "loadzx8", "loadzx16"} \subseteq MemoryForms
  /\ {"addi", "ori", "andi", "xori", "cmpi"} \subseteq DOMAIN Code!AluExtension
  /\ {"shli", "shri", "sari"} \subseteq DOMAIN Code!ShiftImmExtension
  /\ {"jb", "jae", "je", "jne", "ja", "jl", "jge", "jle"} \subseteq DOMAIN Code!JccCode
  /\ {"ret", "int3", "ud2"} \subseteq DOMAIN Code!Fixed
BY Tables DEF RegisterForms, MemoryForms

(* What the tables of operations give *)
LEMMA TablesGive ==
  ASSUME NEW op
  PROVE  /\ op \in DOMAIN Code!RegOps => Code!RegOps[op] \in RegisterForms
         /\ op \in DOMAIN Code!ImmOps => Code!ImmOps[op] \in DOMAIN Code!AluExtension
         /\ op \in DOMAIN Code!ShiftOps => Code!ShiftOps[op] \in RegisterForms
         /\ op \in DOMAIN Code!ShiftImmOps => Code!ShiftImmOps[op] \in DOMAIN Code!ShiftImmExtension
         /\ op \in DOMAIN Code!Compares => Code!Compares[op] \in RegisterForms
         /\ op \in DOMAIN Code!Branches => Code!Branches[op] \in DOMAIN Code!JccCode
<1>1. op \in DOMAIN Code!RegOps => Code!RegOps[op] \in {"add", "or", "and", "sub", "xor"}
  BY DEF Code!RegOps
<1>2. op \in DOMAIN Code!ImmOps => Code!ImmOps[op] \in {"addi", "ori", "andi", "xori", "cmpi"}
  BY DEF Code!ImmOps
<1>3. op \in DOMAIN Code!ShiftOps => Code!ShiftOps[op] \in {"shl", "shr", "sar"}
  BY DEF Code!ShiftOps
<1>4. op \in DOMAIN Code!ShiftImmOps => Code!ShiftImmOps[op] \in {"shli", "shri", "sari"}
  BY DEF Code!ShiftImmOps
<1>5. op \in DOMAIN Code!Compares => Code!Compares[op] \in {"setl", "setb"}
  BY DEF Code!Compares
<1>6. op \in DOMAIN Code!Branches => Code!Branches[op] \in {"jb", "jae", "je", "jne", "jl", "jge"}
  BY DEF Code!Branches
<1> QED
  BY <1>1, <1>2, <1>3, <1>4, <1>5, <1>6, FormsHave

(* The fields of an operation *)
LEMMA Fields ==
  ASSUME NEW o \in Operation
  PROVE  o.op \in OpNames /\ o.rd \in Guests /\ o.rs1 \in Guests /\ o.rs2 \in Guests /\ o.imm \in Int
BY DEF Operation

(* Arithmetic (emit_instruction, the ALU and shift operations) takes at    *)
(* most 35 bytes.                                                          *)
LEMMA TakesArithmetic ==
  ASSUME NEW T, NEW o \in Operation, o.op \in ArithmeticOps
  PROVE  Takes(Code!Arithmetic(o), 35, T, {})
<1> DEFINE w == IF o.op \in Code!Ext32 THEN 32 ELSE 64
           first == CASE o.op \in DOMAIN Code!RegOps      -> Code!Operands2(o) \o <<Code!RR(Code!RegOps[o.op], w, Code!Rax, Code!Rcx)>>
                      [] o.op \in DOMAIN Code!ImmOps      -> <<Code!Get(Code!Rax, o.rs1), Code!RI(Code!ImmOps[o.op], w, Code!Rax, o.imm)>>
                      [] o.op \in DOMAIN Code!ShiftOps    -> Code!Operands2(o) \o <<Code!RR(Code!ShiftOps[o.op], w, Code!Rax, 0)>>
                      [] o.op \in DOMAIN Code!ShiftImmOps -> <<Code!Get(Code!Rax, o.rs1), Code!RI(Code!ShiftImmOps[o.op], w, Code!Rax, o.imm % 256)>>
           second == IF w = 32 THEN <<Code!RR("movsxd", 64, Code!Rax, Code!Rax)>> ELSE <<>>
           third == <<Code!Set(o.rd, Code!Rax)>>
<1>1. Code!Arithmetic(o) = (first \o second) \o third
  BY Zenon DEF Code!Arithmetic
<1>2. /\ o.op \in DOMAIN Code!RegOps => first = Code!Operands2(o) \o <<Code!RR(Code!RegOps[o.op], w, Code!Rax, Code!Rcx)>>
      /\ o.op \in DOMAIN Code!ImmOps => first = <<Code!Get(Code!Rax, o.rs1), Code!RI(Code!ImmOps[o.op], w, Code!Rax, o.imm)>>
      /\ o.op \in DOMAIN Code!ShiftOps => first = Code!Operands2(o) \o <<Code!RR(Code!ShiftOps[o.op], w, Code!Rax, 0)>>
      /\ o.op \in DOMAIN Code!ShiftImmOps => first = <<Code!Get(Code!Rax, o.rs1), Code!RI(Code!ShiftImmOps[o.op], w, Code!Rax, o.imm % 256)>>
  BY OpTables
<1>3. w \in Widths
  BY Constants
<1>4. o.rd \in Guests /\ o.rs1 \in Guests /\ o.rs2 \in Guests /\ o.imm \in Int /\ o.imm % 256 \in Int
  BY Fields
<1>5. Takes(second, 4, T, {})
  <2>1. Takes(<<Code!RR("movsxd", 64, Code!Rax, Code!Rax)>>, 4, T, {})
    BY Constants, FormsHave, PieceRR
  <2> QED
    BY <2>1, PieceNone
<1>6. Takes(third, 9, T, {})
  BY <1>4, Constants, GetSet
<1> HIDE DEF w, first, second, third
<1>7. Takes(Code!Operands2(o), 18, T, {}) /\ Takes(<<Code!Get(Code!Rax, o.rs1)>>, 9, T, {})
  BY <1>4, Constants, GetSet, PieceOperands2
<1>8. Takes(first, 22, T, {})
  <2>1. CASE o.op \in DOMAIN Code!RegOps
    <3>1. Takes(<<Code!RR(Code!RegOps[o.op], w, Code!Rax, Code!Rcx)>>, 4, T, {})
      BY <1>3, <2>1, Constants, TablesGive, PieceRR
    <3>2. Takes(Code!Operands2(o) \o <<Code!RR(Code!RegOps[o.op], w, Code!Rax, Code!Rcx)>>, 18 + 4, T, {})
      BY <1>7, <3>1, JoinPlain
    <3>3. 18 + 4 = 22
      OBVIOUS
    <3> QED
      BY <1>2, <2>1, <3>2, <3>3, Zenon
  <2>2. CASE o.op \in DOMAIN Code!ImmOps
    <3>1. Takes(<<Code!RI(Code!ImmOps[o.op], w, Code!Rax, o.imm)>>, 7, T, {})
      BY <1>3, <1>4, <2>2, Constants, TablesGive, PieceRI
    <3>2. Takes(<<Code!Get(Code!Rax, o.rs1), Code!RI(Code!ImmOps[o.op], w, Code!Rax, o.imm)>>, 9 + 7, T, {})
      BY <1>7, <3>1, Two
    <3> QED
      BY <1>2, <2>2, <3>2, TakesMore
  <2>3. CASE o.op \in DOMAIN Code!ShiftOps
    <3>1. Takes(<<Code!RR(Code!ShiftOps[o.op], w, Code!Rax, 0)>>, 4, T, {})
      BY <1>3, <2>3, Constants, TablesGive, PieceRR
    <3>2. Takes(Code!Operands2(o) \o <<Code!RR(Code!ShiftOps[o.op], w, Code!Rax, 0)>>, 18 + 4, T, {})
      BY <1>7, <3>1, JoinPlain
    <3>3. 18 + 4 = 22
      OBVIOUS
    <3> QED
      BY <1>2, <2>3, <3>2, <3>3, Zenon
  <2>4. CASE o.op \in DOMAIN Code!ShiftImmOps
    <3>1. Takes(<<Code!RI(Code!ShiftImmOps[o.op], w, Code!Rax, o.imm % 256)>>, 4, T, {})
      BY <1>3, <1>4, <2>4, Constants, TablesGive, PieceShift
    <3>2. Takes(<<Code!Get(Code!Rax, o.rs1), Code!RI(Code!ShiftImmOps[o.op], w, Code!Rax, o.imm % 256)>>, 9 + 4, T, {})
      BY <1>7, <3>1, Two
    <3> QED
      BY <1>2, <2>4, <3>2, TakesMore
  <2> QED
    BY <2>1, <2>2, <2>3, <2>4 DEF ArithmeticOps
<1>9. Takes(first \o second, 26, T, {})
  BY <1>5, <1>8, JoinPlain
<1>10. Takes((first \o second) \o third, 35, T, {})
  BY <1>6, <1>9, JoinPlain
<1> QED
  BY <1>1, <1>10, Zenon

(* SLT and its forms take at most 39 bytes. *)
LEMMA TakesCompare ==
  ASSUME NEW T, NEW o \in Operation, o.op \in DOMAIN Code!Compares
  PROVE  Takes(Code!Compare(o), 39, T, {})
<1> DEFINE first == IF o.op \in {"SLT", "SLTU"} THEN Code!Operands2(o) \o <<Code!RR("cmp", 64, Code!Rax, Code!Rcx)>>
                    ELSE <<Code!Get(Code!Rax, o.rs1), Code!RI("cmpi", 64, Code!Rax, o.imm)>>
           second == <<Code!RR(Code!Compares[o.op], 8, Code!Rax, 0), Code!RR("movzx8", 64, Code!Rax, Code!Rax), Code!Set(o.rd, Code!Rax)>>
<1>1. Code!Compare(o) = first \o second
  BY Zenon DEF Code!Compare
<1>2. o.rd \in Guests /\ o.rs1 \in Guests /\ o.rs2 \in Guests /\ o.imm \in Int
  BY Fields
<1>3. Takes(first, 22, T, {})
  <2>1. Takes(Code!Operands2(o), 18, T, {}) /\ Takes(<<Code!RR("cmp", 64, Code!Rax, Code!Rcx)>>, 4, T, {})
    BY <1>2, Constants, FormsHave, PieceOperands2, PieceRR
  <2>2. Takes(Code!Operands2(o) \o <<Code!RR("cmp", 64, Code!Rax, Code!Rcx)>>, 18 + 4, T, {})
    BY <2>1, JoinPlain
  <2>3. Takes(<<Code!Get(Code!Rax, o.rs1)>>, 9, T, {}) /\ Takes(<<Code!RI("cmpi", 64, Code!Rax, o.imm)>>, 7, T, {})
    BY <1>2, Constants, FormsHave, GetSet, PieceRI
  <2>4. Takes(<<Code!Get(Code!Rax, o.rs1), Code!RI("cmpi", 64, Code!Rax, o.imm)>>, 9 + 7, T, {})
    BY <2>3, Two
  <2>5. Takes(<<Code!Get(Code!Rax, o.rs1), Code!RI("cmpi", 64, Code!Rax, o.imm)>>, 22, T, {})
    BY <2>4, TakesMore
  <2>6. 18 + 4 = 22
    OBVIOUS
  <2> QED
    BY <2>2, <2>5, <2>6, Zenon
<1>4. Takes(second, (4 + 4) + 9, T, {})
  <2>1. Takes(<<Code!RR(Code!Compares[o.op], 8, Code!Rax, 0)>>, 4, T, {})
    BY Constants, TablesGive, PieceRR
  <2>2. Takes(<<Code!RR("movzx8", 64, Code!Rax, Code!Rax)>>, 4, T, {}) /\ Takes(<<Code!Set(o.rd, Code!Rax)>>, 9, T, {})
    BY <1>2, Constants, FormsHave, PieceRR, GetSet
  <2> QED
    BY <2>1, <2>2, Three
<1> HIDE DEF first, second
<1>5. Takes(first \o second, 22 + ((4 + 4) + 9), T, {})
  BY <1>3, <1>4, JoinPlain
<1>6. 22 + ((4 + 4) + 9) = 39
  OBVIOUS
<1> QED
  BY <1>1, <1>5, <1>6, Zenon

(* A branch takes at most 28 bytes. *)
LEMMA TakesBranch ==
  ASSUME NEW T, NEW o \in Operation, o.op \in DOMAIN Code!Branches
  PROVE  Takes(Code!Branch(o), 28, T, {})
<1> DEFINE test == Code!RR("cmp", 64, Code!Rax, Code!Rcx)
           jump == Code!Jcc(Code!Branches[o.op], Code!Out)
           operands == Code!Operands2(o)
<1>1. Takes(operands, 18, T, {})
  BY Fields, PieceOperands2
<1>2. Takes(<<test>>, 4, T, {})
  BY Constants, FormsHave, PieceRR
<1>3. Takes(<<jump>>, 6, T, {})
  BY TablesGive, PieceJccOut
<1>4. Code!Branch(o) = operands \o <<test, jump>>
  BY Zenon DEF Code!Branch
<1> HIDE DEF operands, test, jump
<1>5. Takes(<<test, jump>>, 10, T, {})
  BY <1>2, <1>3, Two
<1>6. Takes(operands \o <<test, jump>>, 28, T, {})
  BY <1>1, <1>5, JoinPlain
<1> QED
  BY <1>4, <1>6, Zenon

(* A product takes at most 51 bytes. *)
LEMMA TakesMultiply ==
  ASSUME NEW T, NEW o \in Operation, o.op \in Code!MulOps
  PROVE  Takes(Code!Multiply(o), 51, T, {})
<1> DEFINE operands == Code!Operands2(o)
           product == CASE o.op = "MUL"   -> <<Code!RR("imul2", 64, Code!Rax, Code!Rcx)>>
                        [] o.op = "MULW"  -> <<Code!RR("imul2", 32, Code!Rax, Code!Rcx), Code!RR("movsxd", 64, Code!Rax, Code!Rax)>>
                        [] o.op = "MULH"  -> <<Code!RR("imul", 64, Code!Rcx, 0), Code!RR("mov", 64, Code!Rax, Code!Rdx)>>
                        [] o.op = "MULHU" -> <<Code!RR("mul", 64, Code!Rcx, 0), Code!RR("mov", 64, Code!Rax, Code!Rdx)>>
                        [] o.op = "MULHSU" ->
                             <<Code!RR("mov", 64, Code!Rsi, Code!Rax), Code!RR("mul", 64, Code!Rcx, 0), Code!RI("sari", 64, Code!Rsi, 63),
                               Code!RR("and", 64, Code!Rsi, Code!Rcx), Code!RR("sub", 64, Code!Rdx, Code!Rsi), Code!RR("mov", 64, Code!Rax, Code!Rdx)>>
           last == <<Code!Set(o.rd, Code!Rax)>>
<1>1. Code!Multiply(o) = (operands \o product) \o last
  BY Zenon DEF Code!Multiply
<1>2. Takes(operands, 18, T, {}) /\ Takes(last, 9, T, {})
  BY Fields, Constants, GetSet, PieceOperands2
<1>3. Takes(product, 24, T, {})
  <2> DEFINE Both(a, b) == <<a, b>>
             a == Code!RR("mov", 64, Code!Rsi, Code!Rax)
             b == Code!RR("mul", 64, Code!Rcx, 0)
             c == Code!RI("sari", 64, Code!Rsi, 63)
             d == Code!RR("and", 64, Code!Rsi, Code!Rcx)
             e == Code!RR("sub", 64, Code!Rdx, Code!Rsi)
             f == Code!RR("mov", 64, Code!Rax, Code!Rdx)
             g == Code!RR("imul2", 64, Code!Rax, Code!Rcx)
             h == Code!RR("imul2", 32, Code!Rax, Code!Rcx)
             i == Code!RR("movsxd", 64, Code!Rax, Code!Rax)
             j == Code!RR("imul", 64, Code!Rcx, 0)
  <2>1. Takes(<<a>>, 4, T, {}) /\ Takes(<<b>>, 4, T, {}) /\ Takes(<<d>>, 4, T, {}) /\ Takes(<<e>>, 4, T, {}) /\ Takes(<<f>>, 4, T, {})
    BY Constants, FormsHave, PieceRR
  <2>2. Takes(<<g>>, 4, T, {}) /\ Takes(<<h>>, 4, T, {}) /\ Takes(<<i>>, 4, T, {}) /\ Takes(<<j>>, 4, T, {})
    BY Constants, FormsHave, PieceRR
  <2>3. Takes(<<c>>, 4, T, {})
    BY Constants, FormsHave, PieceShift
  <2>4. product \in {<<g>>, <<h, i>>, <<j, f>>, <<b, f>>, <<a, b, c, d, e, f>>}
    BY DEF Code!MulOps
  <2> HIDE DEF a, b, c, d, e, f, g, h, i, j, product
  <2>5. Takes(<<h, i>>, 8, T, {}) /\ Takes(<<j, f>>, 8, T, {}) /\ Takes(<<b, f>>, 8, T, {}) /\ Takes(<<e, f>>, 8, T, {})
    BY <2>1, <2>2, Two
  <2>6. Takes(<<a, b, c, d>>, 16, T, {})
    BY <2>1, <2>3, Four
  <2>7. Takes(<<a, b, c, d>> \o <<e, f>>, 24, T, {})
    BY <2>5, <2>6, JoinPlain
  <2>8. <<a, b, c, d>> \o <<e, f>> = <<a, b, c, d, e, f>>
    <3>1. a \in HostInstr /\ b \in HostInstr /\ c \in HostInstr /\ d \in HostInstr /\ e \in HostInstr /\ f \in HostInstr
      BY <2>1, <2>3, OneIsCode
    <3> QED
      BY <3>1, Cat42
  <2>9. Takes(<<a, b, c, d, e, f>>, 24, T, {})
    BY <2>7, <2>8, Zenon
  <2>10. Takes(<<g>>, 24, T, {}) /\ Takes(<<h, i>>, 24, T, {}) /\ Takes(<<j, f>>, 24, T, {}) /\ Takes(<<b, f>>, 24, T, {})
    BY <2>2, <2>5, TakesMore
  <2> QED
    BY <2>4, <2>9, <2>10, Zenon
<1> HIDE DEF operands, product, last
<1>4. Takes(operands \o product, 42, T, {})
  BY <1>2, <1>3, JoinPlain
<1>5. Takes((operands \o product) \o last, 51, T, {})
  BY <1>2, <1>4, JoinPlain
<1> QED
  BY <1>1, <1>5, Zenon

(* Two instructions, where there is a label *)
LEMMA TwoWith ==
  ASSUME NEW a, NEW b, NEW m \in Nat, NEW n \in Nat, NEW T, NEW L, NEW M, Takes(<<a>>, m, T, L), Takes(<<b>>, n, T, M)
  PROVE  Takes(<<a, b>>, m + n, T, L \cup M)
<1>1. a \in HostInstr /\ b \in HostInstr
  BY OneIsCode
<1>2. <<a>> \o <<b>> = <<a, b>>
  BY <1>1, Cat11
<1>3. Takes(<<a>> \o <<b>>, m + n, T, L \cup M)
  BY Join
<1> QED
  BY <1>2, <1>3, Zenon

(* Four instructions that are a piece of code *)
LEMMA FourIsCode ==
  ASSUME NEW a, NEW b, NEW c, NEW d, NEW n, NEW T, NEW L, Takes(<<a, b, c, d>>, n, T, L)
  PROVE  a \in HostInstr /\ b \in HostInstr /\ c \in HostInstr /\ d \in HostInstr
<1>1. <<a, b, c, d>> \in Seq(HostInstr)
  BY TakesIsCode
<1> QED
  BY <1>1

(* Eight instructions in a row *)
LEMMA Eight ==
  ASSUME NEW a, NEW b, NEW c, NEW d, NEW e, NEW f, NEW g, NEW h, NEW m \in Nat, NEW n \in Nat, NEW T,
         Takes(<<a, b, c, d>>, m, T, {}), Takes(<<e, f, g, h>>, n, T, {})
  PROVE  Takes(<<a, b, c, d, e, f, g, h>>, m + n, T, {})
<1>1. <<a, b, c, d>> \o <<e, f, g, h>> = <<a, b, c, d, e, f, g, h>>
  <2>1. a \in HostInstr /\ b \in HostInstr /\ c \in HostInstr /\ d \in HostInstr
    BY FourIsCode
  <2>2. e \in HostInstr /\ f \in HostInstr /\ g \in HostInstr /\ h \in HostInstr
    BY FourIsCode
  <2> QED
    BY <2>1, <2>2, Cat44
<1>2. Takes(<<a, b, c, d>> \o <<e, f, g, h>>, m + n, T, {})
  BY JoinPlain
<1> QED
  BY <1>1, <1>2, Zenon

(* The tests of an access *)
LEMMA TakesStackTest ==
  ASSUME NEW T, {"not_stack", "stack"} \subseteq T, NEW n \in Int
  PROVE  Takes(Code!StackTest(n), 34, T, {"not_stack"})
<1> DEFINE a == Code!RI("cmpi", 64, Code!Rcx, Code!Guard)
           b == Code!Jcc("jb", "not_stack")
           c == Code!RR("mov", 64, Code!Rdx, Code!R13)
           d == Code!RI("addi", 64, Code!Rdx, -n)
           e == Code!RR("cmp", 64, Code!Rdx, Code!Rcx)
           f == Code!Jcc("jae", "stack")
           g == Code!Label("not_stack")
<1>1. Takes(<<a>>, 7, T, {}) /\ Takes(<<d>>, 7, T, {})
  <2>1. Code!Guard \in Int /\ -n \in Int
    BY DEF Code!Guard
  <2> QED
    BY <2>1, Constants, FormsHave, PieceRI
<1>2. Takes(<<c>>, 4, T, {}) /\ Takes(<<e>>, 4, T, {})
  BY Constants, FormsHave, PieceRR
<1>3. Takes(<<b>>, 6, T, {}) /\ Takes(<<f>>, 6, T, {}) /\ Takes(<<g>>, 0, T, {"not_stack"})
  <2>1. "not_stack" \in T \cap Labels /\ "stack" \in T \cap Labels
    BY DEF Labels
  <2> QED
    BY <2>1, FormsHave, PieceJcc, PieceLabel
<1>4. Code!StackTest(n) = <<a, b, c, d, e, f, g>>
  BY Zenon DEF Code!StackTest
<1> HIDE DEF a, b, c, d, e, f, g
<1>5. Takes(<<a, b, c, d>>, 24, T, {})
  BY <1>1, <1>2, <1>3, Four
<1>6. Takes(<<e, f>>, 10, T, {})
  BY <1>2, <1>3, Two
<1>7. a \in HostInstr /\ b \in HostInstr /\ c \in HostInstr /\ d \in HostInstr /\ e \in HostInstr /\ f \in HostInstr /\ g \in HostInstr
  BY <1>1, <1>2, <1>3, OneIsCode
<1>8. Takes(<<e, f>> \o <<g>>, 10, T, {} \cup {"not_stack"})
  BY <1>3, <1>6, Join
<1>9. Takes(<<e, f, g>>, 10, T, {} \cup {"not_stack"})
  BY <1>7, <1>8, Cat21
<1>10. Takes(<<a, b, c, d>> \o <<e, f, g>>, 34, T, {} \cup ({} \cup {"not_stack"}))
  BY <1>5, <1>9, Join
<1>11. <<a, b, c, d>> \o <<e, f, g>> = <<a, b, c, d, e, f, g>>
  BY <1>7, Cat43
<1>12. {} \cup ({} \cup {"not_stack"}) = {"not_stack"}
  OBVIOUS
<1> QED
  BY <1>4, <1>10, <1>11, <1>12, Zenon

(* The test for .data *)
LEMMA TakesDataTest ==
  ASSUME NEW T, {"not_data", "access"} \subseteq T, NEW n \in Int, NEW data,
         data.addr \in Int, data.size \in Int, data.mem \in Int, data.size # 0
  PROVE  Takes(Code!DataTest(n, data), 59, T, {"not_data"})
<1> DEFINE end == data.addr + data.size - n
           move == data.mem - data.addr
           a == Code!Wide(Code!Rsi, data.addr)
           b == Code!RR("cmp", 64, Code!Rcx, Code!Rsi)
           c == Code!Jcc("jb", "not_data")
           d == Code!Wide(Code!Rsi, end)
           e == Code!Jcc("ja", "not_data")
           f == Code!Wide(Code!Rsi, move)
           g == Code!RR("add", 64, Code!Rcx, Code!Rsi)
           h == Code!Jmp("access")
           i == Code!Label("not_data")
<1>1. Code!DataTest(n, data) = <<a, b, c, d, b, e, f, g, h, i>>
  BY Zenon DEF Code!DataTest
<1>2. end \in Int /\ move \in Int
  OBVIOUS
<1> HIDE DEF end, move
<1>3. Takes(<<a>>, 10, T, {}) /\ Takes(<<d>>, 10, T, {}) /\ Takes(<<f>>, 10, T, {})
  BY <1>2, Constants, PieceWide
<1>4. Takes(<<b>>, 4, T, {}) /\ Takes(<<g>>, 4, T, {})
  BY Constants, FormsHave, PieceRR
<1>5. Takes(<<c>>, 6, T, {}) /\ Takes(<<e>>, 6, T, {}) /\ Takes(<<h>>, 5, T, {}) /\ Takes(<<i>>, 0, T, {"not_data"})
  <2>1. "not_data" \in T \cap Labels /\ "access" \in T \cap Labels
    BY DEF Labels
  <2> QED
    BY <2>1, FormsHave, PieceJcc, PieceJmp, PieceLabel
<1> HIDE DEF a, b, c, d, e, f, g, h, i
<1>6. Takes(<<a, b, c, d>>, 30, T, {}) /\ Takes(<<b, e, f, g>>, 24, T, {})
  <2>1. Takes(<<a, b, c, d>>, (10 + 4) + (6 + 10), T, {})
    BY <1>3, <1>4, <1>5, Four
  <2>2. Takes(<<b, e, f, g>>, (4 + 6) + (10 + 4), T, {})
    BY <1>3, <1>4, <1>5, Four
  <2> QED
    BY <2>1, <2>2
<1>7. Takes(<<a, b, c, d, b, e, f, g>>, 54, T, {})
  BY <1>6, Eight
<1>8. Takes(<<h, i>>, 5, T, {} \cup {"not_data"})
  BY <1>5, TwoWith
<1>9. Takes(<<a, b, c, d, b, e, f, g>> \o <<h, i>>, 59, T, {} \cup ({} \cup {"not_data"}))
  BY <1>7, <1>8, Join
<1>10. <<a, b, c, d, b, e, f, g>> \o <<h, i>> = <<a, b, c, d, b, e, f, g, h, i>>
  <2>1. a \in HostInstr /\ b \in HostInstr /\ c \in HostInstr /\ d \in HostInstr /\ e \in HostInstr
    BY <1>3, <1>4, <1>5, OneIsCode
  <2>2. f \in HostInstr /\ g \in HostInstr /\ h \in HostInstr /\ i \in HostInstr
    BY <1>3, <1>4, <1>5, OneIsCode
  <2> DEFINE x == <<a, b, c, d, b, e, f, g>>
             y == <<h, i>>
             z == <<a, b, c, d, b, e, f, g, h, i>>
  <2>3. x \in Seq(HostInstr) /\ y \in Seq(HostInstr) /\ z \in Seq(HostInstr) /\ Len(x) = 8 /\ Len(y) = 2 /\ Len(z) = 10
    BY <2>1, <2>2
  <2>4. \A k \in 1..8 : z[k] = x[k]
    OBVIOUS
  <2>5. \A k \in 1..2 : z[8 + k] = y[k]
    OBVIOUS
  <2> HIDE DEF x, y, z
  <2>6. /\ Len(z) = Len(x) + Len(y)
        /\ \A k \in 1..Len(x) : z[k] = x[k]
        /\ \A k \in 1..Len(y) : z[Len(x) + k] = y[k]
    BY <2>3, <2>4, <2>5
  <2>7. x \o y = z
    BY <2>3, <2>6, IsCat
  <2> QED
    BY <2>7 DEF x, y, z
<1>11. {} \cup ({} \cup {"not_data"}) = {"not_data"}
  OBVIOUS
<1> QED
  BY <1>1, <1>9, <1>10, <1>11, Zenon

(* The test for .text, which a store never passes *)
LEMMA TakesTextTest ==
  ASSUME NEW T, {"fault", "access"} \subseteq T, NEW n \in Int
  PROVE  Takes(Code!TextTest(n, TRUE), 5, T, {}) /\ Takes(Code!TextTest(n, FALSE), 52, T, {})
<1> DEFINE a == Code!RR("cmp", 64, Code!Rcx, Code!Rbx)
           b == Code!Jcc("jb", "fault")
           c == Code!RR("mov", 64, Code!Rdx, Code!Rbp)
           d == Code!RI("addi", 64, Code!Rdx, -n)
           e == Code!RR("cmp", 64, Code!Rdx, Code!Rcx)
           f == Code!RR("mov", 64, Code!Rdx, Code!Rcx)
           g == Code!RR("sub", 64, Code!Rdx, Code!Rbx)
           h == Code!RR("add", 64, Code!Rdx, Code!R12)
           i == Code!RR("mov", 64, Code!Rcx, Code!Rdx)
           j == Code!Jmp("access")
           k == Code!Jmp("fault")
<1>1. Code!TextTest(n, TRUE) = <<k>> /\ Code!TextTest(n, FALSE) = <<a, b, c, d, e, b, f, g, h, i, j>>
  BY Zenon DEF Code!TextTest
<1>2. Takes(<<d>>, 7, T, {})
  <2>1. -n \in Int
    OBVIOUS
  <2> QED
    BY <2>1, Constants, FormsHave, PieceRI
<1>3. Takes(<<a>>, 4, T, {}) /\ Takes(<<c>>, 4, T, {}) /\ Takes(<<e>>, 4, T, {}) /\ Takes(<<f>>, 4, T, {})
  BY Constants, FormsHave, PieceRR
<1>4. Takes(<<g>>, 4, T, {}) /\ Takes(<<h>>, 4, T, {}) /\ Takes(<<i>>, 4, T, {})
  BY Constants, FormsHave, PieceRR
<1>5. Takes(<<b>>, 6, T, {}) /\ Takes(<<j>>, 5, T, {}) /\ Takes(<<k>>, 5, T, {})
  <2>1. "fault" \in T \cap Labels /\ "access" \in T \cap Labels
    BY DEF Labels
  <2> QED
    BY <2>1, FormsHave, PieceJcc, PieceJmp
<1> HIDE DEF a, b, c, d, e, f, g, h, i, j, k
<1>6. Takes(<<a, b, c, d>>, 21, T, {}) /\ Takes(<<e, b, f, g>>, 18, T, {})
  <2>1. Takes(<<a, b, c, d>>, (4 + 6) + (4 + 7), T, {})
    BY <1>2, <1>3, <1>5, Four
  <2>2. Takes(<<e, b, f, g>>, (4 + 6) + (4 + 4), T, {})
    BY <1>3, <1>4, <1>5, Four
  <2> QED
    BY <2>1, <2>2
<1>7. Takes(<<a, b, c, d, e, b, f, g>>, 39, T, {})
  BY <1>6, Eight
<1>8. Takes(<<h, i, j>>, 13, T, {})
  BY <1>4, <1>5, Three
<1>9. Takes(<<a, b, c, d, e, b, f, g>> \o <<h, i, j>>, 52, T, {})
  BY <1>7, <1>8, JoinPlain
<1>10. <<a, b, c, d, e, b, f, g>> \o <<h, i, j>> = <<a, b, c, d, e, b, f, g, h, i, j>>
  <2>1. a \in HostInstr /\ b \in HostInstr /\ c \in HostInstr /\ d \in HostInstr /\ e \in HostInstr
    BY <1>2, <1>3, <1>5, OneIsCode
  <2>2. f \in HostInstr /\ g \in HostInstr /\ h \in HostInstr /\ i \in HostInstr /\ j \in HostInstr
    BY <1>3, <1>4, <1>5, OneIsCode
  <2> DEFINE x == <<a, b, c, d, e, b, f, g>>
             y == <<h, i, j>>
             z == <<a, b, c, d, e, b, f, g, h, i, j>>
  <2>3. x \in Seq(HostInstr) /\ y \in Seq(HostInstr) /\ z \in Seq(HostInstr) /\ Len(x) = 8 /\ Len(y) = 3 /\ Len(z) = 11
    BY <2>1, <2>2
  <2>4. \A l \in 1..8 : z[l] = x[l]
    OBVIOUS
  <2>5. \A l \in 1..3 : z[8 + l] = y[l]
    OBVIOUS
  <2> HIDE DEF x, y, z
  <2>6. /\ Len(z) = Len(x) + Len(y)
        /\ \A l \in 1..Len(x) : z[l] = x[l]
        /\ \A l \in 1..Len(y) : z[Len(x) + l] = y[l]
    BY <2>3, <2>4, <2>5
  <2>7. x \o y = z
    BY <2>3, <2>6, IsCat
  <2> QED
    BY <2>7 DEF x, y, z
<1> QED
  BY <1>1, <1>5, <1>9, <1>10, Zenon

(* The labels of an access *)
AccessLabels(data) ==
  {"not_stack", "stack", "access", "fault"} \cup (IF data.size = 0 THEN {} ELSE {"not_data"})

(* The place of an access is found in at most 166 bytes, in 119 for a store. *)
LEMMA TakesFindPlace ==
  ASSUME NEW n \in Int, NEW store \in BOOLEAN, NEW imm \in Int, NEW data \in Section
  PROVE  Takes(Code!FindPlace(n, store, imm, data), IF store THEN 119 ELSE 166, AccessLabels(data), AccessLabels(data))
<1> DEFINE T == AccessLabels(data)
           most == IF store THEN 5 ELSE 52
           add == IF imm = 0 THEN <<>> ELSE <<Code!RI("addi", 64, Code!Rcx, imm)>>
           stack == Code!StackTest(n)
           inData == Code!DataTest(n, data)
           text == Code!TextTest(n, store)
           L == IF data.size = 0 THEN {} ELSE {"not_data"}
           a == Code!Label("stack")
           b == Code!RR("add", 64, Code!Rcx, Code!R14)
           c == Code!Jmp("access")
           d == Code!Label("fault")
           e == Code!Jmp(Code!Out)
           f == Code!Label("access")
           last == <<a, b, c, d, e, f>>
<1>1. Code!FindPlace(n, store, imm, data) = (((add \o stack) \o inData) \o text) \o last
  BY Zenon DEF Code!FindPlace
<1>2. {"not_stack", "stack", "access", "fault"} \subseteq T /\ (data.size # 0 => "not_data" \in T)
  BY DEF AccessLabels
<1>3. data.addr \in Int /\ data.size \in Int /\ data.mem \in Int
  BY DEF Section
<1> HIDE DEF T
<1>4. Takes(add, 7, T, {})
  <2>1. Takes(<<Code!RI("addi", 64, Code!Rcx, imm)>>, 7, T, {})
    BY Constants, FormsHave, PieceRI
  <2>2. Takes(<<>>, 7, T, {})
    BY PieceNone
  <2> QED
    BY <2>1, <2>2
<1>5. Takes(stack, 34, T, {"not_stack"})
  BY <1>2, TakesStackTest
<1>6. Takes(inData, 59, T, L)
  <2>1. CASE data.size = 0
    <3>1. inData = <<>> /\ L = {}
      BY <2>1 DEF Code!DataTest
    <3>2. Takes(<<>>, 59, T, {})
      BY PieceNone
    <3> QED
      BY <3>1, <3>2, Zenon
  <2>2. CASE data.size # 0
    <3>1. Takes(inData, 59, T, {"not_data"})
      BY <1>2, <1>3, <2>2, TakesDataTest
    <3> QED
      BY <2>2, <3>1
  <2> QED
    BY <2>1, <2>2
<1>7. Takes(text, most, T, {})
  <2>1. Takes(Code!TextTest(n, TRUE), 5, T, {}) /\ Takes(Code!TextTest(n, FALSE), 52, T, {})
    BY <1>2, TakesTextTest
  <2>2. CASE store = TRUE
    BY <2>1, <2>2, Zenon
  <2>3. CASE store = FALSE
    BY <2>1, <2>3, Zenon
  <2> QED
    BY <2>2, <2>3
<1>8. Takes(<<a>>, 0, T, {"stack"}) /\ Takes(<<d>>, 0, T, {"fault"}) /\ Takes(<<f>>, 0, T, {"access"}) /\ Takes(<<c>>, 5, T, {})
  <2>1. "stack" \in T \cap Labels /\ "fault" \in T \cap Labels /\ "access" \in T \cap Labels
    BY <1>2 DEF Labels
  <2> QED
    BY <2>1, PieceLabel, PieceJmp
<1>9. Takes(<<b>>, 4, T, {}) /\ Takes(<<e>>, 5, T, {})
  BY Constants, FormsHave, PieceRR, PieceJmpOut
<1> HIDE DEF a, b, c, d, e, f
<1>10. Takes(last, 14, T, {"stack", "fault", "access"})
  <2>1. Takes(<<a, b>>, 4, T, {"stack"} \cup {}) /\ Takes(<<c, d>>, 5, T, {} \cup {"fault"}) /\ Takes(<<e, f>>, 5, T, {} \cup {"access"})
    <3>1. Takes(<<a, b>>, 0 + 4, T, {"stack"} \cup {})
      BY <1>8, <1>9, TwoWith
    <3>2. Takes(<<c, d>>, 5 + 0, T, {} \cup {"fault"})
      BY <1>8, TwoWith
    <3>3. Takes(<<e, f>>, 5 + 0, T, {} \cup {"access"})
      BY <1>8, <1>9, TwoWith
    <3> QED
      BY <3>1, <3>2, <3>3
  <2>2. a \in HostInstr /\ b \in HostInstr /\ c \in HostInstr /\ d \in HostInstr /\ e \in HostInstr /\ f \in HostInstr
    BY <1>8, <1>9, OneIsCode
  <2>3. Takes(<<a, b>> \o <<c, d>>, 9, T, ({"stack"} \cup {}) \cup ({} \cup {"fault"}))
    BY <2>1, Join
  <2>4. Takes(<<a, b, c, d>>, 9, T, ({"stack"} \cup {}) \cup ({} \cup {"fault"}))
    <3>1. <<a, b>> \o <<c, d>> = <<a, b, c, d>>
      BY <2>2, Cat22
    <3> QED
      BY <2>3, <3>1, Zenon
  <2>5. Takes(<<a, b, c, d>> \o <<e, f>>, 14, T, (({"stack"} \cup {}) \cup ({} \cup {"fault"})) \cup ({} \cup {"access"}))
    BY <2>1, <2>4, Join
  <2>6. <<a, b, c, d>> \o <<e, f>> = <<a, b, c, d, e, f>>
    BY <2>2, Cat42
  <2>7. (({"stack"} \cup {}) \cup ({} \cup {"fault"})) \cup ({} \cup {"access"}) = {"stack", "fault", "access"}
    OBVIOUS
  <2> QED
    BY <2>5, <2>6, <2>7, Zenon
<1>11. most \in Nat /\ (((7 + 34) + 59) + most) + 14 = IF store THEN 119 ELSE 166
  OBVIOUS
<1>12. ((({} \cup {"not_stack"}) \cup L) \cup {}) \cup {"stack", "fault", "access"} = T
  BY DEF T, AccessLabels
<1> HIDE DEF add, stack, inData, text, last, most, L
<1>13. Takes(add \o stack, 7 + 34, T, {} \cup {"not_stack"})
  BY <1>4, <1>5, Join
<1>14. Takes((add \o stack) \o inData, (7 + 34) + 59, T, ({} \cup {"not_stack"}) \cup L)
  BY <1>6, <1>13, Join
<1>15. Takes(((add \o stack) \o inData) \o text, ((7 + 34) + 59) + most, T, (({} \cup {"not_stack"}) \cup L) \cup {})
  BY <1>7, <1>11, <1>14, Join
<1>16. Takes((((add \o stack) \o inData) \o text) \o last, (((7 + 34) + 59) + most) + 14, T,
             ((({} \cup {"not_stack"}) \cup L) \cup {}) \cup {"stack", "fault", "access"})
  <2>1. ((7 + 34) + 59) + most \in Nat
    BY <1>11
  <2> QED
    BY <1>10, <1>15, <2>1, Join
<1>17. Takes((((add \o stack) \o inData) \o text) \o last, IF store THEN 119 ELSE 166, T, T)
  BY <1>11, <1>12, <1>16
<1> QED
  BY <1>1, <1>17, Zenon DEF T

(* The size of an access *)
LEMMA SizeIsInt ==
  ASSUME NEW op \in DOMAIN Code!Loads \cup DOMAIN Code!Stores
  PROVE  Code!AccessSize(op) \in Int
BY OpTables DEF Code!AccessSize

(* What is at the address *)
LEMMA PieceAccess ==
  ASSUME NEW T, NEW op
  PROVE  /\ op \in DOMAIN Code!Loads => Takes(<<Code!Loads[op]>>, 9, T, {})
         /\ op \in DOMAIN Code!Stores => Takes(<<Code!Stores[op]>>, 9, T, {})
<1>1. ASSUME NEW form \in MemoryForms, NEW w \in Widths
      PROVE  Takes(<<Code!Mem(form, w, Code!Rax, Code!Rcx, 0)>>, 9, T, {})
  BY Constants, PieceMem
<1>2. ASSUME op \in DOMAIN Code!Loads
      PROVE  \E form \in MemoryForms, w \in Widths : Code!Loads[op] = Code!Mem(form, w, Code!Rax, Code!Rcx, 0)
  BY <1>2, Constants, FormsHave DEF Code!Loads
<1>3. ASSUME op \in DOMAIN Code!Stores
      PROVE  \E form \in MemoryForms, w \in Widths : Code!Stores[op] = Code!Mem(form, w, Code!Rax, Code!Rcx, 0)
  BY <1>3, Constants, FormsHave DEF Code!Stores
<1> QED
  BY <1>1, <1>2, <1>3, Zenon

(* A load, the largest of the operations, takes at most 193 bytes. *)
LEMMA TakesLoad ==
  ASSUME NEW o \in Operation, o.op \in DOMAIN Code!Loads, NEW data \in Section
  PROVE  Takes(Code!Load(o, data), 193, AccessLabels(data), AccessLabels(data))
<1> DEFINE T == AccessLabels(data)
           first == <<Code!Get(Code!Rcx, o.rs1)>>
           find == Code!FindPlace(Code!AccessSize(o.op), FALSE, o.imm, data)
           a == Code!Loads[o.op]
           b == Code!Set(o.rd, Code!Rax)
<1>1. Code!Load(o, data) = (first \o find) \o <<a, b>>
  BY Zenon DEF Code!Load
<1>2. Takes(first, 9, T, {}) /\ Takes(<<b>>, 9, T, {})
  BY Fields, Constants, GetSet
<1>3. Takes(<<a>>, 9, T, {})
  BY PieceAccess
<1>4. Takes(find, 166, T, T)
  <2>1. Code!AccessSize(o.op) \in Int /\ o.imm \in Int
    BY SizeIsInt, Fields
  <2> QED
    BY <2>1, TakesFindPlace
<1> HIDE DEF T, first, find, a, b
<1>5. Takes(<<a, b>>, 18, T, {})
  BY <1>2, <1>3, Two
<1>6. Takes(first \o find, 175, T, {} \cup T)
  BY <1>2, <1>4, Join
<1>7. Takes((first \o find) \o <<a, b>>, 193, T, ({} \cup T) \cup {})
  BY <1>5, <1>6, Join
<1>8. ({} \cup T) \cup {} = T
  OBVIOUS
<1> QED
  BY <1>1, <1>7, <1>8, Zenon DEF T

(* A store takes at most 146 bytes. *)
LEMMA TakesStore ==
  ASSUME NEW o \in Operation, o.op \in DOMAIN Code!Stores, NEW data \in Section
  PROVE  Takes(Code!Store(o, data), 146, AccessLabels(data), AccessLabels(data))
<1> DEFINE T == AccessLabels(data)
           a == Code!Get(Code!Rcx, o.rs1)
           b == Code!Get(Code!Rax, o.rs2)
           find == Code!FindPlace(Code!AccessSize(o.op), TRUE, o.imm, data)
           c == Code!Stores[o.op]
<1>1. Code!Store(o, data) = (<<a, b>> \o find) \o <<c>>
  BY Zenon DEF Code!Store
<1>2. Takes(<<a>>, 9, T, {}) /\ Takes(<<b>>, 9, T, {})
  BY Fields, Constants, GetSet
<1>3. Takes(<<c>>, 9, T, {})
  BY PieceAccess
<1>4. Takes(find, 119, T, T)
  <2>1. Code!AccessSize(o.op) \in Int /\ o.imm \in Int
    BY SizeIsInt, Fields
  <2> QED
    BY <2>1, TakesFindPlace
<1> HIDE DEF T, find, a, b, c
<1>5. Takes(<<a, b>>, 18, T, {})
  BY <1>2, Two
<1>6. Takes(<<a, b>> \o find, 137, T, {} \cup T)
  BY <1>4, <1>5, Join
<1>7. Takes((<<a, b>> \o find) \o <<c>>, 146, T, ({} \cup T) \cup {})
  BY <1>3, <1>6, Join
<1>8. ({} \cup T) \cup {} = T
  OBVIOUS
<1> QED
  BY <1>1, <1>7, <1>8, Zenon DEF T

(* The labels of a division *)
DivideLabels == {"nonzero", "divide", "done"}

(* The case of the most negative dividend takes at most 42 bytes. *)
LEMMA TakesOverflowCase ==
  ASSUME NEW T, {"divide", "done"} \subseteq T, NEW word \in BOOLEAN, NEW remainder \in BOOLEAN, NEW min,
         min.word \in Int, min.lo \in Int, min.hi \in Int
  PROVE  Takes(Code!OverflowCase(word, remainder, min), 42, T, {})
<1> DEFINE w == IF word THEN 32 ELSE 64
           a == Code!RI("cmpi", w, Code!Rcx, -1)
           b == Code!Jcc("jne", "divide")
           c == Code!RI("cmpi", 32, Code!Rax, min.word)
           d == Code!Imm64(Code!Rsi, min.lo, min.hi)
           e == Code!RR("cmp", 64, Code!Rax, Code!Rsi)
           f == Code!RR("xor", 64, Code!Rax, Code!Rax)
           g == Code!RR("movsxd", 64, Code!Rax, Code!Rax)
           h == Code!Jmp("done")
           compare == IF word THEN <<c>> ELSE <<d, e>>
           set == IF remainder THEN <<f>> ELSE IF word THEN <<g>> ELSE <<>>
<1>1. Code!OverflowCase(word, remainder, min) = (((<<a, b>> \o compare) \o <<b>>) \o set) \o <<h>>
  BY Zenon DEF Code!OverflowCase
<1>2. Takes(<<a>>, 7, T, {}) /\ Takes(<<c>>, 7, T, {})
  <2>1. w \in Widths /\ -1 \in Int
    BY Constants
  <2> HIDE DEF w
  <2> QED
    BY <2>1, Constants, FormsHave, PieceRI
<1>3. Takes(<<b>>, 6, T, {}) /\ Takes(<<h>>, 5, T, {})
  <2>1. "divide" \in T \cap Labels /\ "done" \in T \cap Labels
    BY DEF Labels
  <2> QED
    BY <2>1, FormsHave, PieceJcc, PieceJmp
<1>4. Takes(<<d>>, 10, T, {}) /\ Takes(<<e>>, 4, T, {}) /\ Takes(<<f>>, 4, T, {}) /\ Takes(<<g>>, 4, T, {})
  BY Constants, FormsHave, PieceRR, PieceImm64
<1> HIDE DEF a, b, c, d, e, f, g, h
<1>5. Takes(<<a, b>>, 13, T, {})
  BY <1>2, <1>3, Two
<1>6. Takes(compare, 14, T, {})
  <2>1. Takes(<<d, e>>, 14, T, {})
    BY <1>4, Two
  <2>2. Takes(<<c>>, 14, T, {})
    BY <1>2, TakesMore
  <2> QED
    BY <2>1, <2>2
<1>7. Takes(set, 4, T, {})
  <2>1. Takes(<<>>, 4, T, {})
    BY PieceNone
  <2> QED
    BY <1>4, <2>1
<1> HIDE DEF compare, set
<1>8. Takes(<<a, b>> \o compare, 27, T, {})
  BY <1>5, <1>6, JoinPlain
<1>9. Takes((<<a, b>> \o compare) \o <<b>>, 33, T, {})
  BY <1>3, <1>8, JoinPlain
<1>10. Takes(((<<a, b>> \o compare) \o <<b>>) \o set, 37, T, {})
  BY <1>7, <1>9, JoinPlain
<1>11. Takes((((<<a, b>> \o compare) \o <<b>>) \o set) \o <<h>>, 42, T, {})
  BY <1>3, <1>10, JoinPlain
<1> QED
  BY <1>1, <1>11, Zenon

(* A division takes at most 110 bytes. *)
LEMMA TakesDivrem ==
  ASSUME NEW o \in Operation, NEW signed \in BOOLEAN, NEW word \in BOOLEAN, NEW remainder \in BOOLEAN, NEW min,
         min.word \in Int, min.lo \in Int, min.hi \in Int
  PROVE  Takes(Code!Divrem(o, signed, word, remainder, min), 110, DivideLabels, DivideLabels)
<1> DEFINE T == DivideLabels
           w == IF word THEN 32 ELSE 64
           operands == Code!Operands2(o)
           a == Code!RR("test", w, Code!Rcx, Code!Rcx)
           b == Code!Jcc("jne", "nonzero")
           c == Code!RR("movsxd", 64, Code!Rax, Code!Rax)
           d == Code!Wide(Code!Rax, -1)
           e == Code!Jmp("done")
           f == Code!Label("nonzero")
           g == Code!Label("divide")
           h == Code!RR("cqo", w, 0, 0)
           i == Code!RR("idiv", w, Code!Rcx, 0)
           j == Code!RR("xor", 32, Code!Rdx, Code!Rdx)
           k == Code!RR("div", w, Code!Rcx, 0)
           l == Code!RR("mov", 64, Code!Rax, Code!Rdx)
           m == Code!Label("done")
           n == Code!Set(o.rd, Code!Rax)
           extend == IF word THEN <<c>> ELSE <<>>
           zero == IF remainder THEN extend ELSE <<d>>
           over == IF signed THEN Code!OverflowCase(word, remainder, min) ELSE <<>>
           divide == IF signed THEN <<h, i>> ELSE <<j, k>>
           take == IF remainder THEN <<l>> ELSE <<>>
<1>1. Code!Divrem(o, signed, word, remainder, min) =
        ((((((((operands \o <<a, b>>) \o zero) \o <<e, f>>) \o over) \o <<g>>) \o divide) \o take) \o extend) \o <<m, n>>
  BY Zenon DEF Code!Divrem
<1>2. w \in Widths
  BY Constants
<1>3. o.rd \in Guests /\ o.rs1 \in Guests /\ o.rs2 \in Guests
  BY Fields
<1>4. {"nonzero", "divide", "done"} \subseteq T
  BY DEF DivideLabels
<1> HIDE DEF T, w
<1>5. Takes(operands, 18, T, {}) /\ Takes(<<n>>, 9, T, {}) /\ Takes(<<d>>, 10, T, {})
  <2>1. -1 \in Int
    OBVIOUS
  <2> QED
    BY <1>3, <2>1, Constants, GetSet, PieceOperands2, PieceWide
<1>6. Takes(<<a>>, 4, T, {}) /\ Takes(<<c>>, 4, T, {}) /\ Takes(<<h>>, 4, T, {}) /\ Takes(<<i>>, 4, T, {})
  BY <1>2, Constants, FormsHave, PieceRR
<1>7. Takes(<<j>>, 4, T, {}) /\ Takes(<<k>>, 4, T, {}) /\ Takes(<<l>>, 4, T, {})
  BY <1>2, Constants, FormsHave, PieceRR
<1>8. "nonzero" \in T \cap Labels /\ "divide" \in T \cap Labels /\ "done" \in T \cap Labels
  BY <1>4 DEF Labels
<1>9. Takes(<<b>>, 6, T, {}) /\ Takes(<<e>>, 5, T, {})
  BY <1>8, FormsHave, PieceJcc, PieceJmp
<1>10. Takes(<<f>>, 0, T, {"nonzero"}) /\ Takes(<<g>>, 0, T, {"divide"}) /\ Takes(<<m>>, 0, T, {"done"})
  BY <1>8, PieceLabel
<1> HIDE DEF a, b, c, d, e, f, g, h, i, j, k, l, m, n
<1>11. Takes(<<a, b>>, 10, T, {}) /\ Takes(divide, 8, T, {})
  <2>1. Takes(<<a, b>>, 10, T, {}) /\ Takes(<<h, i>>, 8, T, {}) /\ Takes(<<j, k>>, 8, T, {})
    BY <1>6, <1>7, <1>9, Two
  <2> QED
    BY <2>1
<1>12. Takes(<<e, f>>, 5, T, {} \cup {"nonzero"})
  BY <1>9, <1>10, TwoWith
<1>13. Takes(<<m, n>>, 9, T, {"done"} \cup {})
  BY <1>5, <1>10, TwoWith
<1>14. Takes(<<>>, 4, T, {}) /\ Takes(<<>>, 42, T, {})
  BY PieceNone
<1>15. Takes(extend, 4, T, {}) /\ Takes(take, 4, T, {})
  BY <1>6, <1>7, <1>14
<1>16. Takes(zero, 10, T, {})
  <2> HIDE DEF extend
  <2>1. Takes(extend, 10, T, {})
    BY <1>15, TakesMore
  <2> QED
    BY <1>5, <2>1
<1>17. Takes(over, 42, T, {})
  <2>1. Takes(Code!OverflowCase(word, remainder, min), 42, T, {})
    BY <1>4, TakesOverflowCase
  <2> QED
    BY <1>14, <2>1
<1> HIDE DEF operands, zero, over, divide, take, extend
<1> DEFINE x1 == operands \o <<a, b>>
           x2 == x1 \o zero
           x3 == x2 \o <<e, f>>
           x4 == x3 \o over
           x5 == x4 \o <<g>>
           x6 == x5 \o divide
           x7 == x6 \o take
           x8 == x7 \o extend
           x9 == x8 \o <<m, n>>
           L3 == {} \cup ({} \cup {"nonzero"})
           L5 == (L3 \cup {}) \cup {"divide"}
           L9 == (((L5 \cup {}) \cup {}) \cup {}) \cup ({"done"} \cup {})
<1>18. L9 = DivideLabels
  BY DEF DivideLabels
<1>19. Takes(x2, 38, T, {})
  <2>1. Takes(x1, 28, T, {})
    BY <1>5, <1>11, JoinPlain
  <2> HIDE DEF x1
  <2> QED
    BY <1>16, <2>1, JoinPlain
<1>20. Takes(x4, 85, T, L3 \cup {})
  <2> HIDE DEF x2
  <2>1. Takes(x3, 43, T, L3)
    BY <1>12, <1>19, Join
  <2> HIDE DEF x3, L3
  <2> QED
    BY <1>17, <2>1, Join
<1>21. Takes(x6, 93, T, L5 \cup {})
  <2> HIDE DEF x4, L3
  <2>1. Takes(x5, 85, T, L5)
    BY <1>10, <1>20, Join
  <2> HIDE DEF x5, L5
  <2> QED
    BY <1>11, <2>1, Join
<1>22. Takes(x8, 101, T, ((L5 \cup {}) \cup {}) \cup {})
  <2> HIDE DEF x6, L5
  <2>1. Takes(x7, 97, T, (L5 \cup {}) \cup {})
    BY <1>15, <1>21, Join
  <2> HIDE DEF x7
  <2> QED
    BY <1>15, <2>1, Join
<1>23. Takes(x9, 110, T, L9)
  <2> HIDE DEF x8, L5
  <2> QED
    BY <1>13, <1>22, Join
<1> HIDE DEF L9
<1> QED
  BY <1>1, <1>18, <1>23, Zenon DEF T

(* The fuel check takes at most 35 bytes. *)
LEMMA TakesFuelCheck ==
  ASSUME NEW T
  PROVE  Takes(Code!FuelCheck, 35, T, {})
<1> DEFINE a == Code!Mem("load", 64, Code!Rax, Code!R15, Code!FuelOffset)
           b == Code!RI("addi", 64, Code!Rax, -1)
           c == Code!Mem("store", 64, Code!Rax, Code!R15, Code!FuelOffset)
           d == Code!RR("test", 64, Code!Rax, Code!Rax)
           e == Code!Jcc("jle", Code!Out)
<1>1. Code!FuelOffset \in Int /\ -1 \in Int
  BY DEF Code!FuelOffset
<1>2. Takes(<<a>>, 9, T, {}) /\ Takes(<<b>>, 7, T, {}) /\ Takes(<<c>>, 9, T, {})
  BY <1>1, Constants, FormsHave, PieceMem, PieceRI
<1>3. Takes(<<d>>, 4, T, {}) /\ Takes(<<e>>, 6, T, {})
  BY Constants, FormsHave, PieceRR, PieceJccOut
<1>4. Code!FuelCheck = <<a, b, c, d, e>>
  BY Zenon DEF Code!FuelCheck
<1> HIDE DEF a, b, c, d, e
<1>5. Takes(<<a, b, c, d>>, (9 + 7) + (9 + 4), T, {})
  BY <1>2, <1>3, Four
<1>6. Takes(<<a, b, c, d>> \o <<e>>, 35, T, {})
  BY <1>3, <1>5, JoinPlain
<1>7. <<a, b, c, d>> \o <<e>> = <<a, b, c, d, e>>
  <2>1. a \in HostInstr /\ b \in HostInstr /\ c \in HostInstr /\ d \in HostInstr /\ e \in HostInstr
    BY <1>2, <1>3, OneIsCode
  <2> QED
    BY <2>1, Cat41
<1> QED
  BY <1>4, <1>6, <1>7, Zenon

(* ECALL takes at most 32 bytes. *)
LEMMA TakesEcall ==
  ASSUME NEW T, NEW env \in Environment
  PROVE  Takes(Code!Ecall(env), 32, T, {})
<1> DEFINE a == Code!RR("push", 64, Code!Rax, 0)
           b == Code!Wide(Code!Rdi, env.jit)
           c == Code!Wide(Code!Rax, env.ecall)
           d == Code!RR("call", 64, Code!Rax, 0)
           e == Code!RR("pop", 64, Code!Rax, 0)
<1>1. env.jit \in Int /\ env.ecall \in Int
  BY DEF Environment
<1>2. Takes(<<b>>, 10, T, {}) /\ Takes(<<c>>, 10, T, {})
  BY <1>1, Constants, PieceWide
<1>3. Takes(<<a>>, 4, T, {}) /\ Takes(<<d>>, 4, T, {}) /\ Takes(<<e>>, 4, T, {})
  BY Constants, FormsHave, PieceRR
<1>4. Code!Ecall(env) = <<a, b, c, d, e>>
  BY Zenon DEF Code!Ecall
<1> HIDE DEF a, b, c, d, e
<1>5. Takes(<<a, b, c, d>>, (4 + 10) + (10 + 4), T, {})
  BY <1>2, <1>3, Four
<1>6. Takes(<<a, b, c, d>> \o <<e>>, 32, T, {})
  BY <1>3, <1>5, JoinPlain
<1>7. <<a, b, c, d>> \o <<e>> = <<a, b, c, d, e>>
  <2>1. a \in HostInstr /\ b \in HostInstr /\ c \in HostInstr /\ d \in HostInstr /\ e \in HostInstr
    BY <1>2, <1>3, OneIsCode
  <2> QED
    BY <2>1, Cat41
<1> QED
  BY <1>4, <1>6, <1>7, Zenon

(* JALR takes at most 56 bytes. *)
LEMMA TakesJalr ==
  ASSUME NEW T, NEW o \in Operation, NEW pc \in Int
  PROVE  Takes(Code!Jalr(o, pc), 56, T, {})
<1> DEFINE link == pc + 4
           a == Code!Get(Code!Rax, o.rs1)
           b == Code!RI("addi", 64, Code!Rax, o.imm)
           c == Code!RI("andi", 64, Code!Rax, -2)
           d == Code!Wide(Code!Rcx, link)
           e == Code!Set(o.rd, Code!Rcx)
           f == Code!SetPc(Code!Rax)
           g == Code!Jmp(Code!Out)
           linked == IF o.rd = 0 THEN <<>> ELSE <<d, e>>
<1>1. Code!Jalr(o, pc) = (<<a, b, c>> \o linked) \o <<f, g>>
  BY Zenon DEF Code!Jalr
<1>2. link \in Int /\ -2 \in Int
  OBVIOUS
<1>3. o.rd \in Guests /\ o.rs1 \in Guests /\ o.imm \in Int
  BY Fields
<1> HIDE DEF link
<1>4. Takes(<<a>>, 9, T, {}) /\ Takes(<<e>>, 9, T, {})
  BY <1>3, Constants, GetSet
<1>5. Takes(<<b>>, 7, T, {}) /\ Takes(<<c>>, 7, T, {})
  BY <1>2, <1>3, Constants, FormsHave, PieceRI
<1>6. Takes(<<d>>, 10, T, {})
  BY <1>2, Constants, PieceWide
<1>7. Takes(<<f>>, 9, T, {}) /\ Takes(<<g>>, 5, T, {})
  BY Constants, PieceSetPc, PieceJmpOut
<1> HIDE DEF a, b, c, d, e, f, g
<1>8. Takes(<<a, b, c>>, 23, T, {})
  BY <1>4, <1>5, Three
<1>9. Takes(<<d, e>>, 19, T, {}) /\ Takes(<<f, g>>, 14, T, {})
  BY <1>4, <1>6, <1>7, Two
<1>10. Takes(linked, 19, T, {})
  <2>1. Takes(<<>>, 19, T, {})
    BY PieceNone
  <2> QED
    BY <1>9, <2>1
<1> HIDE DEF linked
<1>11. Takes(<<a, b, c>> \o linked, 42, T, {})
  BY <1>8, <1>10, JoinPlain
<1>12. Takes((<<a, b, c>> \o linked) \o <<f, g>>, 56, T, {})
  BY <1>9, <1>11, JoinPlain
<1> QED
  BY <1>1, <1>12, Zenon

(* The stub for a fault takes at most 43 bytes. *)
LEMMA TakesFaultStub ==
  ASSUME NEW T, NEW env \in Environment
  PROVE  Takes(Code!FaultStub(env), 43, T, {})
<1> DEFINE a == Code!Wide(Code!Rax, env.pc)
           b == Code!SetPc(Code!Rax)
           c == Code!Wide(Code!Rax, 1)
           d == Code!Mem("store", 64, Code!Rax, Code!R15, Code!FaultOffset)
           e == Code!Jmp(Code!Out)
<1>1. env.pc \in Int /\ 1 \in Int /\ Code!FaultOffset \in Int
  BY DEF Environment, Code!FaultOffset
<1>2. Takes(<<a>>, 10, T, {}) /\ Takes(<<c>>, 10, T, {})
  BY <1>1, Constants, PieceWide
<1>3. Takes(<<b>>, 9, T, {}) /\ Takes(<<e>>, 5, T, {})
  BY Constants, PieceSetPc, PieceJmpOut
<1>4. Takes(<<d>>, 9, T, {})
  BY <1>1, Constants, FormsHave, PieceMem
<1>5. Code!FaultStub(env) = <<a, b, c, d, e>>
  BY Zenon DEF Code!FaultStub
<1> HIDE DEF a, b, c, d, e
<1>6. Takes(<<a, b, c, d>>, (10 + 9) + (10 + 9), T, {})
  BY <1>2, <1>3, <1>4, Four
<1>7. Takes(<<a, b, c, d>> \o <<e>>, 43, T, {})
  BY <1>3, <1>6, JoinPlain
<1>8. <<a, b, c, d>> \o <<e>> = <<a, b, c, d, e>>
  <2>1. a \in HostInstr /\ b \in HostInstr /\ c \in HostInstr /\ d \in HostInstr /\ e \in HostInstr
    BY <1>2, <1>3, <1>4, OneIsCode
  <2> QED
    BY <2>1, Cat41
<1> QED
  BY <1>5, <1>7, <1>8, Zenon

(* The registers that are saved, pushed and popped *)
LEMMA TakesSix ==
  ASSUME NEW T, NEW a, NEW b, NEW c, NEW d, NEW e, NEW f,
         Takes(<<a>>, 4, T, {}), Takes(<<b>>, 4, T, {}), Takes(<<c>>, 4, T, {}),
         Takes(<<d>>, 4, T, {}), Takes(<<e>>, 4, T, {}), Takes(<<f>>, 4, T, {})
  PROVE  Takes(<<a, b, c, d, e, f>>, 24, T, {})
<1>1. Takes(<<a, b, c, d>>, (4 + 4) + (4 + 4), T, {})
  BY Four
<1>2. Takes(<<e, f>>, 4 + 4, T, {})
  BY Two
<1>3. Takes(<<a, b, c, d>> \o <<e, f>>, 24, T, {})
  BY <1>1, <1>2, JoinPlain
<1>4. <<a, b, c, d>> \o <<e, f>> = <<a, b, c, d, e, f>>
  <2>1. a \in HostInstr /\ b \in HostInstr /\ c \in HostInstr /\ d \in HostInstr /\ e \in HostInstr /\ f \in HostInstr
    BY OneIsCode
  <2> QED
    BY <2>1, Cat42
<1> QED
  BY <1>3, <1>4, Zenon

(* The registers of the caller are saved and restored in 24 bytes. *)
LEMMA TakesSaved ==
  ASSUME NEW T
  PROVE  /\ Takes([k \in 1..6 |-> Code!RR("push", 64, Code!CalleeSaved[k], 0)], 24, T, {})
         /\ Takes([k \in 1..6 |-> Code!RR("pop", 64, Code!CalleeSaved[7 - k], 0)], 24, T, {})
<1> DEFINE Push(r) == Code!RR("push", 64, r, 0)
           Pop(r) == Code!RR("pop", 64, r, 0)
<1>1. ASSUME NEW r \in Numbers
      PROVE  Takes(<<Push(r)>>, 4, T, {}) /\ Takes(<<Pop(r)>>, 4, T, {})
  BY Constants, FormsHave, PieceRR
<1> HIDE DEF Push, Pop
<1>2. /\ [k \in 1..6 |-> Push(Code!CalleeSaved[k])] =
           <<Push(Code!Rbp), Push(Code!Rbx), Push(Code!R12), Push(Code!R13), Push(Code!R14), Push(Code!R15)>>
      /\ [k \in 1..6 |-> Pop(Code!CalleeSaved[7 - k])] =
           <<Pop(Code!R15), Pop(Code!R14), Pop(Code!R13), Pop(Code!R12), Pop(Code!Rbx), Pop(Code!Rbp)>>
  BY DEF Code!CalleeSaved
<1>3. Takes([k \in 1..6 |-> Push(Code!CalleeSaved[k])], 24, T, {})
  <2>1. Takes(<<Push(Code!Rbp)>>, 4, T, {}) /\ Takes(<<Push(Code!Rbx)>>, 4, T, {}) /\ Takes(<<Push(Code!R12)>>, 4, T, {})
    BY <1>1, Constants
  <2>2. Takes(<<Push(Code!R13)>>, 4, T, {}) /\ Takes(<<Push(Code!R14)>>, 4, T, {}) /\ Takes(<<Push(Code!R15)>>, 4, T, {})
    BY <1>1, Constants
  <2>3. Takes(<<Push(Code!Rbp), Push(Code!Rbx), Push(Code!R12), Push(Code!R13), Push(Code!R14), Push(Code!R15)>>, 24, T, {})
    BY <2>1, <2>2, TakesSix
  <2> QED
    BY <1>2, <2>3, Zenon
<1>4. Takes([k \in 1..6 |-> Pop(Code!CalleeSaved[7 - k])], 24, T, {})
  <2>1. Takes(<<Pop(Code!R15)>>, 4, T, {}) /\ Takes(<<Pop(Code!R14)>>, 4, T, {}) /\ Takes(<<Pop(Code!R13)>>, 4, T, {})
    BY <1>1, Constants
  <2>2. Takes(<<Pop(Code!R12)>>, 4, T, {}) /\ Takes(<<Pop(Code!Rbx)>>, 4, T, {}) /\ Takes(<<Pop(Code!Rbp)>>, 4, T, {})
    BY <1>1, Constants
  <2>3. Takes(<<Pop(Code!R15), Pop(Code!R14), Pop(Code!R13), Pop(Code!R12), Pop(Code!Rbx), Pop(Code!Rbp)>>, 24, T, {})
    BY <2>1, <2>2, TakesSix
  <2> QED
    BY <1>2, <2>3, Zenon
<1> QED
  BY <1>3, <1>4, Zenon DEF Push, Pop

(* The trampoline takes at most 80 bytes. *)
LEMMA TakesTrampoline ==
  ASSUME NEW T, NEW env \in Environment
  PROVE  Takes(Code!Trampoline(env), 80, T, {})
<1> DEFINE end == env.text.addr + env.text.size
           saved == [k \in 1..6 |-> Code!RR("push", 64, Code!CalleeSaved[k], 0)]
           a == Code!RR("mov", 64, Code!R15, Code!Rdi)
           b == Code!Mem("load", 64, Code!R14, Code!R15, Code!StackMemOffset)
           c == Code!Mem("load", 64, Code!R13, Code!R15, Code!StackSizeOffset)
           d == Code!Wide(Code!R12, env.text.mem)
           e == Code!Wide(Code!Rbx, env.text.addr)
           f == Code!Wide(Code!Rbp, end)
           g == Code!RR("jmpr", 64, Code!Rsi, 0)
<1>1. Code!Trampoline(env) = saved \o <<a, b, c, d, e, f, g>>
  BY Zenon DEF Code!Trampoline
<1>2. Takes(saved, 24, T, {})
  BY TakesSaved
<1>3. env.text.addr \in Int /\ env.text.mem \in Int /\ end \in Int
  BY DEF Environment, Section
<1> HIDE DEF end
<1>4. Takes(<<d>>, 10, T, {}) /\ Takes(<<e>>, 10, T, {}) /\ Takes(<<f>>, 10, T, {})
  BY <1>3, Constants, PieceWide
<1>5. Takes(<<a>>, 4, T, {}) /\ Takes(<<g>>, 4, T, {})
  BY Constants, FormsHave, PieceRR
<1>6. Takes(<<b>>, 9, T, {}) /\ Takes(<<c>>, 9, T, {})
  <2>1. Code!StackMemOffset \in Int /\ Code!StackSizeOffset \in Int
    BY DEF Code!StackMemOffset, Code!StackSizeOffset
  <2> QED
    BY <2>1, Constants, FormsHave, PieceMem
<1> HIDE DEF saved, a, b, c, d, e, f, g
<1>7. Takes(<<a, b, c, d>>, (4 + 9) + (9 + 10), T, {})
  BY <1>4, <1>5, <1>6, Four
<1>8. Takes(<<e, f, g>>, (10 + 10) + 4, T, {})
  BY <1>4, <1>5, Three
<1>9. Takes(<<a, b, c, d>> \o <<e, f, g>>, 56, T, {})
  BY <1>7, <1>8, JoinPlain
<1>10. <<a, b, c, d>> \o <<e, f, g>> = <<a, b, c, d, e, f, g>>
  <2>1. a \in HostInstr /\ b \in HostInstr /\ c \in HostInstr /\ d \in HostInstr
    BY <1>4, <1>5, <1>6, OneIsCode
  <2>2. e \in HostInstr /\ f \in HostInstr /\ g \in HostInstr
    BY <1>4, <1>5, OneIsCode
  <2> QED
    BY <2>1, <2>2, Cat43
<1>11. Takes(<<a, b, c, d, e, f, g>>, 56, T, {})
  BY <1>9, <1>10, Zenon
<1>12. Takes(saved \o <<a, b, c, d, e, f, g>>, 80, T, {})
  BY <1>2, <1>11, JoinPlain
<1> QED
  BY <1>1, <1>12, Zenon

(* The epilogue takes at most 26 bytes. *)
LEMMA TakesEpilogue ==
  ASSUME NEW T
  PROVE  Takes(Code!Epilogue, 26, T, {})
<1> DEFINE saved == [k \in 1..6 |-> Code!RR("pop", 64, Code!CalleeSaved[7 - k], 0)]
           ret == <<Code!Plain("ret")>>
<1>1. Takes(saved, 24, T, {}) /\ Takes(ret, 2, T, {})
  BY TakesSaved, FormsHave, PiecePlain
<1>2. Code!Epilogue = saved \o ret
  BY Zenon DEF Code!Epilogue
<1> HIDE DEF saved, ret
<1>3. Takes(saved \o ret, 26, T, {})
  BY <1>1, JoinPlain
<1> QED
  BY <1>2, <1>3, Zenon

(* Clearing x0 takes at most 19 bytes. *)
LEMMA TakesZeroX0 ==
  ASSUME NEW T
  PROVE  Takes(Code!ZeroX0, 19, T, {})
<1> DEFINE a == Code!Wide(Code!Rax, 0)
           b == Code!Set(0, Code!Rax)
<1>1. 0 \in Int /\ 0 \in Guests
  BY DEF Guests
<1>2. Takes(<<a>>, 10, T, {}) /\ Takes(<<b>>, 9, T, {})
  BY <1>1, Constants, PieceWide, GetSet
<1> HIDE DEF a, b
<1>3. Takes(<<a, b>>, 19, T, {})
  BY <1>2, Two
<1> QED
  BY <1>3 DEF Code!ZeroX0, a, b

(* What emit_instruction emits for each kind of operation *)
LEMMA EmitOfTables ==
  ASSUME NEW o, NEW env
  PROVE  /\ o.op \in ArithmeticOps => Code!EmitInstruction(o, env) = Code!Arithmetic(o)
         /\ o.op \in DOMAIN Code!Compares => Code!EmitInstruction(o, env) = Code!Compare(o)
         /\ o.op \in DOMAIN Code!Branches => Code!EmitInstruction(o, env) = Code!Branch(o)
         /\ o.op \in DOMAIN Code!Loads => Code!EmitInstruction(o, env) = Code!Load(o, env.data)
         /\ o.op \in DOMAIN Code!Stores => Code!EmitInstruction(o, env) = Code!Store(o, env.data)
         /\ o.op \in Code!MulOps => Code!EmitInstruction(o, env) = Code!Multiply(o)
         /\ o.op \in Code!DivOps =>
              Code!EmitInstruction(o, env) =
                Code!Divrem(o, o.op \in {"DIV", "REM", "DIVW", "REMW"}, o.op \in {"DIVW", "DIVUW", "REMW", "REMUW"},
                            o.op \in {"REM", "REMU", "REMW", "REMUW"}, env.min)
<1>1. o.op \in ArithmeticOps => Code!EmitInstruction(o, env) = Code!Arithmetic(o)
  BY OpTables DEF Code!EmitInstruction, ArithmeticOps, Code!MulOps, Code!DivOps
<1>2. o.op \in DOMAIN Code!Compares => Code!EmitInstruction(o, env) = Code!Compare(o)
  BY OpTables DEF Code!EmitInstruction, Code!MulOps, Code!DivOps
<1>3. o.op \in DOMAIN Code!Branches => Code!EmitInstruction(o, env) = Code!Branch(o)
  BY OpTables DEF Code!EmitInstruction, Code!MulOps, Code!DivOps
<1>4. o.op \in DOMAIN Code!Loads => Code!EmitInstruction(o, env) = Code!Load(o, env.data)
  BY OpTables DEF Code!EmitInstruction, Code!MulOps, Code!DivOps
<1>5. o.op \in DOMAIN Code!Stores => Code!EmitInstruction(o, env) = Code!Store(o, env.data)
  BY OpTables DEF Code!EmitInstruction, Code!MulOps, Code!DivOps
<1>6. o.op \in Code!MulOps => Code!EmitInstruction(o, env) = Code!Multiply(o)
  BY OpTables DEF Code!EmitInstruction, Code!MulOps, Code!DivOps
<1>7. o.op \in Code!DivOps =>
              Code!EmitInstruction(o, env) =
                Code!Divrem(o, o.op \in {"DIV", "REM", "DIVW", "REMW"}, o.op \in {"DIVW", "DIVUW", "REMW", "REMUW"},
                            o.op \in {"REM", "REMU", "REMW", "REMUW"}, env.min)
  BY OpTables DEF Code!EmitInstruction, Code!MulOps, Code!DivOps
<1> QED
  BY <1>1, <1>2, <1>3, <1>4, <1>5, <1>6, <1>7

(* The operations that no table has *)
LEMMA EmitOfOthers ==
  ASSUME NEW o, NEW env
  PROVE  /\ o.op = "NOP" => Code!EmitInstruction(o, env) = <<>>
         /\ o.op = "MOV" => Code!EmitInstruction(o, env) = <<Code!Get(Code!Rax, o.rs2), Code!Set(o.rd, Code!Rax)>>
         /\ o.op = "LI" => Code!EmitInstruction(o, env) = <<Code!Wide(Code!Rax, o.imm), Code!Set(o.rd, Code!Rax)>>
         /\ o.op = "BEQZ" => Code!EmitInstruction(o, env) =
                               <<Code!Get(Code!Rax, o.rs1), Code!RR("test", 64, Code!Rax, Code!Rax), Code!Jcc("je", Code!Out)>>
         /\ o.op = "JMP" => Code!EmitInstruction(o, env) = <<Code!Jmp(Code!Out)>>
         /\ o.op = "JMP_REG" => Code!EmitInstruction(o, env) =
                                  <<Code!Get(Code!Rax, o.rs1), Code!SetPc(Code!Rax), Code!Jmp(Code!Out)>>
         /\ o.op = "JALR" => Code!EmitInstruction(o, env) = Code!Jalr(o, env.pc)
         /\ o.op = "ECALL" => Code!EmitInstruction(o, env) = Code!Ecall(env)
         /\ o.op \in {"EBREAK", "UD2"} => \E op \in DOMAIN Code!Fixed : Code!EmitInstruction(o, env) = <<Code!Plain(op)>>
         /\ o.op = "FUEL_CHECK" => Code!EmitInstruction(o, env) = Code!FuelCheck
<1>1. o.op = "NOP" => Code!EmitInstruction(o, env) = <<>>
  BY OpTables DEF Code!EmitInstruction, Code!MulOps, Code!DivOps
<1>2. o.op = "MOV" => Code!EmitInstruction(o, env) = <<Code!Get(Code!Rax, o.rs2), Code!Set(o.rd, Code!Rax)>>
  BY OpTables DEF Code!EmitInstruction, Code!MulOps, Code!DivOps
<1>3. o.op = "LI" => Code!EmitInstruction(o, env) = <<Code!Wide(Code!Rax, o.imm), Code!Set(o.rd, Code!Rax)>>
  BY OpTables DEF Code!EmitInstruction, Code!MulOps, Code!DivOps
<1>4. o.op = "BEQZ" => Code!EmitInstruction(o, env) =
                         <<Code!Get(Code!Rax, o.rs1), Code!RR("test", 64, Code!Rax, Code!Rax), Code!Jcc("je", Code!Out)>>
  BY OpTables DEF Code!EmitInstruction, Code!MulOps, Code!DivOps
<1>5. o.op = "JMP" => Code!EmitInstruction(o, env) = <<Code!Jmp(Code!Out)>>
  BY OpTables DEF Code!EmitInstruction, Code!MulOps, Code!DivOps
<1>6. o.op = "JMP_REG" => Code!EmitInstruction(o, env) =
                            <<Code!Get(Code!Rax, o.rs1), Code!SetPc(Code!Rax), Code!Jmp(Code!Out)>>
  BY OpTables DEF Code!EmitInstruction, Code!MulOps, Code!DivOps
<1>7. o.op = "JALR" => Code!EmitInstruction(o, env) = Code!Jalr(o, env.pc)
  BY OpTables DEF Code!EmitInstruction, Code!MulOps, Code!DivOps
<1>8. o.op = "ECALL" => Code!EmitInstruction(o, env) = Code!Ecall(env)
  BY OpTables DEF Code!EmitInstruction, Code!MulOps, Code!DivOps
<1>9. o.op \in {"EBREAK", "UD2"} => \E op \in DOMAIN Code!Fixed : Code!EmitInstruction(o, env) = <<Code!Plain(op)>>
  <2>1. o.op = "EBREAK" => Code!EmitInstruction(o, env) = <<Code!Plain("int3")>>
    BY OpTables DEF Code!EmitInstruction, Code!MulOps, Code!DivOps
  <2>2. o.op = "UD2" => Code!EmitInstruction(o, env) = <<Code!Plain("ud2")>>
    BY OpTables DEF Code!EmitInstruction, Code!MulOps, Code!DivOps
  <2> QED
    BY <2>1, <2>2, FormsHave
<1>10. o.op = "FUEL_CHECK" => Code!EmitInstruction(o, env) = Code!FuelCheck
  BY OpTables DEF Code!EmitInstruction, Code!MulOps, Code!DivOps
<1> QED
  BY <1>1, <1>2, <1>3, <1>4, <1>5, <1>6, <1>7, <1>8, <1>9, <1>10

(* The host code of an operation, without the clearing of x0, takes at most *)
(* 193 bytes, and the labels it jumps to are in it.                         *)
LEMMA TakesEmitInstruction ==
  ASSUME NEW o \in Operation, NEW env \in Environment
  PROVE  \E T : Takes(Code!EmitInstruction(o, env), 193, T, T)
<1> DEFINE code == Code!EmitInstruction(o, env)
<1>1. env.data \in Section /\ env.pc \in Int /\ env.min.word \in Int /\ env.min.lo \in Int /\ env.min.hi \in Int
  BY DEF Environment
<1>2. o.rd \in Guests /\ o.rs1 \in Guests /\ o.rs2 \in Guests /\ o.imm \in Int /\ o.op \in OpNames
  BY Fields
<1>3. CASE o.op \in ArithmeticOps
  <2>1. Takes(code, 35, {}, {})
    BY <1>3, EmitOfTables, TakesArithmetic
  <2> HIDE DEF code
  <2>2. Takes(code, 193, {}, {})
    BY <2>1, TakesMore
  <2> QED
    BY <2>2 DEF code
<1>4. CASE o.op \in DOMAIN Code!Compares
  <2>1. Takes(code, 39, {}, {})
    BY <1>4, EmitOfTables, TakesCompare
  <2> HIDE DEF code
  <2>2. Takes(code, 193, {}, {})
    BY <2>1, TakesMore
  <2> QED
    BY <2>2 DEF code
<1>5. CASE o.op \in DOMAIN Code!Branches
  <2>1. Takes(code, 28, {}, {})
    BY <1>5, EmitOfTables, TakesBranch
  <2> HIDE DEF code
  <2>2. Takes(code, 193, {}, {})
    BY <2>1, TakesMore
  <2> QED
    BY <2>2 DEF code
<1>6. CASE o.op \in DOMAIN Code!Loads
  <2>1. Takes(code, 193, AccessLabels(env.data), AccessLabels(env.data))
    BY <1>1, <1>6, EmitOfTables, TakesLoad
  <2> QED
    BY <2>1
<1>7. CASE o.op \in DOMAIN Code!Stores
  <2> DEFINE T == AccessLabels(env.data)
  <2>1. Takes(code, 146, T, T)
    BY <1>1, <1>7, EmitOfTables, TakesStore
  <2> HIDE DEF code, T
  <2>2. Takes(code, 193, T, T)
    BY <2>1, TakesMore
  <2> QED
    BY <2>2 DEF code
<1>8. CASE o.op \in Code!MulOps
  <2>1. Takes(code, 51, {}, {})
    BY <1>8, EmitOfTables, TakesMultiply
  <2> HIDE DEF code
  <2>2. Takes(code, 193, {}, {})
    BY <2>1, TakesMore
  <2> QED
    BY <2>2 DEF code
<1>9. CASE o.op \in Code!DivOps
  <2> DEFINE signed == o.op \in {"DIV", "REM", "DIVW", "REMW"}
             word == o.op \in {"DIVW", "DIVUW", "REMW", "REMUW"}
             remainder == o.op \in {"REM", "REMU", "REMW", "REMUW"}
  <2>1. code = Code!Divrem(o, signed, word, remainder, env.min)
    BY <1>9, EmitOfTables, Zenon
  <2>2. signed \in BOOLEAN /\ word \in BOOLEAN /\ remainder \in BOOLEAN
    OBVIOUS
  <2> HIDE DEF code, signed, word, remainder
  <2>3. Takes(Code!Divrem(o, signed, word, remainder, env.min), 110, DivideLabels, DivideLabels)
    BY <1>1, <2>2, TakesDivrem
  <2>4. Takes(code, 193, DivideLabels, DivideLabels)
    BY <2>1, <2>3, TakesMore
  <2> QED
    BY <2>4 DEF code
<1>10. CASE o.op \in OtherOps
  <2> DEFINE get == Code!Get(Code!Rax, o.rs1)
             get2 == Code!Get(Code!Rax, o.rs2)
             set == Code!Set(o.rd, Code!Rax)
             li == Code!Wide(Code!Rax, o.imm)
             test == Code!RR("test", 64, Code!Rax, Code!Rax)
             je == Code!Jcc("je", Code!Out)
             pc == Code!SetPc(Code!Rax)
             out == Code!Jmp(Code!Out)
  <2>1. /\ o.op = "MOV" => code = <<get2, set>>
        /\ o.op = "LI" => code = <<li, set>>
        /\ o.op = "BEQZ" => code = <<get, test, je>>
        /\ o.op = "JMP" => code = <<out>>
        /\ o.op = "JMP_REG" => code = <<get, pc, out>>
    BY EmitOfOthers, Zenon
  <2>2. Takes(<<get>>, 9, {}, {}) /\ Takes(<<get2>>, 9, {}, {}) /\ Takes(<<set>>, 9, {}, {}) /\ Takes(<<pc>>, 9, {}, {})
    BY <1>2, Constants, GetSet, PieceSetPc
  <2>3. Takes(<<li>>, 10, {}, {}) /\ Takes(<<test>>, 4, {}, {}) /\ Takes(<<je>>, 6, {}, {}) /\ Takes(<<out>>, 5, {}, {})
    BY <1>2, Constants, FormsHave, PieceWide, PieceRR, PieceJccOut, PieceJmpOut
  <2>4. o.op = "NOP" => Takes(code, 193, {}, {})
    <3>1. Takes(<<>>, 193, {}, {})
      BY PieceNone
    <3> QED
      BY <3>1, EmitOfOthers, Zenon
  <2>5. o.op = "JALR" => Takes(code, 193, {}, {})
    <3>1. Takes(Code!Jalr(o, env.pc), 56, {}, {})
      BY <1>1, TakesJalr
    <3>2. Takes(Code!Jalr(o, env.pc), 193, {}, {})
      BY <3>1, TakesMore
    <3> QED
      BY <3>2, EmitOfOthers, Zenon
  <2>6. o.op = "ECALL" => Takes(code, 193, {}, {})
    <3>1. Takes(Code!Ecall(env), 32, {}, {})
      BY TakesEcall
    <3>2. Takes(Code!Ecall(env), 193, {}, {})
      BY <3>1, TakesMore
    <3> QED
      BY <3>2, EmitOfOthers, Zenon
  <2>7. o.op \in {"EBREAK", "UD2"} => Takes(code, 193, {}, {})
    <3>1. \A op \in DOMAIN Code!Fixed : Takes(<<Code!Plain(op)>>, 2, {}, {})
      BY PiecePlain
    <3>2. \A op \in DOMAIN Code!Fixed : Takes(<<Code!Plain(op)>>, 193, {}, {})
      BY <3>1, TakesMore
    <3> QED
      BY <3>2, EmitOfOthers, Zenon
  <2>8. o.op = "FUEL_CHECK" => Takes(code, 193, {}, {})
    <3>1. Takes(Code!FuelCheck, 35, {}, {})
      BY TakesFuelCheck
    <3>2. Takes(Code!FuelCheck, 193, {}, {})
      BY <3>1, TakesMore
    <3> QED
      BY <3>2, EmitOfOthers, Zenon
  <2> HIDE DEF code, get, get2, set, li, test, je, pc, out
  <2>9. Takes(<<get2, set>>, 18, {}, {}) /\ Takes(<<li, set>>, 19, {}, {})
    BY <2>2, <2>3, Two
  <2>10. Takes(<<get, test, je>>, 19, {}, {}) /\ Takes(<<get, pc, out>>, 23, {}, {})
    <3>1. Takes(<<get, test, je>>, (9 + 4) + 6, {}, {})
      BY <2>2, <2>3, Three
    <3>2. Takes(<<get, pc, out>>, (9 + 9) + 5, {}, {})
      BY <2>2, <2>3, Three
    <3> QED
      BY <3>1, <3>2
  <2>11. Takes(<<get2, set>>, 193, {}, {}) /\ Takes(<<li, set>>, 193, {}, {}) /\ Takes(<<out>>, 193, {}, {})
    BY <2>3, <2>9, TakesMore
  <2>12. Takes(<<get, test, je>>, 193, {}, {}) /\ Takes(<<get, pc, out>>, 193, {}, {})
    BY <2>10, TakesMore
  <2>13. o.op \in {"MOV", "LI", "BEQZ", "JMP", "JMP_REG"} => Takes(code, 193, {}, {})
    BY <2>1, <2>11, <2>12, Zenon
  <2>14. Takes(code, 193, {}, {})
    BY <1>10, <2>4, <2>5, <2>6, <2>7, <2>8, <2>13 DEF OtherOps
  <2> QED
    BY <2>14 DEF code
<1> QED
  BY <1>2, <1>3, <1>4, <1>5, <1>6, <1>7, <1>8, <1>9, <1>10 DEF OpNames

(* What is encoded: an operation, or a piece of the code around them *)
Encodable == [op : OpNames \cup {"TRAMPOLINE", "EPILOGUE", "STUB"}, rd : Guests, rs1 : Guests, rs2 : Guests, imm : Int]

(* All that is emitted at once fits its room, before the labels are resolved *)
LEMMA TakesCodeOf ==
  ASSUME NEW o \in Encodable, NEW env \in Environment
  PROVE  \E T : Takes(Code!CodeOf(o, env), Room(o.op), T, T)
<1> DEFINE code == Code!CodeOf(o, env)
           room == Room(o.op)
<1>1. CASE o.op = "TRAMPOLINE"
  <2>1. code = Code!Trampoline(env) /\ room = 160
    BY <1>1 DEF Code!CodeOf, Room
  <2>2. Takes(Code!Trampoline(env), 80, {}, {})
    BY TakesTrampoline
  <2>3. Takes(Code!Trampoline(env), 160, {}, {})
    BY <2>2, TakesMore
  <2> QED
    BY <2>1, <2>3, Zenon
<1>2. CASE o.op = "EPILOGUE"
  <2>1. code = Code!Epilogue /\ room = 256
    BY <1>2 DEF Code!CodeOf, Room
  <2>2. Takes(Code!Epilogue, 26, {}, {})
    BY TakesEpilogue
  <2>3. Takes(Code!Epilogue, 256, {}, {})
    BY <2>2, TakesMore
  <2> QED
    BY <2>1, <2>3
<1>3. CASE o.op = "STUB"
  <2>1. code = Code!FaultStub(env) /\ room = 224
    BY <1>3 DEF Code!CodeOf, Room
  <2>2. Takes(Code!FaultStub(env), 43, {}, {})
    BY TakesFaultStub
  <2>3. Takes(Code!FaultStub(env), 224, {}, {})
    BY <2>2, TakesMore
  <2> QED
    BY <2>1, <2>3
<1>4. CASE o.op \in OpNames
  <2> DEFINE emitted == IF Code!Discarded(o) THEN <<>> ELSE Code!EmitInstruction(o, env)
             zero == Code!ZeroX0
  <2>1. o.op \notin {"TRAMPOLINE", "EPILOGUE", "STUB"}
    BY <1>4, OpTables DEF OpNames, ArithmeticOps, OtherOps, Code!MulOps, Code!DivOps
  <2>2. code = zero \o emitted /\ room = 224
    BY <2>1 DEF Code!CodeOf, Room
  <2>3. o \in Operation
    BY <1>4 DEF Operation, Encodable
  <2>4. \E T : Takes(emitted, 193, T, T)
    <3>1. Takes(<<>>, 193, {}, {})
      BY PieceNone
    <3>2. \E T : Takes(Code!EmitInstruction(o, env), 193, T, T)
      BY <2>3, TakesEmitInstruction
    <3> QED
      BY <3>1, <3>2
  <2>5. PICK T : Takes(emitted, 193, T, T)
    BY <2>4
  <2>6. Takes(zero, 19, T, {})
    BY TakesZeroX0
  <2> HIDE DEF code, room, emitted, zero
  <2>7. Takes(zero \o emitted, 212, T, {} \cup T)
    BY <2>5, <2>6, Join
  <2>8. {} \cup T = T
    OBVIOUS
  <2>9. Takes(zero \o emitted, 212, T, T)
    BY <2>7, <2>8, Zenon
  <2>10. Takes(code, 212, T, T)
    BY <2>2, <2>9, Zenon
  <2>11. Takes(code, room, T, T)
    BY <2>2, <2>10, TakesMore
  <2> QED
    BY <2>11 DEF code, room
<1> QED
  BY <1>1, <1>2, <1>3, <1>4 DEF Encodable

(* The same up to a bound *)
LEMMA RecursionUpTo ==
  ASSUME NEW S, NEW c \in S, NEW N \in Nat, NEW step \in [1..N -> [S -> S]]
  PROVE  \E f \in [0..N -> S] : f[0] = c /\ \A n \in 1..N : f[n] = step[n][f[n - 1]]
<1> DEFINE next == [n \in Nat |-> IF n + 1 <= N THEN step[n + 1] ELSE [v \in S |-> v]]
<1>1. next \in Stepping(S)
  <2>1. \A n \in Nat : n + 1 <= N => step[n + 1] \in [S -> S]
    OBVIOUS
  <2> QED
    BY <2>1 DEF Stepping
<1>2. \A n \in Nat : n + 1 <= N => next[n] = step[n + 1]
  OBVIOUS
<1> HIDE DEF next
<1>3. PICK g : Recurs(g, S, c, next)
  BY <1>1, Recursion, Zenon
<1> DEFINE f == [n \in 0..N |-> g[n]]
<1>4. g \in [Nat -> S] /\ g[0] = c
  BY <1>3 DEF Recurs
<1>5. f \in [0..N -> S] /\ f[0] = c
  BY <1>4
<1>6. ASSUME NEW n \in 1..N
      PROVE  f[n] = step[n][f[n - 1]]
  <2>1. n - 1 \in Nat /\ (n - 1) + 1 = n /\ (n - 1) + 1 <= N /\ n \in 0..N /\ n - 1 \in 0..N
    OBVIOUS
  <2>2. g[(n - 1) + 1] = next[n - 1][g[n - 1]]
    BY <1>3, <2>1 DEF Recurs
  <2>3. next[n - 1] = step[n]
    BY <1>2, <2>1
  <2> QED
    BY <2>1, <2>2, <2>3
<1> HIDE DEF f
<1> QED
  BY <1>5, <1>6

(* The instructions of a piece of code without its labels, when it jumps to T *)
NoLabels(T) == {h \in HostInstr : h.op # "label" /\ h.to \in T \cup Outside}

IsReal(real, code, T) ==
  /\ real \in [0..Len(code) -> Seq(NoLabels(T))]
  /\ real[0] = <<>>
  /\ \A n \in 1..Len(code) :
       real[n] = IF code[n].op = "label" THEN real[n - 1] ELSE Append(real[n - 1], code[n])

(* Linked counts with such a function *)
RealOf(code) ==
  CHOOSE real : real = [n \in 0..Len(code) |->
                          IF n = 0 THEN <<>>
                          ELSE IF code[n].op = "label" THEN real[n - 1] ELSE Append(real[n - 1], code[n])]

(* The count that Linked makes, up to the last instruction *)
LEMMA RealIs ==
  ASSUME NEW code, NEW n, NEW T, NEW L, Takes(code, n, T, L)
  PROVE  IsReal(RealOf(code), code, T)
<1> DEFINE N == Len(code)
           S == Seq(NoLabels(T))
           step == [k \in 1..N |-> [v \in S |-> IF code[k].op = "label" THEN v ELSE Append(v, code[k])]]
           Is(f) == f = [k \in 0..N |-> IF k = 0 THEN <<>> ELSE IF code[k].op = "label" THEN f[k - 1] ELSE Append(f[k - 1], code[k])]
<1>1. N \in Nat
  BY TakesIsCode
<1>2. ASSUME NEW k \in 1..N, code[k].op # "label"
      PROVE  code[k] \in NoLabels(T)
  <2>1. code[k].to \in T \cup Outside
    BY DEF Takes
  <2>2. code[k] \in HostInstr
    <3>1. code \in Seq(HostInstr)
      BY TakesIsCode
    <3> QED
      BY <3>1
  <2> QED
    BY <1>2, <2>1, <2>2 DEF NoLabels
<1>3. ASSUME NEW k \in 1..N, NEW v \in S, code[k].op # "label"
      PROVE  Append(v, code[k]) \in S
  BY <1>2, <1>3
<1>4. <<>> \in S
  OBVIOUS
<1> HIDE DEF S
<1>5. step \in [1..N -> [S -> S]]
  BY <1>3
<1>6. \A k \in 1..N, v \in S : step[k][v] = IF code[k].op = "label" THEN v ELSE Append(v, code[k])
  OBVIOUS
<1> HIDE DEF step, N
<1>7. PICK f \in [0..N -> S] : f[0] = <<>> /\ \A k \in 1..N : f[k] = step[k][f[k - 1]]
  BY <1>1, <1>4, <1>5, RecursionUpTo
<1>8. \A k \in 1..N : f[k] = IF code[k].op = "label" THEN f[k - 1] ELSE Append(f[k - 1], code[k])
  <2> SUFFICES ASSUME NEW k \in 1..N
               PROVE  f[k] = IF code[k].op = "label" THEN f[k - 1] ELSE Append(f[k - 1], code[k])
    OBVIOUS
  <2>1. f[k - 1] \in S
    BY <1>1
  <2> QED
    BY <1>6, <1>7, <2>1
<1>9. Is(f)
  <2>1. f = [k \in 0..N |-> f[k]]
    BY <1>7
  <2>2. \A k \in 0..N : k # 0 => k \in 1..N
    BY <1>1
  <2>3. \A k \in 0..N : f[k] = IF k = 0 THEN <<>> ELSE IF code[k].op = "label" THEN f[k - 1] ELSE Append(f[k - 1], code[k])
    BY <1>7, <1>8, <2>2
  <2> QED
    BY <2>1, <2>3
<1>10. Is(RealOf(code))
  <2> DEFINE h == CHOOSE g : Is(g)
  <2>1. RealOf(code) = h
    BY Zenon DEF RealOf, N
  <2> HIDE DEF Is
  <2> QED
    BY <1>9, <2>1, Zenon
<1> DEFINE r == RealOf(code)
<1> HIDE DEF r
<1>11. r[0] = <<>> /\ \A k \in 1..N : r[k] = IF code[k].op = "label" THEN r[k - 1] ELSE Append(r[k - 1], code[k])
  <2>1. \A k \in 0..N : r[k] = IF k = 0 THEN <<>> ELSE IF code[k].op = "label" THEN r[k - 1] ELSE Append(r[k - 1], code[k])
    BY <1>10, Zenon DEF r
  <2>2. 0 \in 0..N /\ \A k \in 1..N : k \in 0..N /\ k # 0
    BY <1>1
  <2> QED
    BY <2>1, <2>2, Zenon
<1>12. \A k \in 0..N : r[k] \in S
  <2> DEFINE Typed == {k \in Nat : k <= N => r[k] \in S}
  <2>1. 0 \in Typed
    BY <1>4, <1>11
  <2>2. ASSUME NEW k \in Nat, k \in Typed
        PROVE  k + 1 \in Typed
    <3> SUFFICES ASSUME k + 1 <= N
                 PROVE  r[k + 1] \in S
      OBVIOUS
    <3>1. k <= N /\ k + 1 \in 1..N /\ (k + 1) - 1 = k
      BY <1>1
    <3>2. r[k] \in S
      BY <2>2, <3>1
    <3>3. r[k + 1] = IF code[k + 1].op = "label" THEN r[k] ELSE Append(r[k], code[k + 1])
      BY <1>11, <3>1
    <3> QED
      BY <1>3, <3>1, <3>2, <3>3
  <2> HIDE DEF Typed
  <2>3. Nat \subseteq Typed
    BY <2>1, <2>2, SetInduction
  <2>4. \A k \in 0..N : k \in Nat /\ k <= N
    BY <1>1
  <2> QED
    BY <2>3, <2>4 DEF Typed
<1>13. r \in [0..N -> S]
  <2>1. r = [k \in 0..N |-> IF k = 0 THEN <<>> ELSE IF code[k].op = "label" THEN r[k - 1] ELSE Append(r[k - 1], code[k])]
    BY <1>10, Zenon DEF r
  <2>2. DOMAIN r = 0..N
    BY <2>1
  <2>3. r = [k \in DOMAIN r |-> r[k]]
    BY <2>1
  <2> QED
    BY <1>12, <2>2, <2>3
<1> QED
  BY <1>11, <1>13 DEF IsReal, r, N, S

(* Without its labels, a piece of code takes no more *)
LEMMA RealTakes ==
  ASSUME NEW code, NEW n \in Nat, NEW T, NEW L, Takes(code, n, T, L), NEW real, IsReal(real, code, T)
  PROVE  Takes(real[Len(code)], n, T, {})
<1> DEFINE N == Len(code)
<1>1. N \in Nat /\ code \in Seq(HostInstr)
  BY TakesIsCode
<1>2. PICK f : Budget(f, code, n)
  BY DEF Takes
<1>3. f \in [0..N -> Nat] /\ f[0] = 0 /\ f[N] <= n /\ \A k \in 1..N : f[k - 1] + Most(code[k].op) <= f[k]
  BY <1>2 DEF Budget
<1>4. /\ real \in [0..N -> Seq(NoLabels(T))] /\ real[0] = <<>>
      /\ \A k \in 1..N : real[k] = IF code[k].op = "label" THEN real[k - 1] ELSE Append(real[k - 1], code[k])
  BY DEF IsReal
<1>5. \A k \in 1..N : code[k] \in HostInstr /\ code[k].to \in T \cup Outside
  <2>1. \A k \in 1..N : code[k].to \in T \cup Outside
    BY DEF Takes
  <2>2. \A k \in 1..N : code[k] \in HostInstr
    BY <1>1
  <2> QED
    BY <2>1, <2>2
<1> DEFINE Fitting == {k \in Nat : k <= N => Takes(real[k], f[k], T, {})}
<1>6. 0 \in Fitting
  <2>1. Takes(<<>>, 0, T, {})
    BY PieceNone
  <2> QED
    BY <1>3, <1>4, <2>1
<1> HIDE DEF N
<1>7. ASSUME NEW k \in Nat, k \in Fitting
      PROVE  k + 1 \in Fitting
  <2> SUFFICES ASSUME k + 1 <= N
               PROVE  Takes(real[k + 1], f[k + 1], T, {})
    OBVIOUS
  <2> DEFINE h == code[k + 1]
             before == real[k]
  <2>1. k <= N /\ k + 1 \in 1..N /\ (k + 1) - 1 = k /\ k \in 0..N /\ k + 1 \in 0..N
    BY <1>1
  <2>2. Takes(before, f[k], T, {})
    BY <1>7, <2>1
  <2>3. f[k] \in Nat /\ f[k + 1] \in Nat
    BY <1>3, <2>1
  <2>4. f[k] + Most(h.op) <= f[k + 1]
    BY <1>3, <2>1
  <2>5. h \in HostInstr /\ h.to \in T \cup Outside
    BY <1>5, <2>1
  <2>6. real[k + 1] = IF h.op = "label" THEN before ELSE Append(before, h)
    BY <1>4, <2>1
  <2>7. before \in Seq(NoLabels(T))
    BY <1>4, <2>1
  <2> HIDE DEF h, before
  <2>8. Most(h.op) \in Nat
    BY <2>5, MostIsNat
  <2>9. CASE h.op = "label"
    <3>1. f[k] <= f[k + 1]
      BY <2>3, <2>4, <2>8
    <3>2. Takes(before, f[k + 1], T, {})
      BY <2>2, <2>3, <3>1, TakesMore
    <3> QED
      BY <2>6, <2>9, <3>2
  <2>10. CASE h.op # "label"
    <3>1. Takes(<<h>>, Most(h.op), {h.to}, {})
      BY <2>5, <2>10, TakesTo
    <3>2. Takes(<<h>>, Most(h.op), T, {})
      <4>1. CASE h.to \in T
        <5>1. {h.to} \subseteq T
          BY <4>1
        <5> QED
          BY <2>8, <3>1, <5>1, TakesMore
      <4>2. CASE h.to \in Outside
        <5>1. Takes(<<h>>, Most(h.op), {}, {})
          BY <2>5, <4>2, TakesOne
        <5> QED
          BY <2>8, <5>1, TakesMore
      <4> QED
        BY <2>5, <4>1, <4>2
    <3> DEFINE most == Most(h.op)
    <3> HIDE DEF most
    <3>3. Takes(before \o <<h>>, f[k] + most, T, {})
      BY <2>2, <2>3, <2>8, <3>2, JoinPlain DEF most
    <3>4. Takes(before \o <<h>>, f[k + 1], T, {})
      <4>1. f[k] + most \in Nat /\ f[k] + most <= f[k + 1]
        BY <2>3, <2>4, <2>8 DEF most
      <4> QED
        BY <2>3, <3>3, <4>1, TakesMore
    <3>5. Append(before, h) = before \o <<h>>
      <4>1. h \in NoLabels(T)
        BY <2>5, <2>10 DEF NoLabels
      <4> QED
        BY <2>7, <4>1
    <3> QED
      BY <2>6, <2>10, <3>4, <3>5
  <2> QED
    BY <2>9, <2>10
<1> HIDE DEF Fitting
<1>8. N \in Fitting
  BY <1>1, <1>6, <1>7, SetInduction
<1>9. Takes(real[N], f[N], T, {}) /\ f[N] \in Nat
  BY <1>1, <1>3, <1>8 DEF Fitting
<1>10. Takes(real[N], n, T, {})
  BY <1>3, <1>9, TakesMore
<1> QED
  BY <1>10 DEF N

(* What is in front of a label is in front of the end *)
LEMMA RealGrows ==
  ASSUME NEW code, NEW n, NEW T, NEW L, Takes(code, n, T, L), NEW real, IsReal(real, code, T), NEW k \in 1..Len(code)
  PROVE  Len(real[k]) \in Nat /\ Len(real[k]) <= Len(real[Len(code)])
<1> DEFINE N == Len(code)
           size(i) == Len(real[i])
<1>1. N \in Nat
  BY TakesIsCode
<1>2. real \in [0..N -> Seq(NoLabels(T))]
  BY DEF IsReal
<1>3. \A i \in 0..N : size(i) \in Nat
  BY <1>2
<1>4. ASSUME NEW i \in 1..N
      PROVE  size(i - 1) <= size(i)
  <2>1. real[i - 1] \in Seq(NoLabels(T)) /\ size(i - 1) \in Nat
    BY <1>1, <1>2
  <2>2. real[i] = real[i - 1] \/ real[i] = Append(real[i - 1], code[i])
    BY DEF IsReal
  <2> DEFINE before == real[i - 1]
  <2>3. Len(Append(before, code[i])) = Len(before) + 1
    BY <2>1
  <2> QED
    BY <2>1, <2>2, <2>3
<1> DEFINE Growing == {i \in Nat : k + i <= N => size(k) <= size(k + i)}
<1> HIDE DEF N, size
<1>5. k \in 1..N /\ k \in 0..N
  BY <1>1 DEF N
<1>6. 0 \in Growing
  <2>1. k + 0 = k /\ size(k) \in Nat
    BY <1>3, <1>5
  <2> QED
    BY <2>1
<1>7. ASSUME NEW i \in Nat, i \in Growing
      PROVE  i + 1 \in Growing
  <2> SUFFICES ASSUME k + (i + 1) <= N
               PROVE  size(k) <= size(k + (i + 1))
    OBVIOUS
  <2>1. k + i <= N /\ k + (i + 1) \in 1..N /\ (k + (i + 1)) - 1 = k + i /\ k + i \in 0..N /\ k + (i + 1) \in 0..N
    BY <1>1, <1>5
  <2>2. size(k) <= size(k + i)
    BY <1>7, <2>1
  <2>3. size(k + i) <= size(k + (i + 1))
    BY <1>4, <2>1
  <2>4. size(k) \in Nat /\ size(k + i) \in Nat /\ size(k + (i + 1)) \in Nat
    BY <1>3, <1>5, <2>1
  <2> QED
    BY <2>2, <2>3, <2>4
<1> HIDE DEF Growing
<1>8. Nat \subseteq Growing
  BY <1>6, <1>7, SetInduction
<1>9. N - k \in Nat /\ k + (N - k) = N
  BY <1>1, <1>5
<1>10. N - k \in Growing
  BY <1>8, <1>9
<1>11. size(k) <= size(N)
  BY <1>1, <1>9, <1>10 DEF Growing
<1> QED
  BY <1>3, <1>5, <1>11 DEF size, N

(* Linked code: no label is left, and every jump is to one of its           *)
(* instructions, to the one behind the last, or out (0)                     *)
IsLinked(code, n) ==
  /\ Takes(code, n, Nat, {})
  /\ \A k \in 1..Len(code) : code[k].op # "label" /\ code[k].to \in 0..Len(code) + 1

(* What is linked takes no more than the code it is made of, for every     *)
(* jump finds its label there.                                             *)
LEMMA LinkedIs ==
  ASSUME NEW code, NEW n \in Nat, NEW T, Takes(code, n, T, T)
  PROVE  IsLinked(Code!Linked(code), n)
<1> DEFINE N == Len(code)
           real == RealOf(code)
           all == real[N]
           Labelled(name) == CHOOSE k \in DOMAIN code : code[k].op = "label" /\ code[k].to = name
           Target(h) == IF h.to \in {Code!NoJump, Code!Out} THEN 0 ELSE Len(real[Labelled(h.to)]) + 1
           linked == [k \in DOMAIN all |-> [all[k] EXCEPT !.to = Target(all[k])]]
<1>1. Code!Linked(code) = linked
  BY Zenon DEF Code!Linked, RealOf
<1>2. N \in Nat /\ code \in Seq(HostInstr)
  BY TakesIsCode
<1>3. IsReal(real, code, T)
  BY RealIs
<1>4. Takes(all, n, T, {})
  BY <1>3, RealTakes
<1>5. all \in Seq(NoLabels(T))
  BY <1>2, <1>3 DEF IsReal
<1> DEFINE M == Len(all)
<1>6. M \in Nat /\ DOMAIN all = 1..M /\ \A k \in 1..M : all[k] \in NoLabels(T)
  <2> HIDE DEF all
  <2> QED
    BY <1>5
<1>7. ASSUME NEW k \in 1..N
      PROVE  Len(real[k]) \in Nat /\ Len(real[k]) <= M
  <2> HIDE DEF real
  <2> QED
    BY <1>3, RealGrows
<1>8. ASSUME NEW name \in T
      PROVE  Labelled(name) \in 1..N
  <2>1. DOMAIN code = 1..N
    BY <1>2
  <2>2. \E k \in 1..N : code[k].op = "label" /\ code[k].to = name
    BY DEF Takes, IsLabel
  <2> QED
    BY <2>1, <2>2
<1> HIDE DEF Labelled, real, N, M
<1>9. ASSUME NEW k \in 1..M
      PROVE  Target(all[k]) \in 0..M + 1
  <2> DEFINE h == all[k]
  <2>1. h.to \in T \cup Outside
    BY <1>6 DEF NoLabels
  <2> HIDE DEF h
  <2>2. CASE h.to \in {Code!NoJump, Code!Out}
    BY <1>6, <2>2 DEF h
  <2>3. CASE h.to \notin {Code!NoJump, Code!Out}
    <3>1. h.to \in T
      BY <2>1, <2>3 DEF Outside, Code!NoJump, Code!Out
    <3>2. Labelled(h.to) \in 1..N
      BY <1>8, <3>1
    <3>3. Len(real[Labelled(h.to)]) \in Nat /\ Len(real[Labelled(h.to)]) <= M
      BY <1>7, <3>2
    <3>4. Target(h) = Len(real[Labelled(h.to)]) + 1
      BY <2>3
    <3> HIDE DEF Target
    <3> QED
      BY <1>6, <3>3, <3>4 DEF h
  <2> QED
    BY <2>2, <2>3
<1> HIDE DEF Target, all
<1>10. ASSUME NEW k \in 1..M
       PROVE  linked[k] \in HostInstr /\ linked[k].op = all[k].op /\ linked[k].to = Target(all[k])
  <2> DEFINE h == all[k]
             to == Target(h)
  <2>1. linked[k] = [h EXCEPT !.to = to]
    BY <1>6
  <2>2. h \in HostInstr
    BY <1>6 DEF NoLabels
  <2>3. to \in Places
    <3>1. to \in Nat
      BY <1>6, <1>9
    <3> QED
      BY <3>1 DEF Places
  <2> HIDE DEF linked, h, to
  <2>4. [h EXCEPT !.to = to] \in HostInstr /\ [h EXCEPT !.to = to].op = h.op /\ [h EXCEPT !.to = to].to = to
    BY <2>2, <2>3 DEF HostInstr
  <2> QED
    BY <2>1, <2>4 DEF h, to
<1>11. linked \in Seq(HostInstr) /\ Len(linked) = M
  <2>1. linked = [k \in 1..M |-> linked[k]]
    BY <1>6
  <2> HIDE DEF linked
  <2> QED
    BY <1>6, <1>10, <2>1
<1> HIDE DEF linked
<1>12. PICK f : Budget(f, all, n)
  BY <1>4 DEF Takes
<1>13. Budget(f, linked, n)
  BY <1>10, <1>11, <1>12 DEF Budget, M
<1>14. \A k \in 1..Len(linked) : linked[k].op # "label" /\ linked[k].to \in 0..M + 1
  BY <1>6, <1>9, <1>10, <1>11 DEF NoLabels
<1>15. \A k \in 1..Len(linked) : linked[k].to \in Nat \cup Outside
  BY <1>6, <1>14
<1>16. Takes(linked, n, Nat, {})
  BY <1>11, <1>13, <1>15 DEF Takes
<1>17. IsLinked(linked, n)
  BY <1>11, <1>14, <1>16 DEF IsLinked
<1> QED
  BY <1>1, <1>17

(* Where each instruction ends, as Assembled counts *)
EndsOf(code) ==
  CHOOSE ends : ends = [k \in 0..Len(code) |-> IF k = 0 THEN 0 ELSE ends[k - 1] + Len(Code!Bytes(code[k], 0))]

(* The count that Assembled makes, up to the last instruction *)
LEMMA EndsAre ==
  ASSUME NEW code, NEW n \in Nat, IsLinked(code, n)
  PROVE  EndsOf(code) \in [0..Len(code) -> Nat]
<1> DEFINE N == Len(code)
           step == [k \in 1..N |-> [v \in Nat |-> v + Len(Code!Bytes(code[k], 0))]]
           Is(f) == f = [k \in 0..N |-> IF k = 0 THEN 0 ELSE f[k - 1] + Len(Code!Bytes(code[k], 0))]
<1>1. N \in Nat /\ code \in Seq(HostInstr)
  BY TakesIsCode DEF IsLinked
<1>2. ASSUME NEW k \in 1..N
      PROVE  Len(Code!Bytes(code[k], 0)) \in Nat
  <2>1. code[k] \in HostInstr
    BY <1>1
  <2>2. code[k].op # "label"
    BY DEF IsLinked
  <2> DEFINE h == code[k]
             bytes == Code!Bytes(h, 0)
  <2>3. 0 \in Int
    OBVIOUS
  <2>4. Short(bytes, Most(h.op))
    <3> HIDE DEF h
    <3>1. h \in HostInstr /\ h.op # "label"
      BY <2>1, <2>2 DEF h
    <3> QED
      BY <2>3, <3>1, BytesShort
  <2> HIDE DEF bytes
  <2>5. bytes \in Seq(Byte)
    BY <2>4 DEF Short
  <2>6. Len(bytes) \in Nat
    BY <2>5
  <2> QED
    BY <2>6 DEF bytes
<1>3. step \in [1..N -> [Nat -> Nat]]
  <2> SUFFICES ASSUME NEW k \in 1..N, NEW v \in Nat
               PROVE  v + Len(Code!Bytes(code[k], 0)) \in Nat
    OBVIOUS
  <2>1. Len(Code!Bytes(code[k], 0)) \in Nat
    BY <1>2
  <2> DEFINE size == Len(Code!Bytes(code[k], 0))
  <2> HIDE DEF size
  <2>2. v + size \in Nat
    BY <2>1 DEF size
  <2> QED
    BY <2>2 DEF size
<1>4. \A k \in 1..N, v \in Nat : step[k][v] = v + Len(Code!Bytes(code[k], 0))
  OBVIOUS
<1> HIDE DEF step, N
<1>5. PICK f \in [0..N -> Nat] : f[0] = 0 /\ \A k \in 1..N : f[k] = step[k][f[k - 1]]
  <2> DEFINE S == Nat
             c == 0
  <2>1. c \in S /\ step \in [1..N -> [S -> S]]
    BY <1>3
  <2> HIDE DEF S, c
  <2>2. N \in Nat
    BY <1>1
  <2>3. \E f \in [0..N -> S] : f[0] = c /\ \A k \in 1..N : f[k] = step[k][f[k - 1]]
    BY <2>1, <2>2, RecursionUpTo
  <2> QED
    BY <2>3 DEF S, c
<1>6. Is(f)
  <2>1. f = [k \in 0..N |-> f[k]]
    BY <1>5
  <2>2. ASSUME NEW k \in 0..N, k # 0
        PROVE  f[k] = f[k - 1] + Len(Code!Bytes(code[k], 0))
    <3>1. k \in 1..N /\ f[k - 1] \in Nat
      BY <1>1, <2>2
    <3> QED
      BY <1>4, <1>5, <3>1
  <2>3. \A k \in 0..N : f[k] = IF k = 0 THEN 0 ELSE f[k - 1] + Len(Code!Bytes(code[k], 0))
    BY <1>5, <2>2
  <2> QED
    BY <2>1, <2>3, Zenon
<1>7. Is(EndsOf(code))
  <2> DEFINE h == CHOOSE g : Is(g)
  <2>1. EndsOf(code) = h
    BY Zenon DEF EndsOf, N
  <2> HIDE DEF Is
  <2> QED
    BY <1>6, <2>1, Zenon
<1> DEFINE r == EndsOf(code)
           size(k) == Len(Code!Bytes(code[k], 0))
<1> HIDE DEF r
<1>8. r = [k \in 0..N |-> IF k = 0 THEN 0 ELSE r[k - 1] + size(k)]
  BY <1>7, Zenon DEF r
<1>9. \A k \in 1..N : size(k) \in Nat
  BY <1>2
<1> HIDE DEF size
<1>10. r[0] = 0 /\ \A k \in 1..N : r[k] = r[k - 1] + size(k)
  <2>1. \A k \in 0..N : r[k] = IF k = 0 THEN 0 ELSE r[k - 1] + size(k)
    BY <1>8, Zenon
  <2>2. 0 \in 0..N /\ \A k \in 1..N : k \in 0..N /\ k # 0
    BY <1>1
  <2> QED
    BY <2>1, <2>2, Zenon
<1>11. \A k \in 0..N : r[k] \in Nat
  <2> DEFINE Typed == {k \in Nat : k <= N => r[k] \in Nat}
  <2>1. 0 \in Typed
    BY <1>10
  <2>2. ASSUME NEW k \in Nat, k \in Typed
        PROVE  k + 1 \in Typed
    <3> SUFFICES ASSUME k + 1 <= N
                 PROVE  r[k + 1] \in Nat
      OBVIOUS
    <3>1. k <= N /\ k + 1 \in 1..N /\ (k + 1) - 1 = k
      BY <1>1
    <3>2. r[k] \in Nat /\ size(k + 1) \in Nat
      BY <1>9, <2>2, <3>1
    <3>3. r[k + 1] = r[k] + size(k + 1)
      BY <1>10, <3>1
    <3> QED
      BY <3>2, <3>3
  <2> HIDE DEF Typed
  <2>3. Nat \subseteq Typed
    BY <2>1, <2>2, SetInduction
  <2>4. \A k \in 0..N : k \in Nat /\ k <= N
    BY <1>1
  <2> QED
    BY <2>3, <2>4 DEF Typed
<1>12. r \in [0..N -> Nat]
  <2>1. DOMAIN r = 0..N
    BY <1>8
  <2>2. r = [k \in DOMAIN r |-> r[k]]
    BY <1>8
  <2> QED
    BY <1>11, <2>1, <2>2
<1> QED
  BY <1>12 DEF r, N

(* The bytes are put in a row as the community module does it. *)
LEMMA SameFlatten ==
  ASSUME NEW ss
  PROVE  Code!FlattenSeq(ss) = FlattenSeq(ss)
BY Zenon DEF Code!FlattenSeq, FlattenSeq

(* The bytes of a linked piece of code are not more than it takes *)
LEMMA AssembledFits ==
  ASSUME NEW code, NEW n \in Nat, IsLinked(code, n)
  PROVE  Short(Code!Assembled(code), n)
<1> DEFINE N == Len(code)
           ends == EndsOf(code)
           rel(k) == Code!Displacement(ends, k, code[k].to)
           pieces == [k \in DOMAIN code |-> Code!Bytes(code[k], rel(k))]
           flat == FlattenSeq(pieces)
<1>1. Code!Assembled(code) = flat
  <2>1. Code!Assembled(code) = Code!FlattenSeq(pieces)
    BY Zenon DEF Code!Assembled, EndsOf
  <2> QED
    BY <2>1, SameFlatten, Zenon
<1>2. N \in Nat /\ code \in Seq(HostInstr) /\ DOMAIN code = 1..N
  <2>1. N \in Nat /\ code \in Seq(HostInstr)
    BY TakesIsCode DEF IsLinked
  <2> QED
    BY <2>1
<1>3. ends \in [0..N -> Nat]
  BY EndsAre
<1>4. PICK f : Budget(f, code, n)
  BY DEF IsLinked, Takes
<1>5. f \in [0..N -> Nat] /\ f[0] = 0 /\ f[N] <= n /\ \A k \in 1..N : f[k - 1] + Most(code[k].op) <= f[k]
  BY <1>4 DEF Budget
<1> HIDE DEF ends
<1>6. ASSUME NEW k \in 1..N
      PROVE  rel(k) \in Int
  <2> DEFINE to == code[k].to
  <2>1. to \in 0..N + 1
    BY DEF IsLinked
  <2> HIDE DEF to, N
  <2>2. CASE to = 0
    <3>1. Code!Displacement(ends, k, to) = 0
      BY <2>2 DEF Code!Displacement
    <3> QED
      BY <3>1 DEF to
  <2>3. CASE to # 0
    <3>1. to - 1 \in 0..N /\ k \in 0..N
      BY <1>2, <2>1, <2>3
    <3>2. ends[to - 1] \in Nat /\ ends[k] \in Nat
      BY <1>3, <3>1
    <3>3. Code!Displacement(ends, k, to) = ends[to - 1] - ends[k]
      BY <2>3 DEF Code!Displacement
    <3>4. Code!Displacement(ends, k, to) \in Int
      BY <3>2, <3>3
    <3> QED
      BY <3>4 DEF to
  <2> QED
    BY <2>2, <2>3
<1> HIDE DEF rel
<1>7. ASSUME NEW k \in 1..N
      PROVE  Short(pieces[k], Most(code[k].op))
  <2> DEFINE h == code[k]
             r == rel(k)
  <2>1. pieces[k] = Code!Bytes(h, r)
    BY <1>2
  <2>2. h \in HostInstr /\ h.op # "label"
    BY <1>2 DEF IsLinked
  <2>3. r \in Int
    BY <1>6
  <2> HIDE DEF h, r, pieces
  <2>4. Short(Code!Bytes(h, r), Most(h.op))
    BY <2>2, <2>3, BytesShort
  <2> QED
    BY <2>1, <2>4 DEF h
<1>8. Len(pieces) = N
  BY <1>2
<1> HIDE DEF pieces
<1>9. CASE N = 0
  <2>1. flat = <<>>
    BY <1>8, <1>9 DEF FlattenSeq
  <2> QED
    BY <1>1, <2>1, ShortNone
<1>10. CASE N # 0
  <2>1. \A k \in 1..N : pieces[k] \in Seq(Byte)
    BY <1>7 DEF Short
  <2>2. PICK g : /\ g[1] = pieces[1] /\ \A k \in 1..N : g[k] \in Seq(Byte)
                 /\ \A k \in 1..N - 1 : g[k + 1] = g[k] \o pieces[k + 1]
                 /\ FlattenSeq(pieces) = g[N]
    <3>1. Len(pieces) \in Nat \ {0}
      BY <1>2, <1>8, <1>10
    <3>2. \A k \in 1..Len(pieces) : pieces[k] \in Seq(Byte)
      BY <1>8, <2>1
    <3> HIDE DEF N
    <3> QED
      BY <1>8, <3>1, <3>2, FlattenIs
  <2> DEFINE Fitting == {k \in Nat : k + 1 <= N => Short(g[k + 1], f[k + 1])}
  <2> HIDE DEF N
  <2>3. \A k \in 1..N : Most(code[k].op) \in Nat
    <3> SUFFICES ASSUME NEW k \in 1..N
                 PROVE  Most(code[k].op) \in Nat
      OBVIOUS
    <3>1. code[k] \in HostInstr
      BY <1>2 DEF N
    <3> QED
      BY <3>1, MostIsNat
  <2>4. 0 \in Fitting
    <3>1. 1 \in 1..N /\ 1 - 1 = 0 /\ 0 + 1 = 1 /\ 1 \in 0..N
      BY <1>2, <1>10
    <3>2. Short(g[1], Most(code[1].op))
      BY <1>7, <2>2, <3>1
    <3>3. f[1] \in Nat /\ 0 + Most(code[1].op) <= f[1]
      BY <1>5, <3>1
    <3>4. Short(g[1], f[1])
      <4> DEFINE most == Most(code[1].op)
                 bytes == g[1]
                 room == f[1]
      <4>1. most \in Nat /\ most <= room /\ room \in Nat
        BY <2>3, <3>1, <3>3
      <4> HIDE DEF most, bytes, room
      <4>2. Short(bytes, most)
        BY <3>2 DEF most, bytes
      <4>3. Short(bytes, room)
        BY <4>1, <4>2, ShortMore
      <4> QED
        BY <4>3 DEF bytes, room
    <3> QED
      BY <3>1, <3>4
  <2>5. ASSUME NEW k \in Nat, k \in Fitting
        PROVE  k + 1 \in Fitting
    <3> SUFFICES ASSUME (k + 1) + 1 <= N
                 PROVE  Short(g[(k + 1) + 1], f[(k + 1) + 1])
      OBVIOUS
    <3> DEFINE i == k + 1
               most == Most(code[i + 1].op)
               bytes == pieces[i + 1]
               before == g[i]
    <3>1. i \in Nat /\ i <= N /\ i \in 1..N - 1 /\ i + 1 \in 1..N /\ (i + 1) - 1 = i /\ i \in 0..N /\ i + 1 \in 0..N
      BY <1>2
    <3>2. Short(before, f[i])
      BY <2>5, <3>1
    <3> HIDE DEF i
    <3>3. Short(bytes, most)
      BY <1>7, <3>1
    <3>4. f[i] \in Nat /\ f[i + 1] \in Nat /\ most \in Nat
      BY <1>5, <2>3, <3>1
    <3>5. f[i] + most <= f[i + 1]
      <4>1. f[(i + 1) - 1] + most <= f[i + 1]
        BY <1>5, <3>1
      <4> QED
        BY <3>1, <4>1
    <3>6. g[i + 1] = before \o bytes
      BY <2>2, <3>1
    <3> DEFINE m == f[i]
               l == f[i + 1]
    <3>7. m \in Nat /\ l \in Nat /\ most \in Nat /\ m + most \in Nat /\ m + most <= l
      BY <3>4, <3>5
    <3>8. Short(before, m)
      BY <3>2
    <3> HIDE DEF most, bytes, before, m, l
    <3>9. Short(before \o bytes, m + most)
      BY <3>3, <3>7, <3>8, ShortBoth
    <3>10. Short(before \o bytes, l)
      BY <3>7, <3>9, ShortMore
    <3> QED
      BY <3>6, <3>10 DEF i, l
  <2> HIDE DEF Fitting
  <2>6. Nat \subseteq Fitting
    BY <2>4, <2>5, SetInduction
  <2>7. N - 1 \in Nat /\ (N - 1) + 1 = N /\ N \in 0..N
    BY <1>2, <1>10
  <2>8. Short(g[N], f[N])
    BY <2>6, <2>7 DEF Fitting
  <2>9. f[N] \in Nat /\ f[N] <= n
    BY <1>5, <2>7 DEF N
  <2> DEFINE m == f[N]
             bytes == g[N]
  <2>10. m \in Nat /\ m <= n /\ Short(bytes, m)
    BY <2>8, <2>9
  <2> HIDE DEF m, bytes
  <2>11. Short(bytes, n)
    BY <2>10, ShortMore
  <2>12. flat = bytes
    BY <2>2 DEF bytes, N
  <2> QED
    BY <1>1, <2>11, <2>12
<1> QED
  BY <1>9, <1>10

(* The bytes that are written for an operation fit the room that is asked  *)
(* for it (X86_GUEST_INSTR_MAX_BYTES for a guest instruction), for every   *)
(* operation, registers, immediate and program.                            *)
THEOREM HostCodeFits ==
  ASSUME NEW o \in Encodable, NEW env \in Environment
  PROVE  Short(Code!Assembled(HostCodeOf(o, env)), Room(o.op))
<1> DEFINE code == Code!CodeOf(o, env)
           linked == Code!Linked(code)
           room == Room(o.op)
<1>1. room \in Nat
  BY DEF Room
<1>2. \E T : Takes(code, room, T, T)
  BY TakesCodeOf
<1> HIDE DEF code, room
<1>3. IsLinked(linked, room)
  BY <1>1, <1>2, LinkedIs
<1> HIDE DEF linked
<1>4. Short(Code!Assembled(linked), room)
  BY <1>1, <1>3, AssembledFits
<1> QED
  BY <1>4, Zenon DEF HostCodeOf, linked, code, room

(* What an instruction is translated to: operations, and not more than n *)
Ops(s, n) == s \in Seq(Operation) /\ Len(s) <= n

(* One operation *)
LEMMA OneOp ==
  ASSUME NEW op \in OpNames, NEW rd \in Guests, NEW rs1 \in Guests, NEW rs2 \in Guests, NEW imm \in Int
  PROVE  Ops(Emit(op, rd, rs1, rs2, imm), 1)
BY DEF Ops, Emit, Operation

(* No operation *)
LEMMA NoOp == Ops(Nothing, 1)
BY DEF Ops, Nothing

(* The operation for an unknown encoding *)
LEMMA InvalidOp == Ops(Invalid, 1)
<1>1. "UD2" \in OpNames
  BY Zenon DEF OpNames, OtherOps
<1>2. Zero \in Guests /\ 0 \in Int
  BY DEF Guests, Zero
<1> QED
  BY <1>1, <1>2, OneOp DEF Invalid

(* An operation that is left out where it has no effect *)
LEMMA UnlessOp ==
  ASSUME NEW cond, NEW s, Ops(s, 1)
  PROVE  Ops(Unless(cond, s), 1)
BY NoOp, Zenon DEF Unless

(* The fields of any word *)
LEMMA Registers ==
  ASSUME NEW i \in Int
  PROVE  /\ RV32(i).rd \in Guests /\ RV32(i).rs1 \in Guests /\ RV32(i).rs2 \in Guests
         /\ RV32(i).funct3 \in 0..7
         /\ RV32(i).shamt \in Int /\ RV32(i).shamt64 \in Int
BY DEF RV32, Field, Guests

(* The fields of any half-word *)
LEMMA CompressedRegisters ==
  ASSUME NEW i \in Int
  PROVE  /\ RVC(i).rd \in Guests /\ RVC(i).rs2 \in Guests /\ RVC(i).rs1p \in Guests /\ RVC(i).rs2p \in Guests
         /\ RVC(i).funct3 \in 0..7 /\ RVC(i).misc \in 0..3 /\ RVC(i).alu \in 0..3
         /\ RVC(i).bit12 \in {0, 1}
BY DEF RVC, Field, Guests, Bit

(* Its immediates *)
LEMMA Immediates ==
  ASSUME NEW i \in Int
  PROVE  /\ Imm32("I", i) \in Int /\ Imm32("S", i) \in Int /\ Imm32("B", i) \in Int /\ Imm32("U", i) \in Int
         /\ ImmJ(i) \in Int
<1> DEFINE s32(m) == Sign(i, 31, m)
<1>1. \A m \in Int : Sign(i, 31, m) \in Int
  BY DEF Sign
<1>2. Bit(i, 7) \in Int /\ Bit(i, 20) \in Int
  BY DEF Bit, Field
<1>3. /\ Field(i, 20, 12) \in Int /\ Field(i, 25, 7) \in Int /\ Field(i, 7, 5) \in Int /\ Field(i, 25, 6) \in Int
      /\ Field(i, 8, 4) \in Int /\ Field(i, 12, 8) \in Int /\ Field(i, 21, 10) \in Int
  BY DEF Field
<1>4. Sign(i, 31, 4096) \in Int /\ Sign(i, 31, 2^20) \in Int
  BY <1>1
<1>5. Imm32("I", i) = Sign(i, 31, 4096) + Field(i, 20, 12)
  BY DEF Imm32
<1>6. Imm32("S", i) = Sign(i, 31, 4096) + Field(i, 25, 7) * 32 + Field(i, 7, 5)
  BY DEF Imm32
<1>7. Imm32("B", i) = Sign(i, 31, 4096) + Bit(i, 7) * 2048 + Field(i, 25, 6) * 32 + Field(i, 8, 4) * 2
  BY DEF Imm32
<1>8. Imm32("U", i) = (i \div 4096) * 4096
  BY DEF Imm32
<1>9. ImmJ(i) \in Int
  BY <1>2, <1>3, <1>4 DEF ImmJ
<1> QED
  BY <1>2, <1>3, <1>4, <1>5, <1>6, <1>7, <1>8, <1>9

(* Its immediates *)
LEMMA CompressedImmediates ==
  ASSUME NEW i \in Int,
         NEW f \in {"CI", "CJ", "CB", "LW", "LD", "LWSP", "LDSP", "SWSP", "SDSP", "ADDI4SPN", "ADDI16SP"}
  PROVE  Imm16(f, i) \in Int
<1>1. \A m \in Int : Sign(i, 12, m) \in Int
  BY DEF Sign
<1>2. /\ Bit(i, 2) \in Int /\ Bit(i, 5) \in Int /\ Bit(i, 6) \in Int /\ Bit(i, 7) \in Int /\ Bit(i, 8) \in Int
      /\ Bit(i, 11) \in Int /\ Bit(i, 12) \in Int
  BY DEF Bit, Field
<1>3. /\ Field(i, 2, 2) \in Int /\ Field(i, 2, 3) \in Int /\ Field(i, 2, 5) \in Int /\ Field(i, 3, 2) \in Int
      /\ Field(i, 3, 3) \in Int /\ Field(i, 4, 3) \in Int /\ Field(i, 5, 2) \in Int
  BY DEF Field
<1>4. /\ Field(i, 7, 2) \in Int /\ Field(i, 7, 3) \in Int /\ Field(i, 7, 4) \in Int /\ Field(i, 9, 2) \in Int
      /\ Field(i, 9, 4) \in Int /\ Field(i, 10, 2) \in Int /\ Field(i, 10, 3) \in Int /\ Field(i, 11, 2) \in Int
  BY DEF Field
<1> QED
  BY <1>1, <1>2, <1>3, <1>4 DEF Imm16

(* The operations that the handlers name *)
LEMMA NamesOfOperations ==
  /\ {"ADD", "SUB", "AND", "OR", "XOR", "ADD_EXT32", "SUB_EXT32"} \subseteq OpNames
  /\ {"ADDI", "ANDI", "ORI", "XORI", "ADDI_EXT32"} \subseteq OpNames
  /\ {"SLL", "SRL", "SRA", "SLL_EXT32", "SRL_EXT32", "SRA_EXT32"} \subseteq OpNames
  /\ {"SLLI", "SRLI", "SRAI", "SLLI_EXT32", "SRLI_EXT32", "SRAI_EXT32"} \subseteq OpNames
  /\ {"SLT", "SLTU", "SLTI", "SLTIU"} \subseteq OpNames
  /\ {"BEQ", "BNE", "BLT", "BGE", "BLTU", "BGEU"} \subseteq OpNames
  /\ {"LOAD8", "LOAD8_U", "LOAD16", "LOAD16_U", "LOAD32", "LOAD32_U", "LOAD64"} \subseteq OpNames
  /\ {"STORE8", "STORE16", "STORE32", "STORE64"} \subseteq OpNames
  /\ {"MUL", "MULH", "MULHSU", "MULHU", "MULW"} \subseteq OpNames
  /\ {"DIV", "DIVU", "REM", "REMU", "DIVW", "DIVUW", "REMW", "REMUW"} \subseteq OpNames
  /\ {"NOP", "MOV", "LI", "BEQZ", "JMP", "JMP_REG", "JALR", "ECALL", "EBREAK", "UD2"} \subseteq OpNames
<1>1. /\ {"MUL", "MULH", "MULHSU", "MULHU", "MULW"} \subseteq Code!MulOps
      /\ {"DIV", "DIVU", "REM", "REMU", "DIVW", "DIVUW", "REMW", "REMUW"} \subseteq Code!DivOps
  BY DEF Code!MulOps, Code!DivOps
<1>2. {"NOP", "MOV", "LI", "BEQZ", "JMP", "JMP_REG", "JALR", "ECALL", "EBREAK", "UD2"} \subseteq OtherOps
  BY DEF OtherOps
<1> QED
  BY <1>1, <1>2, OpTables DEF OpNames, ArithmeticOps

(* The same for every name and the registers that are fixed *)
LEMMA AnyOp ==
  /\ \A op \in OpNames, rd, rs1, rs2 \in Guests, imm \in Int : Ops(Emit(op, rd, rs1, rs2, imm), 1)
  /\ Zero \in Guests /\ Ra \in Guests /\ Sp \in Guests /\ 0 \in Int
<1>1. \A op \in OpNames, rd, rs1, rs2 \in Guests, imm \in Int : Ops(Emit(op, rd, rs1, rs2, imm), 1)
  BY OneOp, Zenon
<1>2. Zero \in Guests /\ Ra \in Guests /\ Sp \in Guests /\ 0 \in Int
  BY DEF Guests, Zero, Ra, Sp
<1> QED
  BY <1>1, <1>2

(* A store is one operation. *)
LEMMA StoreOps ==
  ASSUME NEW i \in Int
  PROVE  Ops(Store(i), 1)
<1> DEFINE f3 == RV32(i).funct3
           table == <<"STORE8", "STORE16", "STORE32", "STORE64", None, None, None, None>>
<1>1. \A k \in 0..7 : Lookup(table, k) # None => Lookup(table, k) \in {"STORE8", "STORE16", "STORE32", "STORE64"}
  BY DEF Lookup, None
<1>2. CASE NotFound(table, f3)
  BY <1>2, InvalidOp, Zenon DEF Store
<1>3. CASE ~NotFound(table, f3)
  <2>1. Lookup(table, f3) \in OpNames
    BY <1>1, <1>3, Registers, NamesOfOperations DEF NotFound
  <2>2. Store(i) = Emit(Lookup(table, f3), Zero, RV32(i).rs1, RV32(i).rs2, Imm32("S", i))
    BY <1>3, Zenon DEF Store
  <2>3. Zero \in Guests /\ RV32(i).rs1 \in Guests /\ RV32(i).rs2 \in Guests /\ Imm32("S", i) \in Int
    BY AnyOp, Registers, Immediates
  <2> HIDE DEF f3, table
  <2> QED
    BY <2>1, <2>2, <2>3, AnyOp
<1> QED
  BY <1>2, <1>3

(* A load is one operation. *)
LEMMA LoadOps ==
  ASSUME NEW i \in Int
  PROVE  Ops(Load(i), 1)
<1> DEFINE f3 == RV32(i).funct3
           table == <<"LOAD8", "LOAD16", "LOAD32", "LOAD64", "LOAD8_U", "LOAD16_U", "LOAD32_U", None>>
<1>1. \A k \in 0..7 : Lookup(table, k) # None =>
        Lookup(table, k) \in {"LOAD8", "LOAD8_U", "LOAD16", "LOAD16_U", "LOAD32", "LOAD32_U", "LOAD64"}
  BY DEF Lookup, None
<1>2. CASE NotFound(table, f3)
  BY <1>2, InvalidOp, Zenon DEF Load
<1>3. CASE ~NotFound(table, f3)
  <2>1. Lookup(table, f3) \in OpNames
    BY <1>1, <1>3, Registers, NamesOfOperations DEF NotFound
  <2>2. Load(i) = Emit(Lookup(table, f3), RV32(i).rd, RV32(i).rs1, Zero, Imm32("I", i))
    BY <1>3, Zenon DEF Load
  <2>3. Zero \in Guests /\ RV32(i).rd \in Guests /\ RV32(i).rs1 \in Guests /\ Imm32("I", i) \in Int
    BY AnyOp, Registers, Immediates
  <2> HIDE DEF f3, table
  <2> QED
    BY <2>1, <2>2, <2>3, AnyOp
<1> QED
  BY <1>2, <1>3

(* An operation with an immediate is one. *)
LEMMA OpImmOps ==
  ASSUME NEW i \in Int
  PROVE  Ops(OpImm(i), 1)
<1> DEFINE f3 == RV32(i).funct3
           table == <<"ADDI", None, "SLTI", "SLTIU", "XORI", None, "ORI", "ANDI">>
           Imm1(op, imm) == Emit(op, RV32(i).rd, RV32(i).rs1, Zero, imm)
<1>1. \A op \in OpNames, imm \in Int : Ops(Imm1(op, imm), 1)
  BY AnyOp, Registers, Zenon
<1>2. \A k \in 0..7 : k \notin {1, 5} =>
        Lookup(table, k) \in {"ADDI", "SLTI", "SLTIU", "XORI", "ORI", "ANDI"}
  BY DEF Lookup, None
<1>3. f3 \notin {1, 5} => Lookup(table, f3) \in OpNames
  BY <1>2, Registers, NamesOfOperations
<1>4. f3 \notin {1, 5} => Ops(Imm1(Lookup(table, f3), Imm32("I", i)), 1)
  BY <1>1, <1>3, Immediates, Zenon
<1>5. Ops(Imm1("SLLI", RV32(i).shamt64), 1) /\ Ops(Imm1("SRLI", RV32(i).shamt64), 1) /\ Ops(Imm1("SRAI", RV32(i).shamt64), 1)
  BY <1>1, NamesOfOperations, Registers
<1> DEFINE other == Imm1(Lookup(table, f3), Imm32("I", i))
           left == Imm1("SLLI", RV32(i).shamt64)
           right == Imm1("SRLI", RV32(i).shamt64)
           arithmetic == Imm1("SRAI", RV32(i).shamt64)
           f6 == RV32(i).funct6
<1>6. OpImm(i) = CASE f3 = 1 -> left
                   [] f3 = 5 /\ f6 = 0 -> right
                   [] f3 = 5 /\ f6 = 16 -> arithmetic
                   [] f3 = 5 /\ f6 \notin {0, 16} -> Invalid
                   [] OTHER -> other
  BY Zenon DEF OpImm
<1>7. f3 \in 0..7
  BY Registers
<1> HIDE DEF other, left, right, arithmetic, f3, f6
<1>8. Ops(left, 1) /\ Ops(right, 1) /\ Ops(arithmetic, 1)
  BY <1>5, Zenon DEF left, right, arithmetic
<1>9. f3 \notin {1, 5} => Ops(other, 1)
  BY <1>4, Zenon DEF other
<1> QED
  BY <1>6, <1>7, <1>8, <1>9, InvalidOp

(* So is one on words. *)
LEMMA OpImm32Ops ==
  ASSUME NEW i \in Int
  PROVE  Ops(OpImm32(i), 1)
<1> DEFINE f3 == RV32(i).funct3
           f7 == RV32(i).funct7
           Imm1(op, imm) == Emit(op, RV32(i).rd, RV32(i).rs1, Zero, imm)
<1>1. \A op \in OpNames, imm \in Int : Ops(Imm1(op, imm), 1)
  BY AnyOp, Registers, Zenon
<1> DEFINE add == Imm1("ADDI_EXT32", Imm32("I", i))
           left == Imm1("SLLI_EXT32", RV32(i).shamt)
           right == Imm1("SRLI_EXT32", RV32(i).shamt)
           arithmetic == Imm1("SRAI_EXT32", RV32(i).shamt)
<1>2. Ops(left, 1) /\ Ops(right, 1) /\ Ops(arithmetic, 1) /\ Ops(add, 1)
  BY <1>1, NamesOfOperations, Registers, Immediates
<1>3. OpImm32(i) = CASE f3 = 0 -> add
                     [] f3 = 1 /\ f7 = 0  -> left
                     [] f3 = 5 /\ f7 = 0  -> right
                     [] f3 = 5 /\ f7 = 32 -> arithmetic
                     [] OTHER -> Invalid
  BY Zenon DEF OpImm32
<1>4. f3 \in 0..7
  BY Registers
<1> HIDE DEF add, left, right, arithmetic, f3, f7
<1> QED
  BY <1>2, <1>3, <1>4, InvalidOp

(* So is one with two registers. *)
LEMMA RegRegOps ==
  ASSUME NEW i \in Int, NEW op \in OpNames
  PROVE  Ops(RegReg(op, i), 1)
<1>1. RV32(i).rd \in Guests /\ RV32(i).rs1 \in Guests /\ RV32(i).rs2 \in Guests /\ 0 \in Int
  BY Registers
<1> QED
  BY <1>1, OneOp, Zenon DEF RegReg

(* So is one of two that funct7 tells apart. *)
LEMMA Funct7Ops ==
  ASSUME NEW i \in Int, NEW base \in OpNames, NEW alt \in OpNames
  PROVE  Ops(Funct7(i, base, alt), 1)
<1>1. Ops(RegReg(base, i), 1) /\ Ops(RegReg(alt, i), 1)
  BY RegRegOps, Zenon
<1> QED
  BY <1>1, InvalidOp DEF Funct7

(* So is a product or a division. *)
LEMMA MulDivOps ==
  ASSUME NEW i \in Int
  PROVE  Ops(OpMulDiv(i), 1) /\ Ops(Op32MulDiv(i), 1)
<1>1. Ops(OpMulDiv(i), 1)
  <2> DEFINE table == <<"MUL", "MULH", "MULHSU", "MULHU", "DIV", "DIVU", "REM", "REMU">>
  <2>1. \A k \in 0..7 :
          Lookup(table, k) \in {"MUL", "MULH", "MULHSU", "MULHU", "DIV", "DIVU", "REM", "REMU"}
    BY DEF Lookup
  <2>2. Lookup(table, RV32(i).funct3) \in OpNames
    BY <2>1, Registers, NamesOfOperations
  <2> QED
    BY <2>2, RegRegOps, Zenon DEF OpMulDiv
<1>2. Ops(Op32MulDiv(i), 1)
  <2> DEFINE table == <<"MULW", None, None, None, "DIVW", "DIVUW", "REMW", "REMUW">>
             f3 == RV32(i).funct3
  <2>1. \A k \in 0..7 :
          Lookup(table, k) # None => Lookup(table, k) \in {"MULW", "DIVW", "DIVUW", "REMW", "REMUW"}
    BY DEF Lookup, None
  <2>2. ~NotFound(table, f3) => Lookup(table, f3) \in OpNames
    BY <2>1, Registers, NamesOfOperations DEF NotFound
  <2>3. Op32MulDiv(i) = IF NotFound(table, f3) THEN Invalid ELSE RegReg(Lookup(table, f3), i)
    BY Zenon DEF Op32MulDiv
  <2> HIDE DEF table, f3
  <2> QED
    BY <2>2, <2>3, RegRegOps, InvalidOp, Zenon
<1> QED
  BY <1>1, <1>2

(* OP is one operation. *)
LEMMA OpOps ==
  ASSUME NEW i \in Int
  PROVE  Ops(Op(i), 1)
<1> DEFINE table == <<None, "SLL", "SLT", "SLTU", "XOR", None, "OR", "AND">>
           f3 == RV32(i).funct3
           f7 == RV32(i).funct7
           muldiv == OpMulDiv(i)
           add == Funct7(i, "ADD", "SUB")
           right == Funct7(i, "SRL", "SRA")
           other == RegReg(Lookup(table, f3), i)
<1>1. \A k \in 0..7 : k \notin {0, 5} => Lookup(table, k) \in {"SLL", "SLT", "SLTU", "XOR", "OR", "AND"}
  BY DEF Lookup
<1>2. f3 \notin {0, 5} => Lookup(table, f3) \in OpNames
  BY <1>1, Registers, NamesOfOperations
<1>3. f3 \notin {0, 5} => Ops(other, 1)
  BY <1>2, RegRegOps, Zenon
<1>4. "ADD" \in OpNames /\ "SUB" \in OpNames /\ "SRL" \in OpNames /\ "SRA" \in OpNames
  BY NamesOfOperations
<1>5. Ops(muldiv, 1) /\ Ops(add, 1) /\ Ops(right, 1)
  BY <1>4, MulDivOps, Funct7Ops, Zenon
<1>6. Op(i) = CASE f7 = 1 -> muldiv
                [] f7 # 1 /\ f3 = 0 -> add
                [] f7 # 1 /\ f3 = 5 -> right
                [] f7 = 0 /\ f3 \notin {0, 5} -> other
                [] OTHER -> Invalid
  BY Zenon DEF Op
<1> HIDE DEF muldiv, add, right, other, f3, f7, table
<1> QED
  BY <1>3, <1>5, <1>6, InvalidOp

(* OP-32 is one operation. *)
LEMMA Op32Ops ==
  ASSUME NEW i \in Int
  PROVE  Ops(Op32(i), 1)
<1> DEFINE f3 == RV32(i).funct3
           f7 == RV32(i).funct7
           muldiv == Op32MulDiv(i)
           add == Funct7(i, "ADD_EXT32", "SUB_EXT32")
           right == Funct7(i, "SRL_EXT32", "SRA_EXT32")
           left == RegReg("SLL_EXT32", i)
<1>1. /\ "ADD_EXT32" \in OpNames /\ "SUB_EXT32" \in OpNames /\ "SRL_EXT32" \in OpNames /\ "SRA_EXT32" \in OpNames
      /\ "SLL_EXT32" \in OpNames
  BY NamesOfOperations
<1>2. Ops(muldiv, 1) /\ Ops(add, 1) /\ Ops(right, 1) /\ Ops(left, 1)
  BY <1>1, MulDivOps, Funct7Ops, RegRegOps, Zenon
<1>3. Op32(i) = CASE f7 = 1 -> muldiv
                  [] f7 # 1 /\ f3 = 0 -> add
                  [] f7 # 1 /\ f3 = 5 -> right
                  [] f7 = 0 /\ f3 = 1 -> left
                  [] OTHER -> Invalid
  BY Zenon DEF Op32
<1> HIDE DEF muldiv, add, right, left, f3, f7
<1> QED
  BY <1>2, <1>3, InvalidOp

(* A branch is one operation. *)
LEMMA BranchOpsFit ==
  ASSUME NEW i \in Int, NEW pc \in Int
  PROVE  Ops(Branch(i, pc), 1)
<1> DEFINE f3 == RV32(i).funct3
           table == <<"BEQ", "BNE", None, None, "BLT", "BGE", "BLTU", "BGEU">>
<1>1. \A k \in 0..7 : Lookup(table, k) # None => Lookup(table, k) \in {"BEQ", "BNE", "BLT", "BGE", "BLTU", "BGEU"}
  BY DEF Lookup, None
<1>2. CASE NotFound(table, f3)
  BY <1>2, InvalidOp, Zenon DEF Branch
<1>3. CASE ~NotFound(table, f3)
  <2>1. Lookup(table, f3) \in OpNames
    BY <1>1, <1>3, Registers, NamesOfOperations DEF NotFound
  <2>2. Branch(i, pc) = Emit(Lookup(table, f3), Zero, RV32(i).rs1, RV32(i).rs2, pc + Imm32("B", i))
    BY <1>3, Zenon DEF Branch
  <2>3. Zero \in Guests /\ RV32(i).rs1 \in Guests /\ RV32(i).rs2 \in Guests /\ pc + Imm32("B", i) \in Int
    BY AnyOp, Registers, Immediates
  <2> HIDE DEF f3, table
  <2> QED
    BY <2>1, <2>2, <2>3, AnyOp
<1> QED
  BY <1>2, <1>3

(* JAL is two, the link and the jump. *)
LEMMA JalOps ==
  ASSUME NEW i \in Int, NEW pc \in Int
  PROVE  Ops(Jal(i, pc), 2)
<1> DEFINE link == Emit("LI", RV32(i).rd, Zero, Zero, pc + 4)
           jump == Emit("JMP", Zero, Zero, Zero, pc + ImmJ(i))
<1>1. "LI" \in OpNames /\ "JMP" \in OpNames
  BY NamesOfOperations
<1>2. Zero \in Guests /\ RV32(i).rd \in Guests /\ pc + 4 \in Int /\ pc + ImmJ(i) \in Int
  BY AnyOp, Registers, Immediates
<1>3. Ops(link, 1) /\ Ops(jump, 1)
  BY <1>1, <1>2, OneOp, Zenon
<1>4. Jal(i, pc) = link \o jump
  BY Zenon DEF Jal
<1> HIDE DEF link, jump
<1>5. link \o jump \in Seq(Operation) /\ Len(link \o jump) <= 2
  BY <1>3 DEF Ops
<1> QED
  BY <1>4, <1>5, Zenon DEF Ops

(* The other wide instructions are one operation each. *)
LEMMA OtherWideOps ==
  ASSUME NEW i \in Int, NEW pc \in Int
  PROVE  /\ Ops(Jalr(i), 1) /\ Ops(MiscMem(i), 1) /\ Ops(Lui(i), 1) /\ Ops(Auipc(i, pc), 1)
         /\ Ops(System(i), 1)
<1>1. "JALR" \in OpNames /\ "NOP" \in OpNames /\ "LI" \in OpNames /\ "ECALL" \in OpNames /\ "EBREAK" \in OpNames
  BY NamesOfOperations
<1>2. /\ Zero \in Guests /\ RV32(i).rd \in Guests /\ RV32(i).rs1 \in Guests /\ 0 \in Int
      /\ Imm32("I", i) \in Int /\ Imm32("U", i) \in Int /\ pc + Imm32("U", i) \in Int
  BY AnyOp, Registers, Immediates
<1>3. Ops(Jalr(i), 1)
  BY <1>1, <1>2, OneOp, Zenon DEF Jalr
<1>4. Ops(MiscMem(i), 1)
  BY <1>1, <1>2, OneOp, Zenon DEF MiscMem
<1>5. Ops(Lui(i), 1)
  BY <1>1, <1>2, OneOp, Zenon DEF Lui
<1>6. Ops(Auipc(i, pc), 1)
  BY <1>1, <1>2, OneOp, Zenon DEF Auipc
<1>7. Ops(Emit("ECALL", Zero, Zero, Zero, 0), 1) /\ Ops(Emit("EBREAK", Zero, Zero, Zero, 0), 1)
  BY <1>1, <1>2, OneOp, Zenon
<1>8. Ops(System(i), 1)
  BY <1>7, InvalidOp DEF System
<1> QED
  BY <1>3, <1>4, <1>5, <1>6, <1>8

(* A wide instruction is at most two operations. *)
LEMMA WideOps ==
  ASSUME NEW i \in Int, NEW pc \in Int
  PROVE  Ops(TranslateRv32(i, pc), 2)
<1> DEFINE opcode == RV32(i).opcode
<1>1. \A s : Ops(s, 1) => Ops(s, 2)
  BY DEF Ops
<1>2. /\ Ops(Load(i), 1) /\ Ops(MiscMem(i), 1) /\ Ops(OpImm(i), 1) /\ Ops(Auipc(i, pc), 1) /\ Ops(OpImm32(i), 1)
      /\ Ops(Store(i), 1) /\ Ops(Op(i), 1) /\ Ops(Lui(i), 1) /\ Ops(Op32(i), 1) /\ Ops(Branch(i, pc), 1)
      /\ Ops(Jalr(i), 1) /\ Ops(Jal(i, pc), 2) /\ Ops(System(i), 1) /\ Ops(Invalid, 1)
  BY LoadOps, OtherWideOps, OpImmOps, OpImm32Ops, StoreOps, OpOps, Op32Ops, BranchOpsFit, JalOps, InvalidOp
<1>3. /\ Ops(Load(i), 2) /\ Ops(MiscMem(i), 2) /\ Ops(OpImm(i), 2) /\ Ops(Auipc(i, pc), 2) /\ Ops(OpImm32(i), 2)
      /\ Ops(Store(i), 2) /\ Ops(Op(i), 2) /\ Ops(Lui(i), 2) /\ Ops(Op32(i), 2) /\ Ops(Branch(i, pc), 2)
      /\ Ops(Jalr(i), 2) /\ Ops(Jal(i, pc), 2) /\ Ops(System(i), 2) /\ Ops(Invalid, 2)
  BY <1>1, <1>2, Zenon
<1> QED
  BY <1>3 DEF TranslateRv32

(* A step of the compressed instructions: an operation with an immediate *)
LEMMA ImmOps ==
  ASSUME NEW op \in OpNames, NEW rd \in Guests, NEW rs1 \in Guests, NEW imm \in Int
  PROVE  Ops(Imm(op, rd, rs1, imm), 1)
<1>1. Zero \in Guests
  BY AnyOp
<1> QED
  BY <1>1, OneOp, Zenon DEF Imm

(* All immediates of a half-word *)
LEMMA SpImmediates ==
  ASSUME NEW i \in Int
  PROVE  /\ Imm16("CI", i) \in Int /\ Imm16("CJ", i) \in Int /\ Imm16("CB", i) \in Int /\ Imm16("LW", i) \in Int
         /\ Imm16("LD", i) \in Int /\ Imm16("LWSP", i) \in Int /\ Imm16("LDSP", i) \in Int
         /\ Imm16("SWSP", i) \in Int /\ Imm16("SDSP", i) \in Int /\ Imm16("ADDI4SPN", i) \in Int
         /\ Imm16("ADDI16SP", i) \in Int
BY CompressedImmediates

(* The first quadrant *)
LEMMA QuadrantZeroOps ==
  ASSUME NEW i \in Int
  PROVE  /\ Ops(Addi4spn(i), 1)
         /\ RVC(i).funct3 \in {2, 3, 6, 7} => Ops(LoadStoreP(i), 1)
<1> DEFINE r == RVC(i)
<1>1. /\ "ADDI" \in OpNames /\ "LOAD32" \in OpNames /\ "LOAD64" \in OpNames /\ "STORE32" \in OpNames
      /\ "STORE64" \in OpNames
  BY NamesOfOperations
<1>2. Zero \in Guests /\ Sp \in Guests /\ r.rs1p \in Guests /\ r.rs2p \in Guests
  BY AnyOp, CompressedRegisters
<1>3. Imm16("ADDI4SPN", i) \in Int /\ Imm16("LW", i) \in Int /\ Imm16("LD", i) \in Int
  BY SpImmediates
<1>4. Ops(Imm("ADDI", r.rs2p, Sp, Imm16("ADDI4SPN", i)), 1)
  BY <1>1, <1>2, <1>3, ImmOps, Zenon
<1>5. Ops(Addi4spn(i), 1)
  BY <1>4, UnlessOp, Zenon DEF Addi4spn
<1> DEFINE load32 == Imm("LOAD32", r.rs2p, r.rs1p, Imm16("LW", i))
           load64 == Imm("LOAD64", r.rs2p, r.rs1p, Imm16("LD", i))
           store32 == Emit("STORE32", Zero, r.rs1p, r.rs2p, Imm16("LW", i))
           store64 == Emit("STORE64", Zero, r.rs1p, r.rs2p, Imm16("LD", i))
           f3 == r.funct3
<1>6. Ops(load32, 1) /\ Ops(load64, 1)
  BY <1>1, <1>2, <1>3, ImmOps, Zenon
<1>7. Ops(store32, 1) /\ Ops(store64, 1)
  BY <1>1, <1>2, <1>3, OneOp, Zenon
<1>8. LoadStoreP(i) = CASE f3 = 2 -> load32 [] f3 = 3 -> load64 [] f3 = 6 -> store32 [] f3 = 7 -> store64
  BY Zenon DEF LoadStoreP
<1> HIDE DEF load32, load64, store32, store64
<1>9. f3 \in {2, 3, 6, 7} => Ops(LoadStoreP(i), 1)
  BY <1>6, <1>7, <1>8
<1> QED
  BY <1>5, <1>9

(* The second *)
LEMMA QuadrantOneOps ==
  ASSUME NEW i \in Int, NEW pc \in Int
  PROVE  /\ Ops(AddiAddiw(i), 1) /\ Ops(Li(i), 1) /\ Ops(LuiAddi16sp(i), 1)
         /\ RVC(i).funct3 \in {5, 6, 7} => Ops(RvcJump(i, pc), 1)
<1> DEFINE r == RVC(i)
<1>1. /\ "ADDI" \in OpNames /\ "ADDI_EXT32" \in OpNames /\ "LI" \in OpNames /\ "JMP" \in OpNames
      /\ "BEQZ" \in OpNames /\ "BNE" \in OpNames
  BY NamesOfOperations
<1>2. Zero \in Guests /\ Sp \in Guests /\ r.rs1p \in Guests /\ r.rd \in Guests
  BY AnyOp, CompressedRegisters
<1> DEFINE upper == Imm16("CI", i) * 4096
<1>3. /\ Imm16("CI", i) \in Int /\ Imm16("ADDI16SP", i) \in Int
      /\ pc + Imm16("CJ", i) \in Int /\ pc + Imm16("CB", i) \in Int
  BY SpImmediates
<1>10. upper \in Int
  BY <1>3
<1>11. LuiAddi16sp(i) = IF r.rd = Sp THEN Imm("ADDI", Sp, Sp, Imm16("ADDI16SP", i))
                        ELSE Unless(r.rd = Zero, Imm("LI", r.rd, Zero, upper))
  BY DEF LuiAddi16sp
<1> HIDE DEF upper
<1>4. Ops(AddiAddiw(i), 1)
  <2> DEFINE op == IF r.funct3 = 1 THEN "ADDI_EXT32" ELSE "ADDI"
  <2>1. op \in OpNames
    BY <1>1, Zenon
  <2>2. AddiAddiw(i) = Unless(r.rd = Zero, Imm(op, r.rd, r.rd, Imm16("CI", i)))
    BY Zenon DEF AddiAddiw
  <2> HIDE DEF op
  <2>3. Ops(Imm(op, r.rd, r.rd, Imm16("CI", i)), 1)
    BY <1>2, <1>3, <2>1, ImmOps, Zenon
  <2>4. Ops(Unless(r.rd = Zero, Imm(op, r.rd, r.rd, Imm16("CI", i))), 1)
    BY <2>3, UnlessOp, Zenon
  <2> QED
    BY <2>2, <2>4, Zenon
<1>5. Ops(Li(i), 1)
  <2>1. Ops(Imm("LI", r.rd, Zero, Imm16("CI", i)), 1)
    BY <1>1, <1>2, <1>3, ImmOps, Zenon
  <2> QED
    BY <2>1, UnlessOp, Zenon DEF Li
<1>6. Ops(LuiAddi16sp(i), 1)
  <2>1. Ops(Imm("ADDI", Sp, Sp, Imm16("ADDI16SP", i)), 1)
    BY <1>1, <1>2, <1>3, ImmOps, Zenon
  <2>2. Ops(Imm("LI", r.rd, Zero, upper), 1)
    BY <1>1, <1>2, <1>10, ImmOps, Zenon
  <2>3. Ops(Unless(r.rd = Zero, Imm("LI", r.rd, Zero, upper)), 1)
    BY <2>2, UnlessOp, Zenon
  <2> QED
    BY <2>1, <2>3, <1>11, Zenon
<1> DEFINE jump == Imm("JMP", Zero, Zero, pc + Imm16("CJ", i))
           beqz == Imm("BEQZ", Zero, r.rs1p, pc + Imm16("CB", i))
           bnez == Imm("BNE", Zero, r.rs1p, pc + Imm16("CB", i))
           f3 == r.funct3
<1>7. Ops(jump, 1) /\ Ops(beqz, 1) /\ Ops(bnez, 1)
  BY <1>1, <1>2, <1>3, ImmOps, Zenon
<1>8. RvcJump(i, pc) = CASE f3 = 5 -> jump [] f3 = 6 -> beqz [] f3 = 7 -> bnez
  BY Zenon DEF RvcJump
<1> HIDE DEF jump, beqz, bnez
<1>9. f3 \in {5, 6, 7} => Ops(RvcJump(i, pc), 1)
  BY <1>7, <1>8
<1> QED
  BY <1>4, <1>5, <1>6, <1>9

(* Its arithmetic *)
LEMMA MiscAluOps ==
  ASSUME NEW i \in Int
  PROVE  Ops(MiscAlu(i), 1)
<1> DEFINE r == RVC(i)
           Alu(op) == Emit(op, r.rs1p, r.rs1p, r.rs2p, 0)
           Shift(op) == Unless(RvcShamt(i) = 0, Imm(op, r.rs1p, r.rs1p, RvcShamt(i)))
<1>1. /\ "SRLI" \in OpNames /\ "SRAI" \in OpNames /\ "ANDI" \in OpNames
      /\ {"SUB", "XOR", "OR", "AND", "SUB_EXT32", "ADD_EXT32"} \subseteq OpNames
  BY NamesOfOperations
<1>2. r.rs1p \in Guests /\ r.rs2p \in Guests /\ 0 \in Int /\ Imm16("CI", i) \in Int
  BY CompressedRegisters, SpImmediates
<1>3. RvcShamt(i) \in Int
  <2>1. r.bit12 \in Int /\ Field(i, 2, 5) \in Int
    BY CompressedRegisters DEF Field
  <2> QED
    BY <2>1 DEF RvcShamt
<1>4. \A op \in OpNames : Ops(Shift(op), 1)
  BY <1>2, <1>3, ImmOps, UnlessOp, Zenon
<1>5. \A op \in OpNames : Ops(Alu(op), 1)
  BY <1>2, OneOp, Zenon
<1>6. r.alu \in 0..3
  BY CompressedRegisters
<1> DEFINE op0 == <<"SUB", "XOR", "OR", "AND">>[r.alu + 1]
           op1 == <<"SUB_EXT32", "ADD_EXT32">>[r.alu + 1]
           alu == r.alu
<1>7. op0 \in OpNames
  BY <1>1, <1>6
<1>8. alu \in {0, 1} => op1 \in OpNames
  BY <1>1
<1> DEFINE right == Shift("SRLI")
           arithmetic == Shift("SRAI")
           and == Imm("ANDI", r.rs1p, r.rs1p, Imm16("CI", i))
           alu0 == Alu(op0)
           alu1 == Alu(op1)
           bit12 == r.bit12
           misc == r.misc
<1>9. Ops(right, 1) /\ Ops(arithmetic, 1)
  BY <1>1, <1>4, Zenon
<1>10. Ops(and, 1)
  BY <1>1, <1>2, ImmOps, Zenon
<1>11. Ops(alu0, 1) /\ (alu \in {0, 1} => Ops(alu1, 1))
  <2> HIDE DEF op0, op1, alu
  <2> QED
    BY <1>5, <1>7, <1>8, Zenon
<1>12. MiscAlu(i) = CASE misc = 0 -> right
                      [] misc = 1 -> arithmetic
                      [] misc = 2 -> and
                      [] misc = 3 /\ bit12 = 0 -> alu0
                      [] misc = 3 /\ bit12 = 1 /\ alu \in {0, 1} -> alu1
                      [] OTHER -> Invalid
  BY Zenon DEF MiscAlu
<1> HIDE DEF right, arithmetic, and, alu0, alu1, bit12, misc, alu, op0, op1
<1> QED
  BY <1>9, <1>10, <1>11, <1>12, InvalidOp

(* The third *)
LEMMA QuadrantTwoOps ==
  ASSUME NEW i \in Int, NEW pc \in Int
  PROVE  /\ Ops(Slli(i), 1) /\ Ops(JrMvJalrAdd(i, pc), 1)
         /\ RVC(i).funct3 \in {2, 3, 6, 7} => Ops(LoadStoreSp(i), 1)
<1> DEFINE r == RVC(i)
<1>1. /\ "SLLI" \in OpNames /\ "LOAD32" \in OpNames /\ "LOAD64" \in OpNames /\ "STORE32" \in OpNames
      /\ "STORE64" \in OpNames /\ "JMP_REG" \in OpNames /\ "MOV" \in OpNames /\ "ADD" \in OpNames
  BY NamesOfOperations
<1>2. Zero \in Guests /\ Sp \in Guests /\ r.rd \in Guests /\ r.rs2 \in Guests /\ 0 \in Int
  BY AnyOp, CompressedRegisters
<1>3. /\ Imm16("LWSP", i) \in Int /\ Imm16("LDSP", i) \in Int /\ Imm16("SWSP", i) \in Int
      /\ Imm16("SDSP", i) \in Int /\ Imm16("CI", i) % 64 \in Int
  BY SpImmediates
<1>4. Ops(Slli(i), 1)
  <2>1. Ops(Imm("SLLI", r.rd, r.rd, Imm16("CI", i) % 64), 1)
    BY <1>1, <1>2, <1>3, ImmOps, Zenon
  <2> QED
    BY <2>1, UnlessOp, Zenon DEF Slli
<1> DEFINE load32 == Unless(r.rd = Zero, Imm("LOAD32", r.rd, Sp, Imm16("LWSP", i)))
           load64 == Unless(r.rd = Zero, Imm("LOAD64", r.rd, Sp, Imm16("LDSP", i)))
           store32 == Emit("STORE32", Zero, Sp, r.rs2, Imm16("SWSP", i))
           store64 == Emit("STORE64", Zero, Sp, r.rs2, Imm16("SDSP", i))
           jr == Imm("JMP_REG", Zero, r.rd, 0)
           mv == Unless(r.rd = Zero, Emit("MOV", r.rd, Zero, r.rs2, 0))
           add == Unless(r.rd = Zero \/ r.rs2 = Zero, Emit("ADD", r.rd, r.rd, r.rs2, 0))
           f3 == r.funct3
           bit12 == r.bit12
           rs2 == r.rs2
<1>5. Ops(load32, 1) /\ Ops(load64, 1)
  BY <1>1, <1>2, <1>3, ImmOps, UnlessOp, Zenon
<1>6. Ops(store32, 1) /\ Ops(store64, 1)
  BY <1>1, <1>2, <1>3, OneOp, Zenon
<1>7. Ops(jr, 1)
  BY <1>1, <1>2, ImmOps, Zenon
<1>8. Ops(mv, 1)
  BY <1>1, <1>2, OneOp, UnlessOp, Zenon
<1>9. Ops(add, 1)
  BY <1>1, <1>2, OneOp, UnlessOp, Zenon
<1>10. LoadStoreSp(i) = CASE f3 = 2 -> load32 [] f3 = 3 -> load64 [] f3 = 6 -> store32 [] f3 = 7 -> store64
  BY Zenon DEF LoadStoreSp
<1>11. JrMvJalrAdd(i, pc) = CASE bit12 = 0 /\ rs2 = Zero -> jr [] bit12 = 0 /\ rs2 # Zero -> mv [] bit12 = 1 -> add
  BY Zenon DEF JrMvJalrAdd
<1>12. bit12 \in {0, 1}
  BY CompressedRegisters
<1> HIDE DEF load32, load64, store32, store64, jr, mv, add
<1>13. f3 \in {2, 3, 6, 7} => Ops(LoadStoreSp(i), 1)
  BY <1>5, <1>6, <1>10
<1> HIDE DEF bit12, rs2
<1>14. Ops(JrMvJalrAdd(i, pc), 1)
  BY <1>7, <1>8, <1>9, <1>11, <1>12
<1> QED
  BY <1>4, <1>13, <1>14

(* A compressed instruction is at most one operation. *)
LEMMA CompressedOps ==
  ASSUME NEW i \in Int, NEW pc \in Int
  PROVE  Ops(TranslateRvc(i, pc), 1)
<1> DEFINE op == RVC(i).op
           f3 == RVC(i).funct3
           at == <<op, f3>>
<1>1. /\ Ops(Addi4spn(i), 1) /\ Ops(AddiAddiw(i), 1) /\ Ops(Li(i), 1) /\ Ops(LuiAddi16sp(i), 1)
      /\ Ops(MiscAlu(i), 1) /\ Ops(Slli(i), 1) /\ Ops(JrMvJalrAdd(i, pc), 1) /\ Ops(Invalid, 1)
  BY QuadrantZeroOps, QuadrantOneOps, MiscAluOps, QuadrantTwoOps, InvalidOp
<1>2. /\ f3 \in {2, 3, 6, 7} => Ops(LoadStoreP(i), 1) /\ Ops(LoadStoreSp(i), 1)
      /\ f3 \in {5, 6, 7} => Ops(RvcJump(i, pc), 1)
  BY QuadrantZeroOps, QuadrantOneOps, QuadrantTwoOps
<1>3. RvcHandler(i, pc) =
        CASE at = <<0, 0>> -> Addi4spn(i)
          [] op = 0 /\ f3 \in {2, 3, 6, 7} -> LoadStoreP(i)
          [] op = 1 /\ f3 \in {0, 1} -> AddiAddiw(i)
          [] at = <<1, 2>> -> Li(i)
          [] at = <<1, 3>> -> LuiAddi16sp(i)
          [] at = <<1, 4>> -> MiscAlu(i)
          [] op = 1 /\ f3 \in {5, 6, 7} -> RvcJump(i, pc)
          [] at = <<2, 0>> -> Slli(i)
          [] op = 2 /\ f3 \in {2, 3, 6, 7} -> LoadStoreSp(i)
          [] at = <<2, 4>> -> JrMvJalrAdd(i, pc)
          [] OTHER -> Invalid
  BY Zenon DEF RvcHandler
<1> HIDE DEF at, op, f3
<1>4. Ops(RvcHandler(i, pc), 1)
  BY <1>1, <1>2, <1>3
<1>5. Ops(Emit("EBREAK", Zero, Zero, Zero, 0), 1)
  <2>1. "EBREAK" \in OpNames /\ Zero \in Guests /\ 0 \in Int
    BY NamesOfOperations, AnyOp
  <2> QED
    BY <2>1, OneOp, Zenon
<1> QED
  BY <1>4, <1>5, NoOp DEF TranslateRvc

(* translate_instruction pushes at most one operation for a half-word and  *)
(* at most two for a word, for every encoding.                             *)
THEOREM TranslateOps ==
  ASSUME NEW i \in Int, NEW pc \in Int
  PROVE  Ops(Translate(i, pc), IF IsRvc(i) THEN 1 ELSE 2)
<1>1. Ops(TranslateRvc(i, pc), 1) /\ Ops(TranslateRv32(i, pc), 2)
  BY CompressedOps, WideOps
<1> QED
  BY <1>1, Zenon DEF Translate

(* The inductive invariant: what is decoded, and what is written down *)
DecodedFits == ops = Undecoded \/ Ops(ops, IF IsRvc(instr) THEN 1 ELSE 2)
Written(h) ==
  \/ h = NotYet
  \/ /\ h.op \in Encodable
     /\ Short(h.bytes, Room(h.op.op))
SizeInv == instr \in Int /\ DecodedFits /\ Written(host)

(* The code around the operations is encoded like them. *)
LEMMA AroundIsEncodable ==
  ASSUME NEW o \in Around
  PROVE  o \in Encodable
<1>1. PICK op \in {"FUEL_CHECK", "TRAMPOLINE", "EPILOGUE", "STUB"} : o = Emit(op, Zero, Zero, Zero, 0)[1]
  BY Zenon DEF Around
<1>2. Zero \in Guests /\ 0 \in Int
  BY AnyOp
<1>3. o = [op |-> op, rd |-> Zero, rs1 |-> Zero, rs2 |-> Zero, imm |-> 0]
  BY <1>1 DEF Emit
<1>4. "FUEL_CHECK" \in OpNames
  BY DEF OpNames, OtherOps
<1>5. op \in OpNames \cup {"TRAMPOLINE", "EPILOGUE", "STUB"}
  BY <1>1, <1>4
<1> QED
  BY <1>2, <1>3, <1>5 DEF Encodable

(* Every operation is. *)
LEMMA OperationIsEncodable ==
  ASSUME NEW o \in Operation
  PROVE  o \in Encodable
BY DEF Operation, Encodable

(* Whatever its width, an encoding is an integer. *)
LEMMA EncodingsAreInt == Encodings \subseteq Int
<1>1. HalfwordsOfText \subseteq Int /\ WordsOfText \subseteq Int
  BY SMT DEF HalfwordsOfText, WordsOfText
<1>2. ASSUME NEW i \in Encodings PROVE i \in Int
  <2>1. i \in IF IsRvc(i) THEN HalfwordsOfText ELSE WordsOfText
    BY InstructionAssumption
  <2> QED
    BY <1>1, <2>1, Zenon
<1> QED
  BY <1>2

(* The inductive invariant holds at first *)
LEMMA SizeInvInit == Init => SizeInv
BY EncodingsAreInt DEF Init, SizeInv, DecodedFits, Written

(* Every step preserves it: Decode by TranslateOps, Encode by HostCodeFits. *)
LEMMA SizeInvStep == SizeInv /\ [Next]_vars => SizeInv'
<1> SUFFICES ASSUME SizeInv, [Next]_vars PROVE SizeInv'
  OBVIOUS
<1>1. CASE Decode
  <2>1. ops' = Translate(instr, Pc) /\ instr' = instr /\ host' = host
    BY <1>1, Zenon DEF Decode
  <2>2. instr \in Int /\ Pc \in Int
    BY InstructionAssumption DEF SizeInv
  <2>3. Ops(ops', IF IsRvc(instr) THEN 1 ELSE 2)
    BY <2>1, <2>2, TranslateOps, Zenon
  <2> QED
    BY <2>1, <2>3, Zenon DEF SizeInv, DecodedFits
<1>2. ASSUME ops # Undecoded,
             NEW o \in Around \cup {ops[k] : k \in DOMAIN ops}, NEW env \in Environments, Encode(o, env)
      PROVE  SizeInv'
  <2>1. ops \in Seq(Operation)
    BY <1>2, Zenon DEF SizeInv, DecodedFits, Ops
  <2>2. o \in Encodable
    <3>1. CASE o \in Around
      BY <3>1, AroundIsEncodable, Zenon
    <3>2. ASSUME NEW k \in DOMAIN ops, o = ops[k] PROVE o \in Encodable
      <4>1. o \in Operation
        BY <2>1, <3>2
      <4> QED
        BY <4>1, OperationIsEncodable, Zenon
    <3> QED
      BY <1>2, <3>1, <3>2, Zenon
  <2>3. env \in Environment
    BY <1>2, InstructionAssumption, Zenon
  <2>4. Short(Code!Assembled(HostCodeOf(o, env)), Room(o.op))
    BY <2>2, <2>3, HostCodeFits, Zenon
  <2> DEFINE bytes == Code!Assembled(HostCodeOf(o, env))
  <2>5. host' = [op |-> o, env |-> env, bytes |-> bytes] /\ instr' = instr /\ ops' = ops
    BY <1>2, Zenon DEF Encode
  <2> HIDE DEF bytes
  <2>6. host'.op = o /\ host'.bytes = bytes
    BY <2>5
  <2>7. Short(bytes, Room(o.op))
    BY <2>4, Zenon DEF bytes
  <2>8. Written(host')
    BY <2>2, <2>6, <2>7, Zenon DEF Written
  <2>9. Written(host)'
    BY <2>8, Zenon DEF Written, NotYet, Undecoded
  <2> QED
    BY <2>5, <2>9, Zenon DEF SizeInv, DecodedFits, Undecoded
<1>3. ASSUME UNCHANGED <<instr, ops, host>> PROVE SizeInv'
  <2>1. instr' = instr /\ ops' = ops /\ host' = host
    BY <1>3
  <2> QED
    BY <2>1, Zenon DEF SizeInv, DecodedFits, Written
<1>4. ASSUME NEW o, NEW a, NEW b, NEW p, Execute(o, a, b, p) PROVE SizeInv'
  BY <1>3, <1>4, Zenon DEF Execute
<1>5. CASE UNCHANGED vars
  BY <1>3, <1>5 DEF vars
<1> QED
  BY <1>1, <1>2, <1>4, <1>5, Zenon DEF Next

(* It implies the property. *)
LEMMA SizeInvImplies == SizeInv => FitsTheRoom
<1> SUFFICES ASSUME SizeInv PROVE FitsTheRoom
  OBVIOUS
<1>1. ops # Undecoded => Len(ops) <= IF IsRvc(instr) THEN 1 ELSE 2
  BY Zenon DEF SizeInv, DecodedFits, Ops
<1>2. host # NotYet => Len(host.bytes) <= Room(host.op.op)
  BY DEF SizeInv, Written, Short
<1> QED
  BY <1>1, <1>2, Zenon DEF FitsTheRoom

(* The operations of an instruction fit what the builder has room for, and *)
(* the host code of each fits what is asked of the code buffer, for every  *)
(* encoding, every program and every constant, not only for the samples    *)
(* that are checked.                                                       *)
THEOREM FitsTheRoomHolds == Spec => []FitsTheRoom
<1>1. Init => SizeInv
  BY SizeInvInit
<1>2. SizeInv /\ [Next]_vars => SizeInv'
  BY SizeInvStep
<1>3. SizeInv => FitsTheRoom
  BY SizeInvImplies
<1> QED
  BY <1>1, <1>2, <1>3, PTL DEF Spec

(* The bits of an instruction that follow one another, written after a      *)
(* number: what the manual draws as a run of bits is a field.               *)
a ++ b == 2 * a + b

(* The run of bits that ends in bit 30 *)
LEMMA From30 ==
  ASSUME NEW i \in Int, NEW x \in Int
  PROVE  /\ x ++ Bit(i, 30) ++ Bit(i, 29) ++ Bit(i, 28) ++ Bit(i, 27) ++ Bit(i, 26)
              ++ Bit(i, 25) = 2^6 * x + Field(i, 25, 6)
         /\ x ++ Bit(i, 30) ++ Bit(i, 29) ++ Bit(i, 28) ++ Bit(i, 27) ++ Bit(i, 26) ++ Bit(i, 25)
              ++ Bit(i, 24) ++ Bit(i, 23) ++ Bit(i, 22) ++ Bit(i, 21) = 2^10 * x + Field(i, 21, 10)
         /\ x ++ Bit(i, 30) ++ Bit(i, 29) ++ Bit(i, 28) ++ Bit(i, 27) ++ Bit(i, 26) ++ Bit(i, 25)
              ++ Bit(i, 24) ++ Bit(i, 23) ++ Bit(i, 22) ++ Bit(i, 21)
              ++ Bit(i, 20) = 2^11 * x + Field(i, 20, 11)
         /\ x ++ Bit(i, 30) ++ Bit(i, 29) ++ Bit(i, 28) ++ Bit(i, 27) ++ Bit(i, 26) ++ Bit(i, 25)
              ++ Bit(i, 24) ++ Bit(i, 23) ++ Bit(i, 22) ++ Bit(i, 21) ++ Bit(i, 20) ++ Bit(i, 19)
              ++ Bit(i, 18) ++ Bit(i, 17) ++ Bit(i, 16) ++ Bit(i, 15) ++ Bit(i, 14) ++ Bit(i, 13)
              ++ Bit(i, 12) = 2^19 * x + Field(i, 12, 19)
<1>1. x ++ Bit(i, 30) = 2 * x + Field(i, 30, 1)
  BY SMT DEF Bit, Field, ++
<1>2. (2 * x + Field(i, 30, 1)) ++ Bit(i, 29) = 2^2 * x + Field(i, 29, 2)
  BY SMT DEF Bit, Field, ++
<1>3. (2^2 * x + Field(i, 29, 2)) ++ Bit(i, 28) = 2^3 * x + Field(i, 28, 3)
  BY SMT DEF Bit, Field, ++
<1>4. (2^3 * x + Field(i, 28, 3)) ++ Bit(i, 27) = 2^4 * x + Field(i, 27, 4)
  BY SMT DEF Bit, Field, ++
<1>5. (2^4 * x + Field(i, 27, 4)) ++ Bit(i, 26) = 2^5 * x + Field(i, 26, 5)
  BY SMT DEF Bit, Field, ++
<1>6. (2^5 * x + Field(i, 26, 5)) ++ Bit(i, 25) = 2^6 * x + Field(i, 25, 6)
  BY SMT DEF Bit, Field, ++
<1>7. (2^6 * x + Field(i, 25, 6)) ++ Bit(i, 24) = 2^7 * x + Field(i, 24, 7)
  BY SMT DEF Bit, Field, ++
<1>8. (2^7 * x + Field(i, 24, 7)) ++ Bit(i, 23) = 2^8 * x + Field(i, 23, 8)
  BY SMT DEF Bit, Field, ++
<1>9. (2^8 * x + Field(i, 23, 8)) ++ Bit(i, 22) = 2^9 * x + Field(i, 22, 9)
  BY SMT DEF Bit, Field, ++
<1>10. (2^9 * x + Field(i, 22, 9)) ++ Bit(i, 21) = 2^10 * x + Field(i, 21, 10)
  BY SMT DEF Bit, Field, ++
<1>11. (2^10 * x + Field(i, 21, 10)) ++ Bit(i, 20) = 2^11 * x + Field(i, 20, 11)
  BY SMT DEF Bit, Field, ++
<1>12. (2^11 * x + Field(i, 20, 11)) ++ Bit(i, 19) = 2^12 * x + Field(i, 19, 12)
  BY SMT DEF Bit, Field, ++
<1>13. (2^12 * x + Field(i, 19, 12)) ++ Bit(i, 18) = 2^13 * x + Field(i, 18, 13)
  BY SMT DEF Bit, Field, ++
<1>14. (2^13 * x + Field(i, 18, 13)) ++ Bit(i, 17) = 2^14 * x + Field(i, 17, 14)
  BY SMT DEF Bit, Field, ++
<1>15. (2^14 * x + Field(i, 17, 14)) ++ Bit(i, 16) = 2^15 * x + Field(i, 16, 15)
  BY SMT DEF Bit, Field, ++
<1>16. (2^15 * x + Field(i, 16, 15)) ++ Bit(i, 15) = 2^16 * x + Field(i, 15, 16)
  BY SMT DEF Bit, Field, ++
<1>17. (2^16 * x + Field(i, 15, 16)) ++ Bit(i, 14) = 2^17 * x + Field(i, 14, 17)
  BY SMT DEF Bit, Field, ++
<1>18. (2^17 * x + Field(i, 14, 17)) ++ Bit(i, 13) = 2^18 * x + Field(i, 13, 18)
  BY SMT DEF Bit, Field, ++
<1>19. (2^18 * x + Field(i, 13, 18)) ++ Bit(i, 12) = 2^19 * x + Field(i, 12, 19)
  BY SMT DEF Bit, Field, ++
<1> QED
  BY <1>1, <1>2, <1>3, <1>4, <1>5, <1>6, <1>7, <1>8, <1>9, <1>10, <1>11,
     <1>12, <1>13, <1>14, <1>15, <1>16, <1>17, <1>18, <1>19, Zenon

(* The run of bits that ends in bit 19 *)
LEMMA From19 ==
  ASSUME NEW i \in Int, NEW x \in Int
  PROVE  /\ x ++ Bit(i, 19) ++ Bit(i, 18) ++ Bit(i, 17) ++ Bit(i, 16) ++ Bit(i, 15) ++ Bit(i, 14)
              ++ Bit(i, 13) ++ Bit(i, 12) = 2^8 * x + Field(i, 12, 8)
<1>1. x ++ Bit(i, 19) = 2 * x + Field(i, 19, 1)
  BY SMT DEF Bit, Field, ++
<1>2. (2 * x + Field(i, 19, 1)) ++ Bit(i, 18) = 2^2 * x + Field(i, 18, 2)
  BY SMT DEF Bit, Field, ++
<1>3. (2^2 * x + Field(i, 18, 2)) ++ Bit(i, 17) = 2^3 * x + Field(i, 17, 3)
  BY SMT DEF Bit, Field, ++
<1>4. (2^3 * x + Field(i, 17, 3)) ++ Bit(i, 16) = 2^4 * x + Field(i, 16, 4)
  BY SMT DEF Bit, Field, ++
<1>5. (2^4 * x + Field(i, 16, 4)) ++ Bit(i, 15) = 2^5 * x + Field(i, 15, 5)
  BY SMT DEF Bit, Field, ++
<1>6. (2^5 * x + Field(i, 15, 5)) ++ Bit(i, 14) = 2^6 * x + Field(i, 14, 6)
  BY SMT DEF Bit, Field, ++
<1>7. (2^6 * x + Field(i, 14, 6)) ++ Bit(i, 13) = 2^7 * x + Field(i, 13, 7)
  BY SMT DEF Bit, Field, ++
<1>8. (2^7 * x + Field(i, 13, 7)) ++ Bit(i, 12) = 2^8 * x + Field(i, 12, 8)
  BY SMT DEF Bit, Field, ++
<1> QED
  BY <1>1, <1>2, <1>3, <1>4, <1>5, <1>6, <1>7, <1>8, Zenon

(* The run of bits that ends in bit 12 *)
LEMMA From12 ==
  ASSUME NEW i \in Int, NEW x \in Int
  PROVE  /\ x ++ Bit(i, 12) ++ Bit(i, 11) = 2^2 * x + Field(i, 11, 2)
         /\ x ++ Bit(i, 12) ++ Bit(i, 11) ++ Bit(i, 10) = 2^3 * x + Field(i, 10, 3)
         /\ x ++ Bit(i, 12) ++ Bit(i, 11) ++ Bit(i, 10) ++ Bit(i, 9) = 2^4 * x + Field(i, 9, 4)
<1>1. x ++ Bit(i, 12) = 2 * x + Field(i, 12, 1)
  BY SMT DEF Bit, Field, ++
<1>2. (2 * x + Field(i, 12, 1)) ++ Bit(i, 11) = 2^2 * x + Field(i, 11, 2)
  BY SMT DEF Bit, Field, ++
<1>3. (2^2 * x + Field(i, 11, 2)) ++ Bit(i, 10) = 2^3 * x + Field(i, 10, 3)
  BY SMT DEF Bit, Field, ++
<1>4. (2^3 * x + Field(i, 10, 3)) ++ Bit(i, 9) = 2^4 * x + Field(i, 9, 4)
  BY SMT DEF Bit, Field, ++
<1> QED
  BY <1>1, <1>2, <1>3, <1>4, Zenon

(* The run of bits that ends in bit 11 *)
LEMMA From11 ==
  ASSUME NEW i \in Int, NEW x \in Int
  PROVE  /\ x ++ Bit(i, 11) ++ Bit(i, 10) = 2^2 * x + Field(i, 10, 2)
         /\ x ++ Bit(i, 11) ++ Bit(i, 10) ++ Bit(i, 9) ++ Bit(i, 8) = 2^4 * x + Field(i, 8, 4)
         /\ x ++ Bit(i, 11) ++ Bit(i, 10) ++ Bit(i, 9) ++ Bit(i, 8) ++ Bit(i, 7) = 2^5 * x + Field(i, 7, 5)
<1>1. x ++ Bit(i, 11) = 2 * x + Field(i, 11, 1)
  BY SMT DEF Bit, Field, ++
<1>2. (2 * x + Field(i, 11, 1)) ++ Bit(i, 10) = 2^2 * x + Field(i, 10, 2)
  BY SMT DEF Bit, Field, ++
<1>3. (2^2 * x + Field(i, 10, 2)) ++ Bit(i, 9) = 2^3 * x + Field(i, 9, 3)
  BY SMT DEF Bit, Field, ++
<1>4. (2^3 * x + Field(i, 9, 3)) ++ Bit(i, 8) = 2^4 * x + Field(i, 8, 4)
  BY SMT DEF Bit, Field, ++
<1>5. (2^4 * x + Field(i, 8, 4)) ++ Bit(i, 7) = 2^5 * x + Field(i, 7, 5)
  BY SMT DEF Bit, Field, ++
<1> QED
  BY <1>1, <1>2, <1>3, <1>4, <1>5, Zenon

(* The run of bits that ends in bit 10 *)
LEMMA From10 ==
  ASSUME NEW i \in Int, NEW x \in Int
  PROVE  /\ x ++ Bit(i, 10) ++ Bit(i, 9) = 2^2 * x + Field(i, 9, 2)
         /\ x ++ Bit(i, 10) ++ Bit(i, 9) ++ Bit(i, 8) ++ Bit(i, 7) = 2^4 * x + Field(i, 7, 4)
<1>1. x ++ Bit(i, 10) = 2 * x + Field(i, 10, 1)
  BY SMT DEF Bit, Field, ++
<1>2. (2 * x + Field(i, 10, 1)) ++ Bit(i, 9) = 2^2 * x + Field(i, 9, 2)
  BY SMT DEF Bit, Field, ++
<1>3. (2^2 * x + Field(i, 9, 2)) ++ Bit(i, 8) = 2^3 * x + Field(i, 8, 3)
  BY SMT DEF Bit, Field, ++
<1>4. (2^3 * x + Field(i, 8, 3)) ++ Bit(i, 7) = 2^4 * x + Field(i, 7, 4)
  BY SMT DEF Bit, Field, ++
<1> QED
  BY <1>1, <1>2, <1>3, <1>4, Zenon

(* The run of bits that ends in bit 9 *)
LEMMA From9 ==
  ASSUME NEW i \in Int, NEW x \in Int
  PROVE  /\ x ++ Bit(i, 9) ++ Bit(i, 8) ++ Bit(i, 7) = 2^3 * x + Field(i, 7, 3)
<1>1. x ++ Bit(i, 9) = 2 * x + Field(i, 9, 1)
  BY SMT DEF Bit, Field, ++
<1>2. (2 * x + Field(i, 9, 1)) ++ Bit(i, 8) = 2^2 * x + Field(i, 8, 2)
  BY SMT DEF Bit, Field, ++
<1>3. (2^2 * x + Field(i, 8, 2)) ++ Bit(i, 7) = 2^3 * x + Field(i, 7, 3)
  BY SMT DEF Bit, Field, ++
<1> QED
  BY <1>1, <1>2, <1>3, Zenon

(* The run of bits that ends in bit 8 *)
LEMMA From8 ==
  ASSUME NEW i \in Int, NEW x \in Int
  PROVE  /\ x ++ Bit(i, 8) ++ Bit(i, 7) = 2^2 * x + Field(i, 7, 2)
<1>1. x ++ Bit(i, 8) = 2 * x + Field(i, 8, 1)
  BY SMT DEF Bit, Field, ++
<1>2. (2 * x + Field(i, 8, 1)) ++ Bit(i, 7) = 2^2 * x + Field(i, 7, 2)
  BY SMT DEF Bit, Field, ++
<1> QED
  BY <1>1, <1>2, Zenon

(* The run of bits that ends in bit 6 *)
LEMMA From6 ==
  ASSUME NEW i \in Int, NEW x \in Int
  PROVE  /\ x ++ Bit(i, 6) ++ Bit(i, 5) = 2^2 * x + Field(i, 5, 2)
         /\ x ++ Bit(i, 6) ++ Bit(i, 5) ++ Bit(i, 4) = 2^3 * x + Field(i, 4, 3)
         /\ x ++ Bit(i, 6) ++ Bit(i, 5) ++ Bit(i, 4) ++ Bit(i, 3) ++ Bit(i, 2) = 2^5 * x + Field(i, 2, 5)
<1>1. x ++ Bit(i, 6) = 2 * x + Field(i, 6, 1)
  BY SMT DEF Bit, Field, ++
<1>2. (2 * x + Field(i, 6, 1)) ++ Bit(i, 5) = 2^2 * x + Field(i, 5, 2)
  BY SMT DEF Bit, Field, ++
<1>3. (2^2 * x + Field(i, 5, 2)) ++ Bit(i, 4) = 2^3 * x + Field(i, 4, 3)
  BY SMT DEF Bit, Field, ++
<1>4. (2^3 * x + Field(i, 4, 3)) ++ Bit(i, 3) = 2^4 * x + Field(i, 3, 4)
  BY SMT DEF Bit, Field, ++
<1>5. (2^4 * x + Field(i, 3, 4)) ++ Bit(i, 2) = 2^5 * x + Field(i, 2, 5)
  BY SMT DEF Bit, Field, ++
<1> QED
  BY <1>1, <1>2, <1>3, <1>4, <1>5, Zenon

(* The run of bits that ends in bit 5 *)
LEMMA From5 ==
  ASSUME NEW i \in Int, NEW x \in Int
  PROVE  /\ x ++ Bit(i, 5) ++ Bit(i, 4) ++ Bit(i, 3) = 2^3 * x + Field(i, 3, 3)
<1>1. x ++ Bit(i, 5) = 2 * x + Field(i, 5, 1)
  BY SMT DEF Bit, Field, ++
<1>2. (2 * x + Field(i, 5, 1)) ++ Bit(i, 4) = 2^2 * x + Field(i, 4, 2)
  BY SMT DEF Bit, Field, ++
<1>3. (2^2 * x + Field(i, 4, 2)) ++ Bit(i, 3) = 2^3 * x + Field(i, 3, 3)
  BY SMT DEF Bit, Field, ++
<1> QED
  BY <1>1, <1>2, <1>3, Zenon

(* The run of bits that ends in bit 4 *)
LEMMA From4 ==
  ASSUME NEW i \in Int, NEW x \in Int
  PROVE  /\ x ++ Bit(i, 4) ++ Bit(i, 3) = 2^2 * x + Field(i, 3, 2)
         /\ x ++ Bit(i, 4) ++ Bit(i, 3) ++ Bit(i, 2) = 2^3 * x + Field(i, 2, 3)
<1>1. x ++ Bit(i, 4) = 2 * x + Field(i, 4, 1)
  BY SMT DEF Bit, Field, ++
<1>2. (2 * x + Field(i, 4, 1)) ++ Bit(i, 3) = 2^2 * x + Field(i, 3, 2)
  BY SMT DEF Bit, Field, ++
<1>3. (2^2 * x + Field(i, 3, 2)) ++ Bit(i, 2) = 2^3 * x + Field(i, 2, 3)
  BY SMT DEF Bit, Field, ++
<1> QED
  BY <1>1, <1>2, <1>3, Zenon

(* The run of bits that ends in bit 3 *)
LEMMA From3 ==
  ASSUME NEW i \in Int, NEW x \in Int
  PROVE  /\ x ++ Bit(i, 3) ++ Bit(i, 2) = 2^2 * x + Field(i, 2, 2)
<1>1. x ++ Bit(i, 3) = 2 * x + Field(i, 3, 1)
  BY SMT DEF Bit, Field, ++
<1>2. (2 * x + Field(i, 3, 1)) ++ Bit(i, 2) = 2^2 * x + Field(i, 2, 2)
  BY SMT DEF Bit, Field, ++
<1> QED
  BY <1>1, <1>2, Zenon

(* A run of bits by itself *)
LEMMA RunIs ==
  ASSUME NEW i \in Int
  PROVE  /\ Bit(i, 30) ++ Bit(i, 29) ++ Bit(i, 28) ++ Bit(i, 27) ++ Bit(i, 26)
              ++ Bit(i, 25) = Field(i, 25, 6)
         /\ Bit(i, 30) ++ Bit(i, 29) ++ Bit(i, 28) ++ Bit(i, 27) ++ Bit(i, 26) ++ Bit(i, 25) ++ Bit(i, 24)
              ++ Bit(i, 23) ++ Bit(i, 22) ++ Bit(i, 21) ++ Bit(i, 20) = Field(i, 20, 11)
         /\ Bit(i, 30) ++ Bit(i, 29) ++ Bit(i, 28) ++ Bit(i, 27) ++ Bit(i, 26) ++ Bit(i, 25) ++ Bit(i, 24)
              ++ Bit(i, 23) ++ Bit(i, 22) ++ Bit(i, 21) ++ Bit(i, 20) ++ Bit(i, 19) ++ Bit(i, 18)
              ++ Bit(i, 17) ++ Bit(i, 16) ++ Bit(i, 15) ++ Bit(i, 14) ++ Bit(i, 13)
              ++ Bit(i, 12) = Field(i, 12, 19)
         /\ Bit(i, 19) ++ Bit(i, 18) ++ Bit(i, 17) ++ Bit(i, 16) ++ Bit(i, 15) ++ Bit(i, 14) ++ Bit(i, 13)
              ++ Bit(i, 12) = Field(i, 12, 8)
         /\ Bit(i, 10) ++ Bit(i, 9) ++ Bit(i, 8) ++ Bit(i, 7) = Field(i, 7, 4)
         /\ Bit(i, 9) ++ Bit(i, 8) ++ Bit(i, 7) = Field(i, 7, 3)
         /\ Bit(i, 8) ++ Bit(i, 7) = Field(i, 7, 2)
         /\ Bit(i, 6) ++ Bit(i, 5) = Field(i, 5, 2)
         /\ Bit(i, 6) ++ Bit(i, 5) ++ Bit(i, 4) ++ Bit(i, 3) ++ Bit(i, 2) = Field(i, 2, 5)
         /\ Bit(i, 4) ++ Bit(i, 3) = Field(i, 3, 2)
         /\ Bit(i, 4) ++ Bit(i, 3) ++ Bit(i, 2) = Field(i, 2, 3)
         /\ Bit(i, 3) ++ Bit(i, 2) = Field(i, 2, 2)
<1>1. Bit(i, 30) ++ Bit(i, 29) ++ Bit(i, 28) ++ Bit(i, 27) ++ Bit(i, 26) ++ Bit(i, 25) = Field(i, 25, 6)
  <2>1. 0 ++ Bit(i, 30) = Bit(i, 30)
    BY SMT DEF Bit, Field, ++
  <2>2. 0 ++ Bit(i, 30) ++ Bit(i, 29) ++ Bit(i, 28) ++ Bit(i, 27) ++ Bit(i, 26) ++ Bit(i, 25)
          = 2^6 * 0 + Field(i, 25, 6)
    BY From30
  <2>3. 2^6 * 0 + Field(i, 25, 6) = Field(i, 25, 6)
    BY SMT DEF Field
  <2> QED
    BY <2>1, <2>2, <2>3, Zenon
<1>2. Bit(i, 30) ++ Bit(i, 29) ++ Bit(i, 28) ++ Bit(i, 27) ++ Bit(i, 26) ++ Bit(i, 25) ++ Bit(i, 24)
        ++ Bit(i, 23) ++ Bit(i, 22) ++ Bit(i, 21) ++ Bit(i, 20) = Field(i, 20, 11)
  <2>1. 0 ++ Bit(i, 30) = Bit(i, 30)
    BY SMT DEF Bit, Field, ++
  <2>2. 0 ++ Bit(i, 30) ++ Bit(i, 29) ++ Bit(i, 28) ++ Bit(i, 27) ++ Bit(i, 26) ++ Bit(i, 25) ++ Bit(i, 24)
          ++ Bit(i, 23) ++ Bit(i, 22) ++ Bit(i, 21) ++ Bit(i, 20) = 2^11 * 0 + Field(i, 20, 11)
    BY From30
  <2>3. 2^11 * 0 + Field(i, 20, 11) = Field(i, 20, 11)
    BY SMT DEF Field
  <2> QED
    BY <2>1, <2>2, <2>3, Zenon
<1>3. Bit(i, 30) ++ Bit(i, 29) ++ Bit(i, 28) ++ Bit(i, 27) ++ Bit(i, 26) ++ Bit(i, 25) ++ Bit(i, 24)
        ++ Bit(i, 23) ++ Bit(i, 22) ++ Bit(i, 21) ++ Bit(i, 20) ++ Bit(i, 19) ++ Bit(i, 18) ++ Bit(i, 17)
        ++ Bit(i, 16) ++ Bit(i, 15) ++ Bit(i, 14) ++ Bit(i, 13) ++ Bit(i, 12) = Field(i, 12, 19)
  <2>1. 0 ++ Bit(i, 30) = Bit(i, 30)
    BY SMT DEF Bit, Field, ++
  <2>2. 0 ++ Bit(i, 30) ++ Bit(i, 29) ++ Bit(i, 28) ++ Bit(i, 27) ++ Bit(i, 26) ++ Bit(i, 25) ++ Bit(i, 24)
          ++ Bit(i, 23) ++ Bit(i, 22) ++ Bit(i, 21) ++ Bit(i, 20) ++ Bit(i, 19) ++ Bit(i, 18) ++ Bit(i, 17)
          ++ Bit(i, 16) ++ Bit(i, 15) ++ Bit(i, 14) ++ Bit(i, 13) ++ Bit(i, 12) = 2^19 * 0 + Field(i, 12, 19)
    BY From30
  <2>3. 2^19 * 0 + Field(i, 12, 19) = Field(i, 12, 19)
    BY SMT DEF Field
  <2> QED
    BY <2>1, <2>2, <2>3, Zenon
<1>4. Bit(i, 19) ++ Bit(i, 18) ++ Bit(i, 17) ++ Bit(i, 16) ++ Bit(i, 15) ++ Bit(i, 14) ++ Bit(i, 13)
        ++ Bit(i, 12) = Field(i, 12, 8)
  <2>1. 0 ++ Bit(i, 19) = Bit(i, 19)
    BY SMT DEF Bit, Field, ++
  <2>2. 0 ++ Bit(i, 19) ++ Bit(i, 18) ++ Bit(i, 17) ++ Bit(i, 16) ++ Bit(i, 15) ++ Bit(i, 14) ++ Bit(i, 13)
          ++ Bit(i, 12) = 2^8 * 0 + Field(i, 12, 8)
    BY From19
  <2>3. 2^8 * 0 + Field(i, 12, 8) = Field(i, 12, 8)
    BY SMT DEF Field
  <2> QED
    BY <2>1, <2>2, <2>3, Zenon
<1>5. Bit(i, 10) ++ Bit(i, 9) ++ Bit(i, 8) ++ Bit(i, 7) = Field(i, 7, 4)
  <2>1. 0 ++ Bit(i, 10) = Bit(i, 10)
    BY SMT DEF Bit, Field, ++
  <2>2. 0 ++ Bit(i, 10) ++ Bit(i, 9) ++ Bit(i, 8) ++ Bit(i, 7) = 2^4 * 0 + Field(i, 7, 4)
    BY From10
  <2>3. 2^4 * 0 + Field(i, 7, 4) = Field(i, 7, 4)
    BY SMT DEF Field
  <2> QED
    BY <2>1, <2>2, <2>3, Zenon
<1>6. Bit(i, 9) ++ Bit(i, 8) ++ Bit(i, 7) = Field(i, 7, 3)
  <2>1. 0 ++ Bit(i, 9) = Bit(i, 9)
    BY SMT DEF Bit, Field, ++
  <2>2. 0 ++ Bit(i, 9) ++ Bit(i, 8) ++ Bit(i, 7) = 2^3 * 0 + Field(i, 7, 3)
    BY From9
  <2>3. 2^3 * 0 + Field(i, 7, 3) = Field(i, 7, 3)
    BY SMT DEF Field
  <2> QED
    BY <2>1, <2>2, <2>3, Zenon
<1>7. Bit(i, 8) ++ Bit(i, 7) = Field(i, 7, 2)
  <2>1. 0 ++ Bit(i, 8) = Bit(i, 8)
    BY SMT DEF Bit, Field, ++
  <2>2. 0 ++ Bit(i, 8) ++ Bit(i, 7) = 2^2 * 0 + Field(i, 7, 2)
    BY From8
  <2>3. 2^2 * 0 + Field(i, 7, 2) = Field(i, 7, 2)
    BY SMT DEF Field
  <2> QED
    BY <2>1, <2>2, <2>3, Zenon
<1>8. Bit(i, 6) ++ Bit(i, 5) = Field(i, 5, 2)
  <2>1. 0 ++ Bit(i, 6) = Bit(i, 6)
    BY SMT DEF Bit, Field, ++
  <2>2. 0 ++ Bit(i, 6) ++ Bit(i, 5) = 2^2 * 0 + Field(i, 5, 2)
    BY From6
  <2>3. 2^2 * 0 + Field(i, 5, 2) = Field(i, 5, 2)
    BY SMT DEF Field
  <2> QED
    BY <2>1, <2>2, <2>3, Zenon
<1>9. Bit(i, 6) ++ Bit(i, 5) ++ Bit(i, 4) ++ Bit(i, 3) ++ Bit(i, 2) = Field(i, 2, 5)
  <2>1. 0 ++ Bit(i, 6) = Bit(i, 6)
    BY SMT DEF Bit, Field, ++
  <2>2. 0 ++ Bit(i, 6) ++ Bit(i, 5) ++ Bit(i, 4) ++ Bit(i, 3) ++ Bit(i, 2) = 2^5 * 0 + Field(i, 2, 5)
    BY From6
  <2>3. 2^5 * 0 + Field(i, 2, 5) = Field(i, 2, 5)
    BY SMT DEF Field
  <2> QED
    BY <2>1, <2>2, <2>3, Zenon
<1>10. Bit(i, 4) ++ Bit(i, 3) = Field(i, 3, 2)
  <2>1. 0 ++ Bit(i, 4) = Bit(i, 4)
    BY SMT DEF Bit, Field, ++
  <2>2. 0 ++ Bit(i, 4) ++ Bit(i, 3) = 2^2 * 0 + Field(i, 3, 2)
    BY From4
  <2>3. 2^2 * 0 + Field(i, 3, 2) = Field(i, 3, 2)
    BY SMT DEF Field
  <2> QED
    BY <2>1, <2>2, <2>3, Zenon
<1>11. Bit(i, 4) ++ Bit(i, 3) ++ Bit(i, 2) = Field(i, 2, 3)
  <2>1. 0 ++ Bit(i, 4) = Bit(i, 4)
    BY SMT DEF Bit, Field, ++
  <2>2. 0 ++ Bit(i, 4) ++ Bit(i, 3) ++ Bit(i, 2) = 2^3 * 0 + Field(i, 2, 3)
    BY From4
  <2>3. 2^3 * 0 + Field(i, 2, 3) = Field(i, 2, 3)
    BY SMT DEF Field
  <2> QED
    BY <2>1, <2>2, <2>3, Zenon
<1>12. Bit(i, 3) ++ Bit(i, 2) = Field(i, 2, 2)
  <2>1. 0 ++ Bit(i, 3) = Bit(i, 3)
    BY SMT DEF Bit, Field, ++
  <2>2. 0 ++ Bit(i, 3) ++ Bit(i, 2) = 2^2 * 0 + Field(i, 2, 2)
    BY From3
  <2>3. 2^2 * 0 + Field(i, 2, 2) = Field(i, 2, 2)
    BY SMT DEF Field
  <2> QED
    BY <2>1, <2>2, <2>3, Zenon
<1> QED
  BY <1>1, <1>2, <1>3, <1>4, <1>5, <1>6, <1>7, <1>8, <1>9, <1>10, <1>11, <1>12

(* The signed immediate of an I-type instruction, imm[11:0] *)
LEMMA ImmediateI ==
  ASSUME NEW i \in WordsOfText
  PROVE  Imm32("I", i) = Manual!ImmOfI(i)
<1>0. i \in Int
  BY SMT DEF WordsOfText
<1>1. Manual!ImmOfI(i) =
         (Bit(i, 30) ++ Bit(i, 29) ++ Bit(i, 28) ++ Bit(i, 27) ++ Bit(i, 26) ++ Bit(i, 25)
           ++ Bit(i, 24) ++ Bit(i, 23) ++ Bit(i, 22) ++ Bit(i, 21) ++ Bit(i, 20)) - 2^11 * Bit(i, 31)
  BY DEF Manual!ImmOfI, Manual!++, Manual!IBit, Bit, Field, ++
<1>2. Bit(i, 30) ++ Bit(i, 29) ++ Bit(i, 28) ++ Bit(i, 27) ++ Bit(i, 26) ++ Bit(i, 25) ++ Bit(i, 24)
        ++ Bit(i, 23) ++ Bit(i, 22) ++ Bit(i, 21) ++ Bit(i, 20) = Field(i, 20, 11)
  BY <1>0, RunIs
<1>3. Manual!ImmOfI(i) = Field(i, 20, 11) - 2^11 * Bit(i, 31)
  BY <1>1, <1>2, Zenon
<1>4. Imm32("I", i) = Field(i, 20, 11) - 2^11 * Bit(i, 31)
  <2>1. Imm32("I", i) = (IF Bit(i, 31) = 1 THEN -4096 ELSE 0) + Field(i, 20, 12)
    BY <1>0, SMT DEF Imm32, Sign
  <2>2. Field(i, 20, 12) = Field(i, 20, 11) + 2^11 * Bit(i, 31)
    <3>1. CASE i < 0
      BY <3>1, SMT DEF Bit, Field, WordsOfText
    <3>2. CASE ~(i < 0)
      BY <3>2, SMT DEF Bit, Field, WordsOfText
    <3> QED
      BY <3>1, <3>2
  <2>3. Bit(i, 31) \in 0..1
    BY <1>0, SMT DEF Bit, Field
  <2>4. Field(i, 20, 11) \in Int /\ Field(i, 20, 12) \in Int
    BY <1>0, SMT DEF Field
  <2> QED
    BY <2>1, <2>2, <2>3, <2>4, SMT DEF ++
<1> QED
  BY <1>3, <1>4, Zenon

(* The S-type, imm[11:5] and imm[4:0] *)
LEMMA ImmediateS ==
  ASSUME NEW i \in WordsOfText
  PROVE  Imm32("S", i) = Manual!ImmOfS(i)
<1>0. i \in Int
  BY SMT DEF WordsOfText
<1>1. Manual!ImmOfS(i) =
         (Bit(i, 30) ++ Bit(i, 29) ++ Bit(i, 28) ++ Bit(i, 27) ++ Bit(i, 26) ++ Bit(i, 25)
           ++ Bit(i, 11) ++ Bit(i, 10) ++ Bit(i, 9) ++ Bit(i, 8) ++ Bit(i, 7)) - 2^11 * Bit(i, 31)
  BY DEF Manual!ImmOfS, Manual!++, Manual!IBit, Bit, Field, ++
<1>2. Bit(i, 30) ++ Bit(i, 29) ++ Bit(i, 28) ++ Bit(i, 27) ++ Bit(i, 26) ++ Bit(i, 25) = Field(i, 25, 6)
  BY <1>0, RunIs
<1>3. Field(i, 25, 6) \in Int
  BY <1>0, SMT DEF Bit, Field, ++
<1>4. Field(i, 25, 6) ++ Bit(i, 11) ++ Bit(i, 10) ++ Bit(i, 9) ++ Bit(i, 8) ++ Bit(i, 7)
        = 2^5 * Field(i, 25, 6) + Field(i, 7, 5)
  BY <1>0, <1>3, From11
<1>5. Manual!ImmOfS(i) = (2^5 * Field(i, 25, 6) + Field(i, 7, 5)) - 2^11 * Bit(i, 31)
  BY <1>1, <1>2, <1>4, Zenon
<1>6. Imm32("S", i) = (2^5 * Field(i, 25, 6) + Field(i, 7, 5)) - 2^11 * Bit(i, 31)
  <2>1. Imm32("S", i) = (IF Bit(i, 31) = 1 THEN -4096 ELSE 0) + Field(i, 25, 7) * 32 + Field(i, 7, 5)
    BY <1>0, SMT DEF Imm32, Sign
  <2>2. Field(i, 25, 7) = Field(i, 25, 6) + 2^6 * Bit(i, 31)
    <3>1. CASE i < 0
      BY <3>1, SMT DEF Bit, Field, WordsOfText
    <3>2. CASE ~(i < 0)
      BY <3>2, SMT DEF Bit, Field, WordsOfText
    <3> QED
      BY <3>1, <3>2
  <2>3. Bit(i, 31) \in 0..1
    BY <1>0, SMT DEF Bit, Field
  <2>4. Field(i, 25, 6) \in Int /\ Field(i, 25, 7) \in Int /\ Field(i, 7, 5) \in Int
    BY <1>0, SMT DEF Field
  <2> QED
    BY <2>1, <2>2, <2>3, <2>4, SMT DEF ++
<1> QED
  BY <1>5, <1>6, Zenon

(* The B-type, imm[12|10:5] and imm[4:1|11] *)
LEMMA ImmediateB ==
  ASSUME NEW i \in WordsOfText
  PROVE  Imm32("B", i) = Manual!ImmOfB(i)
<1> DEFINE u == 2^6 * Bit(i, 7) + Field(i, 25, 6)
<1>0. i \in Int
  BY SMT DEF WordsOfText
<1>1. Manual!ImmOfB(i) =
         (Bit(i, 7) ++ Bit(i, 30) ++ Bit(i, 29) ++ Bit(i, 28) ++ Bit(i, 27) ++ Bit(i, 26)
           ++ Bit(i, 25) ++ Bit(i, 11) ++ Bit(i, 10) ++ Bit(i, 9) ++ Bit(i, 8) ++ 0) - 2^12 * Bit(i, 31)
  BY DEF Manual!ImmOfB, Manual!++, Manual!IBit, Bit, Field, ++
<1>2. Bit(i, 7) \in Int
  BY <1>0, SMT DEF Bit, Field, ++
<1>3. Bit(i, 7) ++ Bit(i, 30) ++ Bit(i, 29) ++ Bit(i, 28) ++ Bit(i, 27) ++ Bit(i, 26) ++ Bit(i, 25)
        = 2^6 * Bit(i, 7) + Field(i, 25, 6)
  BY <1>0, <1>2, From30
<1>4. u \in Int
  BY <1>0, SMT DEF Bit, Field, ++
<1>5. u ++ Bit(i, 11) ++ Bit(i, 10) ++ Bit(i, 9) ++ Bit(i, 8) = 2^4 * u + Field(i, 8, 4)
  BY <1>0, <1>4, From11
<1>6. Manual!ImmOfB(i) = ((2^4 * u + Field(i, 8, 4)) ++ 0) - 2^12 * Bit(i, 31)
  BY <1>1, <1>3, <1>5, Zenon
<1>7. Imm32("B", i) = ((2^4 * u + Field(i, 8, 4)) ++ 0) - 2^12 * Bit(i, 31)
  <2>1. Imm32("B", i)
          = (IF Bit(i, 31) = 1 THEN -4096 ELSE 0) + Bit(i, 7) * 2048 + Field(i, 25, 6) * 32 + Field(i, 8, 4) * 2
    BY <1>0, SMT DEF Imm32, Sign
  <2>2. Bit(i, 7) \in 0..1 /\ Bit(i, 31) \in 0..1
    BY <1>0, SMT DEF Bit, Field
  <2>3. Field(i, 25, 6) \in Int /\ Field(i, 8, 4) \in Int
    BY <1>0, SMT DEF Field
  <2> QED
    BY <2>1, <2>2, <2>3, SMT DEF ++
<1> QED
  BY <1>6, <1>7, Zenon

(* The J-type, imm[20|10:1|11|19:12] *)
LEMMA ImmediateJ ==
  ASSUME NEW i \in WordsOfText
  PROVE  ImmJ(i) = Manual!ImmOfJ(i)
<1> DEFINE u == Field(i, 12, 8) ++ Bit(i, 20)
<1>0. i \in Int
  BY SMT DEF WordsOfText
<1>1. Manual!ImmOfJ(i) =
         (Bit(i, 19) ++ Bit(i, 18) ++ Bit(i, 17) ++ Bit(i, 16) ++ Bit(i, 15) ++ Bit(i, 14)
           ++ Bit(i, 13) ++ Bit(i, 12) ++ Bit(i, 20) ++ Bit(i, 30) ++ Bit(i, 29) ++ Bit(i, 28)
           ++ Bit(i, 27) ++ Bit(i, 26) ++ Bit(i, 25) ++ Bit(i, 24) ++ Bit(i, 23) ++ Bit(i, 22)
           ++ Bit(i, 21) ++ 0) - 2^20 * Bit(i, 31)
  BY DEF Manual!ImmOfJ, Manual!++, Manual!IBit, Bit, Field, ++
<1>2. Bit(i, 19) ++ Bit(i, 18) ++ Bit(i, 17) ++ Bit(i, 16) ++ Bit(i, 15) ++ Bit(i, 14) ++ Bit(i, 13)
        ++ Bit(i, 12) = Field(i, 12, 8)
  BY <1>0, RunIs
<1>3. u \in Int
  BY <1>0, SMT DEF Bit, Field, ++
<1>4. u ++ Bit(i, 30) ++ Bit(i, 29) ++ Bit(i, 28) ++ Bit(i, 27) ++ Bit(i, 26) ++ Bit(i, 25) ++ Bit(i, 24)
        ++ Bit(i, 23) ++ Bit(i, 22) ++ Bit(i, 21) = 2^10 * u + Field(i, 21, 10)
  BY <1>0, <1>3, From30
<1>5. Manual!ImmOfJ(i) = ((2^10 * u + Field(i, 21, 10)) ++ 0) - 2^20 * Bit(i, 31)
  BY <1>1, <1>2, <1>4, Zenon
<1>6. ImmJ(i) = ((2^10 * u + Field(i, 21, 10)) ++ 0) - 2^20 * Bit(i, 31)
  <2>1. ImmJ(i) = (IF Bit(i, 31) = 1 THEN -1048576 ELSE 0) + Field(i, 12, 8) * 4096 + Bit(i, 20) * 2048
          + Field(i, 21, 10) * 2
    BY <1>0, SMT DEF ImmJ, Sign
  <2>2. Bit(i, 20) \in 0..1 /\ Bit(i, 31) \in 0..1
    BY <1>0, SMT DEF Bit, Field
  <2>3. Field(i, 12, 8) \in Int /\ Field(i, 21, 10) \in Int
    BY <1>0, SMT DEF Field
  <2> QED
    BY <2>1, <2>2, <2>3, SMT DEF ++
<1> QED
  BY <1>5, <1>6, Zenon

(* The U-type, imm[31:12] *)
LEMMA ImmediateU ==
  ASSUME NEW i \in WordsOfText
  PROVE  Imm32("U", i) = Manual!ImmOfU(i)
<1>0. i \in Int
  BY SMT DEF WordsOfText
<1>1. Manual!ImmOfU(i) =
         ((Bit(i, 30) ++ Bit(i, 29) ++ Bit(i, 28) ++ Bit(i, 27) ++ Bit(i, 26) ++ Bit(i, 25)
           ++ Bit(i, 24) ++ Bit(i, 23) ++ Bit(i, 22) ++ Bit(i, 21) ++ Bit(i, 20) ++ Bit(i, 19)
           ++ Bit(i, 18) ++ Bit(i, 17) ++ Bit(i, 16) ++ Bit(i, 15) ++ Bit(i, 14) ++ Bit(i, 13)
           ++ Bit(i, 12)) - 2^19 * Bit(i, 31)) * 2^12
  BY DEF Manual!ImmOfU, Manual!++, Manual!IBit, Bit, Field, ++
<1>2. Bit(i, 30) ++ Bit(i, 29) ++ Bit(i, 28) ++ Bit(i, 27) ++ Bit(i, 26) ++ Bit(i, 25) ++ Bit(i, 24)
        ++ Bit(i, 23) ++ Bit(i, 22) ++ Bit(i, 21) ++ Bit(i, 20) ++ Bit(i, 19) ++ Bit(i, 18) ++ Bit(i, 17)
        ++ Bit(i, 16) ++ Bit(i, 15) ++ Bit(i, 14) ++ Bit(i, 13) ++ Bit(i, 12) = Field(i, 12, 19)
  BY <1>0, RunIs
<1>3. Manual!ImmOfU(i) = (Field(i, 12, 19) - 2^19 * Bit(i, 31)) * 2^12
  BY <1>1, <1>2, Zenon
<1>4. Imm32("U", i) = (Field(i, 12, 19) - 2^19 * Bit(i, 31)) * 2^12
  <2>1. Imm32("U", i) = (i \div 4096) * 4096
    BY <1>0, SMT DEF Imm32
  <2>2. i \div 4096 = Field(i, 12, 19) - 2^19 * Bit(i, 31)
    <3>1. CASE i < 0
      BY <3>1, SMT DEF Bit, Field, WordsOfText
    <3>2. CASE ~(i < 0)
      BY <3>2, SMT DEF Bit, Field, WordsOfText
    <3> QED
      BY <3>1, <3>2
  <2>3. Bit(i, 31) \in 0..1
    BY <1>0, SMT DEF Bit, Field
  <2>4. Field(i, 12, 19) \in Int
    BY <1>0, SMT DEF Field
  <2> QED
    BY <2>1, <2>2, <2>3, <2>4, SMT DEF ++
<1> QED
  BY <1>3, <1>4, Zenon

(* The shift amount of a compressed instruction *)
LEMMA ImmediateShamt ==
  ASSUME NEW i \in Int
  PROVE  RvcShamt(i) = Manual!Imm6(i)
<1>1. Manual!Imm6(i) =
         Bit(i, 12) ++ Bit(i, 6) ++ Bit(i, 5) ++ Bit(i, 4) ++ Bit(i, 3) ++ Bit(i, 2)
  BY DEF Manual!Imm6, Manual!++, Manual!IBit, Bit, Field, ++
<1>2. Bit(i, 12) \in Int
  BY SMT DEF Bit, Field, ++
<1>3. Bit(i, 12) ++ Bit(i, 6) ++ Bit(i, 5) ++ Bit(i, 4) ++ Bit(i, 3) ++ Bit(i, 2) = 2^5 * Bit(i, 12) + Field(i, 2, 5)
  BY <1>2, From6
<1>4. Manual!Imm6(i) = 2^5 * Bit(i, 12) + Field(i, 2, 5)
  BY <1>1, <1>3, Zenon
<1>5. RvcShamt(i) = 2^5 * Bit(i, 12) + Field(i, 2, 5)
  BY SMT DEF RvcShamt, RVC, Bit, Field, ++
<1> QED
  BY <1>4, <1>5, Zenon

(* The signed immediate of the same bits *)
LEMMA ImmediateCI ==
  ASSUME NEW i \in Int
  PROVE  Imm16("CI", i) = Manual!SignedImm6(i)
<1>1. Manual!SignedImm6(i) =
         (Bit(i, 6) ++ Bit(i, 5) ++ Bit(i, 4) ++ Bit(i, 3) ++ Bit(i, 2)) - 2^5 * Bit(i, 12)
  BY DEF Manual!SignedImm6, Manual!++, Manual!IBit, Bit, Field, ++
<1>2. Bit(i, 6) ++ Bit(i, 5) ++ Bit(i, 4) ++ Bit(i, 3) ++ Bit(i, 2) = Field(i, 2, 5)
  BY RunIs
<1>3. Manual!SignedImm6(i) = Field(i, 2, 5) - 2^5 * Bit(i, 12)
  BY <1>1, <1>2, Zenon
<1>4. Imm16("CI", i) = Field(i, 2, 5) - 2^5 * Bit(i, 12)
  BY SMT DEF Imm16, Sign, Bit, Field, ++
<1> QED
  BY <1>3, <1>4, Zenon

(* c.lw and c.sw, offset[5:3] and offset[2|6] *)
LEMMA ImmediateLW ==
  ASSUME NEW i \in Int
  PROVE  Imm16("LW", i) = Manual!OffsetW(i)
<1>1. Manual!OffsetW(i) =
         Bit(i, 5) ++ Bit(i, 12) ++ Bit(i, 11) ++ Bit(i, 10) ++ Bit(i, 6) ++ 0 ++ 0
  BY DEF Manual!OffsetW, Manual!++, Manual!IBit, Bit, Field, ++
<1>2. Bit(i, 5) \in Int
  BY SMT DEF Bit, Field, ++
<1>3. Bit(i, 5) ++ Bit(i, 12) ++ Bit(i, 11) ++ Bit(i, 10) = 2^3 * Bit(i, 5) + Field(i, 10, 3)
  BY <1>2, From12
<1>4. Manual!OffsetW(i) = (2^3 * Bit(i, 5) + Field(i, 10, 3)) ++ Bit(i, 6) ++ 0 ++ 0
  BY <1>1, <1>3, Zenon
<1>5. Imm16("LW", i) = (2^3 * Bit(i, 5) + Field(i, 10, 3)) ++ Bit(i, 6) ++ 0 ++ 0
  BY SMT DEF Imm16, Bit, Field, ++
<1> QED
  BY <1>4, <1>5, Zenon

(* c.ld and c.sd, offset[5:3] and offset[7:6] *)
LEMMA ImmediateLD ==
  ASSUME NEW i \in Int
  PROVE  Imm16("LD", i) = Manual!OffsetD(i)
<1>1. Manual!OffsetD(i) =
         Bit(i, 6) ++ Bit(i, 5) ++ Bit(i, 12) ++ Bit(i, 11) ++ Bit(i, 10) ++ 0 ++ 0 ++ 0
  BY DEF Manual!OffsetD, Manual!++, Manual!IBit, Bit, Field, ++
<1>2. Bit(i, 6) ++ Bit(i, 5) = Field(i, 5, 2)
  BY RunIs
<1>3. Field(i, 5, 2) \in Int
  BY SMT DEF Bit, Field, ++
<1>4. Field(i, 5, 2) ++ Bit(i, 12) ++ Bit(i, 11) ++ Bit(i, 10) = 2^3 * Field(i, 5, 2) + Field(i, 10, 3)
  BY <1>3, From12
<1>5. Manual!OffsetD(i) = (2^3 * Field(i, 5, 2) + Field(i, 10, 3)) ++ 0 ++ 0 ++ 0
  BY <1>1, <1>2, <1>4, Zenon
<1>6. Imm16("LD", i) = (2^3 * Field(i, 5, 2) + Field(i, 10, 3)) ++ 0 ++ 0 ++ 0
  BY SMT DEF Imm16, Bit, Field, ++
<1> QED
  BY <1>5, <1>6, Zenon

(* c.addi4spn, nzuimm[5:4|9:6|2|3] *)
LEMMA ImmediateSpn ==
  ASSUME NEW i \in Int
  PROVE  Imm16("ADDI4SPN", i) = Manual!Sp4n(i)
<1>1. Manual!Sp4n(i) =
         Bit(i, 10) ++ Bit(i, 9) ++ Bit(i, 8) ++ Bit(i, 7) ++ Bit(i, 12) ++ Bit(i, 11) ++ Bit(i, 5)
           ++ Bit(i, 6) ++ 0 ++ 0
  BY DEF Manual!Sp4n, Manual!++, Manual!IBit, Bit, Field, ++
<1>2. Bit(i, 10) ++ Bit(i, 9) ++ Bit(i, 8) ++ Bit(i, 7) = Field(i, 7, 4)
  BY RunIs
<1>3. Field(i, 7, 4) \in Int
  BY SMT DEF Bit, Field, ++
<1>4. Field(i, 7, 4) ++ Bit(i, 12) ++ Bit(i, 11) = 2^2 * Field(i, 7, 4) + Field(i, 11, 2)
  BY <1>3, From12
<1>5. Manual!Sp4n(i) = (2^2 * Field(i, 7, 4) + Field(i, 11, 2)) ++ Bit(i, 5) ++ Bit(i, 6) ++ 0 ++ 0
  BY <1>1, <1>2, <1>4, Zenon
<1>6. Imm16("ADDI4SPN", i) = (2^2 * Field(i, 7, 4) + Field(i, 11, 2)) ++ Bit(i, 5) ++ Bit(i, 6) ++ 0 ++ 0
  BY SMT DEF Imm16, Bit, Field, ++
<1> QED
  BY <1>5, <1>6, Zenon

(* c.addi16sp, nzimm[9] and nzimm[4|6|8:7|5] *)
LEMMA ImmediateSp16 ==
  ASSUME NEW i \in Int
  PROVE  Imm16("ADDI16SP", i) = Manual!Sp16(i)
<1>1. Manual!Sp16(i) =
         (Bit(i, 4) ++ Bit(i, 3) ++ Bit(i, 5) ++ Bit(i, 2) ++ Bit(i, 6) ++ 0 ++ 0 ++ 0 ++ 0) - 2^9 * Bit(i, 12)
  BY DEF Manual!Sp16, Manual!++, Manual!IBit, Bit, Field, ++
<1>2. Bit(i, 4) ++ Bit(i, 3) = Field(i, 3, 2)
  BY RunIs
<1>3. Manual!Sp16(i) = (Field(i, 3, 2) ++ Bit(i, 5) ++ Bit(i, 2) ++ Bit(i, 6) ++ 0 ++ 0 ++ 0 ++ 0) - 2^9 * Bit(i, 12)
  BY <1>1, <1>2, Zenon
<1>4. Imm16("ADDI16SP", i)
        = (Field(i, 3, 2) ++ Bit(i, 5) ++ Bit(i, 2) ++ Bit(i, 6) ++ 0 ++ 0 ++ 0 ++ 0) - 2^9 * Bit(i, 12)
  <2>1. Imm16("ADDI16SP", i) = (IF Bit(i, 12) = 1 THEN -512 ELSE 0) + Field(i, 3, 2) * 128 + Bit(i, 5) * 64
          + Bit(i, 2) * 32 + Bit(i, 6) * 16
    BY SMT DEF Imm16, Sign
  <2>2. Bit(i, 2) \in 0..1 /\ Bit(i, 5) \in 0..1 /\ Bit(i, 6) \in 0..1 /\ Bit(i, 12) \in 0..1
    BY SMT DEF Bit, Field
  <2>3. Field(i, 3, 2) \in Int
    BY SMT DEF Field
  <2> QED
    BY <2>1, <2>2, <2>3, SMT DEF ++
<1> QED
  BY <1>3, <1>4, Zenon

(* c.lui, nzimm[17] and nzimm[16:12] *)
LEMMA ImmediateUpper ==
  ASSUME NEW i \in Int
  PROVE  Imm16("CI", i) * 4096 = Manual!Upper(i)
<1>1. Imm16("CI", i) = Manual!SignedImm6(i)
  BY ImmediateCI
<1>2. Manual!Upper(i) = Manual!SignedImm6(i) * 4096
  BY SMT DEF Manual!Upper
<1> QED
  BY <1>1, <1>2

(* c.j, imm[11|4|9:8|10|6|7|3:1|5] *)
LEMMA ImmediateCJ ==
  ASSUME NEW i \in Int
  PROVE  Imm16("CJ", i) = Manual!Jump(i)
<1> DEFINE u == (2^2 * Bit(i, 8) + Field(i, 9, 2)) ++ Bit(i, 6) ++ Bit(i, 7) ++ Bit(i, 2) ++ Bit(i, 11)
<1>1. Manual!Jump(i) =
         (Bit(i, 8) ++ Bit(i, 10) ++ Bit(i, 9) ++ Bit(i, 6) ++ Bit(i, 7) ++ Bit(i, 2) ++ Bit(i, 11)
           ++ Bit(i, 5) ++ Bit(i, 4) ++ Bit(i, 3) ++ 0) - 2^11 * Bit(i, 12)
  BY DEF Manual!Jump, Manual!++, Manual!IBit, Bit, Field, ++
<1>2. Bit(i, 8) \in Int
  BY SMT DEF Bit, Field, ++
<1>3. Bit(i, 8) ++ Bit(i, 10) ++ Bit(i, 9) = 2^2 * Bit(i, 8) + Field(i, 9, 2)
  BY <1>2, From10
<1>4. u \in Int
  BY SMT DEF Bit, Field, ++
<1>5. u ++ Bit(i, 5) ++ Bit(i, 4) ++ Bit(i, 3) = 2^3 * u + Field(i, 3, 3)
  BY <1>4, From5
<1>6. Manual!Jump(i) = ((2^3 * u + Field(i, 3, 3)) ++ 0) - 2^11 * Bit(i, 12)
  BY <1>1, <1>3, <1>5, Zenon
<1>7. Imm16("CJ", i) = ((2^3 * u + Field(i, 3, 3)) ++ 0) - 2^11 * Bit(i, 12)
  <2>1. Imm16("CJ", i) = (IF Bit(i, 12) = 1 THEN -2048 ELSE 0) + Bit(i, 8) * 1024 + Field(i, 9, 2) * 256
          + Bit(i, 6) * 128 + Bit(i, 7) * 64 + Bit(i, 2) * 32 + Bit(i, 11) * 16 + Field(i, 3, 3) * 2
    BY SMT DEF Imm16, Sign
  <2>2. /\ Bit(i, 2) \in 0..1 /\ Bit(i, 6) \in 0..1 /\ Bit(i, 7) \in 0..1 /\ Bit(i, 8) \in 0..1 /\ Bit(i, 11) \in 0..1
        /\ Bit(i, 12) \in 0..1
    BY SMT DEF Bit, Field
  <2>3. Field(i, 3, 3) \in Int /\ Field(i, 9, 2) \in Int
    BY SMT DEF Field
  <2> QED
    BY <2>1, <2>2, <2>3, SMT DEF ++
<1> QED
  BY <1>6, <1>7, Zenon

(* c.beqz and c.bnez, imm[8|4:3] and imm[7:6|2:1|5] *)
LEMMA ImmediateCB ==
  ASSUME NEW i \in Int
  PROVE  Imm16("CB", i) = Manual!Beyond(i)
<1> DEFINE u == Field(i, 5, 2) ++ Bit(i, 2)
           v == 2^2 * u + Field(i, 10, 2)
<1>1. Manual!Beyond(i) =
         (Bit(i, 6) ++ Bit(i, 5) ++ Bit(i, 2) ++ Bit(i, 11) ++ Bit(i, 10) ++ Bit(i, 4) ++ Bit(i, 3)
           ++ 0) - 2^8 * Bit(i, 12)
  BY DEF Manual!Beyond, Manual!++, Manual!IBit, Bit, Field, ++
<1>2. Bit(i, 6) ++ Bit(i, 5) = Field(i, 5, 2)
  BY RunIs
<1>3. u \in Int
  BY SMT DEF Bit, Field, ++
<1>4. u ++ Bit(i, 11) ++ Bit(i, 10) = 2^2 * u + Field(i, 10, 2)
  BY <1>3, From11
<1>5. v \in Int
  BY SMT DEF Bit, Field, ++
<1>6. v ++ Bit(i, 4) ++ Bit(i, 3) = 2^2 * v + Field(i, 3, 2)
  BY <1>5, From4
<1>7. Manual!Beyond(i) = ((2^2 * v + Field(i, 3, 2)) ++ 0) - 2^8 * Bit(i, 12)
  BY <1>1, <1>2, <1>4, <1>6, Zenon
<1>8. Imm16("CB", i) = ((2^2 * v + Field(i, 3, 2)) ++ 0) - 2^8 * Bit(i, 12)
  <2>1. Imm16("CB", i) = (IF Bit(i, 12) = 1 THEN -256 ELSE 0) + Field(i, 5, 2) * 64 + Bit(i, 2) * 32
          + Field(i, 10, 2) * 8 + Field(i, 3, 2) * 2
    BY SMT DEF Imm16, Sign
  <2>2. Bit(i, 2) \in 0..1 /\ Bit(i, 12) \in 0..1
    BY SMT DEF Bit, Field
  <2>3. Field(i, 10, 2) \in Int /\ Field(i, 3, 2) \in Int /\ Field(i, 5, 2) \in Int
    BY SMT DEF Field
  <2> QED
    BY <2>1, <2>2, <2>3, SMT DEF ++
<1> QED
  BY <1>7, <1>8, Zenon

(* c.lwsp, offset[5] and offset[4:2|7:6] *)
LEMMA ImmediateLWSP ==
  ASSUME NEW i \in Int
  PROVE  Imm16("LWSP", i) = Manual!LoadSpW(i)
<1> DEFINE u == Field(i, 2, 2) ++ Bit(i, 12)
<1>1. Manual!LoadSpW(i) =
         Bit(i, 3) ++ Bit(i, 2) ++ Bit(i, 12) ++ Bit(i, 6) ++ Bit(i, 5) ++ Bit(i, 4) ++ 0 ++ 0
  BY DEF Manual!LoadSpW, Manual!++, Manual!IBit, Bit, Field, ++
<1>2. Bit(i, 3) ++ Bit(i, 2) = Field(i, 2, 2)
  BY RunIs
<1>3. u \in Int
  BY SMT DEF Bit, Field, ++
<1>4. u ++ Bit(i, 6) ++ Bit(i, 5) ++ Bit(i, 4) = 2^3 * u + Field(i, 4, 3)
  BY <1>3, From6
<1>5. Manual!LoadSpW(i) = (2^3 * u + Field(i, 4, 3)) ++ 0 ++ 0
  BY <1>1, <1>2, <1>4, Zenon
<1>6. Imm16("LWSP", i) = (2^3 * u + Field(i, 4, 3)) ++ 0 ++ 0
  BY SMT DEF Imm16, Bit, Field, ++
<1> QED
  BY <1>5, <1>6, Zenon

(* c.ldsp, offset[5] and offset[4:3|8:6] *)
LEMMA ImmediateLDSP ==
  ASSUME NEW i \in Int
  PROVE  Imm16("LDSP", i) = Manual!LoadSpD(i)
<1> DEFINE u == Field(i, 2, 3) ++ Bit(i, 12)
<1>1. Manual!LoadSpD(i) =
         Bit(i, 4) ++ Bit(i, 3) ++ Bit(i, 2) ++ Bit(i, 12) ++ Bit(i, 6) ++ Bit(i, 5) ++ 0 ++ 0 ++ 0
  BY DEF Manual!LoadSpD, Manual!++, Manual!IBit, Bit, Field, ++
<1>2. Bit(i, 4) ++ Bit(i, 3) ++ Bit(i, 2) = Field(i, 2, 3)
  BY RunIs
<1>3. u \in Int
  BY SMT DEF Bit, Field, ++
<1>4. u ++ Bit(i, 6) ++ Bit(i, 5) = 2^2 * u + Field(i, 5, 2)
  BY <1>3, From6
<1>5. Manual!LoadSpD(i) = (2^2 * u + Field(i, 5, 2)) ++ 0 ++ 0 ++ 0
  BY <1>1, <1>2, <1>4, Zenon
<1>6. Imm16("LDSP", i) = (2^2 * u + Field(i, 5, 2)) ++ 0 ++ 0 ++ 0
  BY SMT DEF Imm16, Bit, Field, ++
<1> QED
  BY <1>5, <1>6, Zenon

(* c.swsp, offset[5:2|7:6] *)
LEMMA ImmediateSWSP ==
  ASSUME NEW i \in Int
  PROVE  Imm16("SWSP", i) = Manual!StoreSpW(i)
<1>1. Manual!StoreSpW(i) =
         Bit(i, 8) ++ Bit(i, 7) ++ Bit(i, 12) ++ Bit(i, 11) ++ Bit(i, 10) ++ Bit(i, 9) ++ 0 ++ 0
  BY DEF Manual!StoreSpW, Manual!++, Manual!IBit, Bit, Field, ++
<1>2. Bit(i, 8) ++ Bit(i, 7) = Field(i, 7, 2)
  BY RunIs
<1>3. Field(i, 7, 2) \in Int
  BY SMT DEF Bit, Field, ++
<1>4. Field(i, 7, 2) ++ Bit(i, 12) ++ Bit(i, 11) ++ Bit(i, 10) ++ Bit(i, 9) = 2^4 * Field(i, 7, 2) + Field(i, 9, 4)
  BY <1>3, From12
<1>5. Manual!StoreSpW(i) = (2^4 * Field(i, 7, 2) + Field(i, 9, 4)) ++ 0 ++ 0
  BY <1>1, <1>2, <1>4, Zenon
<1>6. Imm16("SWSP", i) = (2^4 * Field(i, 7, 2) + Field(i, 9, 4)) ++ 0 ++ 0
  BY SMT DEF Imm16, Bit, Field, ++
<1> QED
  BY <1>5, <1>6, Zenon

(* c.sdsp, offset[5:3|8:6] *)
LEMMA ImmediateSDSP ==
  ASSUME NEW i \in Int
  PROVE  Imm16("SDSP", i) = Manual!StoreSpD(i)
<1>1. Manual!StoreSpD(i) =
         Bit(i, 9) ++ Bit(i, 8) ++ Bit(i, 7) ++ Bit(i, 12) ++ Bit(i, 11) ++ Bit(i, 10) ++ 0 ++ 0
           ++ 0
  BY DEF Manual!StoreSpD, Manual!++, Manual!IBit, Bit, Field, ++
<1>2. Bit(i, 9) ++ Bit(i, 8) ++ Bit(i, 7) = Field(i, 7, 3)
  BY RunIs
<1>3. Field(i, 7, 3) \in Int
  BY SMT DEF Bit, Field, ++
<1>4. Field(i, 7, 3) ++ Bit(i, 12) ++ Bit(i, 11) ++ Bit(i, 10) = 2^3 * Field(i, 7, 3) + Field(i, 10, 3)
  BY <1>3, From12
<1>5. Manual!StoreSpD(i) = (2^3 * Field(i, 7, 3) + Field(i, 10, 3)) ++ 0 ++ 0 ++ 0
  BY <1>1, <1>2, <1>4, Zenon
<1>6. Imm16("SDSP", i) = (2^3 * Field(i, 7, 3) + Field(i, 10, 3)) ++ 0 ++ 0 ++ 0
  BY SMT DEF Imm16, Bit, Field, ++
<1> QED
  BY <1>5, <1>6, Zenon

(* The bits that are fixed, and the tables' entries for them: the opcode,   *)
(* funct3, and what is above the registers or the shift amount              *)
Opcode(i) == Field(i, 0, 7)
F3(i) == Field(i, 12, 3)
F7(i) == Field(i, 25, 7)
F6(i) == Field(i, 26, 6)
OfR(i) == Manual!Matching(Manual!RType, <<Opcode(i), F3(i), F7(i)>>)
OfI(i) == Manual!Matching(Manual!IType, <<Opcode(i), F3(i)>>)
OfS(i) == Manual!Matching(Manual!SType, <<Opcode(i), F3(i)>>)
OfB(i) == Manual!Matching(Manual!BType, <<Opcode(i), F3(i)>>)
Of64(i) == Manual!Matching(Manual!Shift64, <<Opcode(i), F3(i), F6(i)>>)
Of32(i) == Manual!Matching(Manual!Shift32, <<Opcode(i), F3(i), F7(i)>>)

(* The sign is the highest bit of the fields that reach it. *)
LEMMA HighFields ==
  ASSUME NEW i \in WordsOfText
  PROVE  /\ Field(i, 25, 7) = Field(i, 25, 6) + 64 * Bit(i, 31)
         /\ Field(i, 26, 6) = Field(i, 26, 5) + 32 * Bit(i, 31)
<1>1. CASE i < 0
  BY <1>1, SMT DEF Bit, Field, WordsOfText
<1>2. CASE ~(i < 0)
  BY <1>2, SMT DEF Bit, Field, WordsOfText
<1> QED
  BY <1>1, <1>2

(* The reference in these terms *)
LEMMA WideIs ==
  ASSUME NEW i \in WordsOfText, NEW pc
  PROVE  LET rd == Field(i, 7, 5)  rs1 == Field(i, 15, 5)  rs2 == Field(i, 20, 5)
         IN Manual!Wide(i, pc) =
              CASE OfR(i) # {} -> <<Manual!I(Manual!The(OfR(i)), rd, rs1, rs2, 0)>>
                [] OfI(i) # {} -> <<Manual!I(Manual!The(OfI(i)), rd, rs1, 0, Imm32("I", i))>>
                [] OfS(i) # {} -> <<Manual!I(Manual!The(OfS(i)), 0, rs1, rs2, Imm32("S", i))>>
                [] OfB(i) # {} -> <<Manual!I(Manual!The(OfB(i)), 0, rs1, rs2, pc + Imm32("B", i))>>
                [] Of64(i) # {} -> <<Manual!I(Manual!The(Of64(i)), rd, rs1, 0, Field(i, 20, 6))>>
                [] Of32(i) # {} -> <<Manual!I(Manual!The(Of32(i)), rd, rs1, 0, Field(i, 20, 5))>>
                [] Opcode(i) = 55  -> <<Manual!I("LI", rd, 0, 0, Imm32("U", i))>>
                [] Opcode(i) = 23  -> <<Manual!I("LI", rd, 0, 0, pc + Imm32("U", i))>>
                [] Opcode(i) = 111 ->
                     <<Manual!I("LI", rd, 0, 0, pc + 4), Manual!I("JMP", 0, 0, 0, pc + ImmJ(i))>>
                [] i = 115 -> <<Manual!I("ECALL", 0, 0, 0, 0)>>
                [] i = 2^20 + 115 -> <<Manual!I("EBREAK", 0, 0, 0, 0)>>
                [] <<Opcode(i), F3(i)>> = <<19, 1>> -> <<Manual!I("SLLI", rd, rs1, 0, Field(i, 20, 6))>>
                [] Opcode(i) = 103 -> <<Manual!I("JALR", rd, rs1, 0, Imm32("I", i))>>
                [] Opcode(i) = 15  -> <<>>
                [] OTHER -> Manual!Illegal
<1>1. /\ Manual!IBits(i, 11, 7) = Field(i, 7, 5) /\ Manual!IBits(i, 19, 15) = Field(i, 15, 5)
      /\ Manual!IBits(i, 24, 20) = Field(i, 20, 5) /\ Manual!IBits(i, 25, 20) = Field(i, 20, 6)
      /\ Manual!IBits(i, 6, 0) = Opcode(i)
  BY DEF Manual!IBits, Field, Opcode
<1>2. Manual!Fixed(i) = <<Opcode(i), F3(i)>>
  BY DEF Manual!Fixed, Manual!IBits, Field, Opcode, F3
<1>3. Manual!IBits(i, 30, 25) + 64 * Manual!IBit(i, 31) = F7(i)
  BY HighFields DEF Manual!IBits, Manual!IBit, Bit, Field, F7
<1>4. Manual!IBits(i, 30, 26) + 32 * Manual!IBit(i, 31) = F6(i)
  BY HighFields DEF Manual!IBits, Manual!IBit, Bit, Field, F6
<1>5. /\ Manual!FixedAnd(i, F7(i)) = <<Opcode(i), F3(i), F7(i)>>
      /\ Manual!FixedAnd(i, F6(i)) = <<Opcode(i), F3(i), F6(i)>>
  BY DEF Manual!FixedAnd, Manual!IBits, Field, Opcode, F3
<1>6. /\ Manual!ImmOfI(i) = Imm32("I", i) /\ Manual!ImmOfS(i) = Imm32("S", i)
      /\ Manual!ImmOfB(i) = Imm32("B", i) /\ Manual!ImmOfU(i) = Imm32("U", i)
      /\ Manual!ImmOfJ(i) = ImmJ(i)
  BY ImmediateI, ImmediateS, ImmediateB, ImmediateU, ImmediateJ
<1> QED
  BY <1>1, <1>2, <1>3, <1>4, <1>5, <1>6, Zenon DEF Manual!Wide, OfR, OfI, OfS, OfB, Of64, Of32

(* The opcode tells which of the tables can have an entry. *)
LEMMA TableOfOpcode ==
  ASSUME NEW i \in Int
  PROVE  /\ Opcode(i) \notin {51, 59} => OfR(i) = {}
         /\ Opcode(i) \notin {3, 19, 27} => OfI(i) = {}
         /\ Opcode(i) # 35 => OfS(i) = {}
         /\ Opcode(i) # 99 => OfB(i) = {}
         /\ Opcode(i) # 19 \/ F3(i) # 5 => Of64(i) = {}
         /\ Opcode(i) # 27 \/ F3(i) \notin {1, 5} => Of32(i) = {}
         /\ Opcode(i) = 19 /\ F3(i) \in {1, 5} => OfI(i) = {}
         /\ Opcode(i) = 27 /\ F3(i) # 0 => OfI(i) = {}
<1>1. Opcode(i) \notin {51, 59} => OfR(i) = {}
  BY DEF OfR, Manual!Matching, Manual!RType
<1>2. /\ Opcode(i) \notin {3, 19, 27} => OfI(i) = {}
      /\ Opcode(i) = 19 /\ F3(i) \in {1, 5} => OfI(i) = {}
      /\ Opcode(i) = 27 /\ F3(i) # 0 => OfI(i) = {}
  BY DEF OfI, Manual!Matching, Manual!IType
<1>3. Opcode(i) # 35 => OfS(i) = {}
  BY DEF OfS, Manual!Matching, Manual!SType
<1>4. Opcode(i) # 99 => OfB(i) = {}
  BY DEF OfB, Manual!Matching, Manual!BType
<1>5. Opcode(i) # 19 \/ F3(i) # 5 => Of64(i) = {}
  BY DEF Of64, Manual!Matching, Manual!Shift64
<1>6. Opcode(i) # 27 \/ F3(i) \notin {1, 5} => Of32(i) = {}
  BY DEF Of32, Manual!Matching, Manual!Shift32
<1> QED
  BY <1>1, <1>2, <1>3, <1>4, <1>5, <1>6

(* The fields have their width. *)
LEMMA FixedIs ==
  ASSUME NEW i \in Int
  PROVE  Opcode(i) \in 0..127 /\ F3(i) \in 0..7 /\ F7(i) \in 0..127 /\ F6(i) \in 0..63
BY SMT DEF Opcode, F3, F7, F6, Field

(* The decoder's fields and what it pushes, in the same terms *)
LEMMA DecoderIs ==
  ASSUME NEW i \in Int
  PROVE  /\ RV32(i).opcode = Opcode(i) /\ RV32(i).funct3 = F3(i) /\ RV32(i).funct7 = F7(i)
         /\ RV32(i).funct6 = F6(i) /\ RV32(i).rd = Field(i, 7, 5) /\ RV32(i).rs1 = Field(i, 15, 5)
         /\ RV32(i).rs2 = Field(i, 20, 5) /\ RV32(i).shamt = Field(i, 20, 5)
         /\ RV32(i).shamt64 = Field(i, 20, 6)
BY DEF RV32, Opcode, F3, F7, F6

(* An operation pushed is that operation. *)
LEMMA EmitIs ==
  ASSUME NEW op, NEW rd, NEW rs1, NEW rs2, NEW imm
  PROVE  Emit(op, rd, rs1, rs2, imm) = <<Manual!I(op, rd, rs1, rs2, imm)>>
BY DEF Emit, Manual!I

(* What no handler knows is the illegal instruction. *)
LEMMA InvalidIs == Invalid = Manual!Illegal
BY EmitIs DEF Invalid, Zero, Manual!Illegal

(* A set of one has one element to choose. *)
LEMMA TheIs ==
  ASSUME NEW op
  PROVE  Manual!The({op}) = op /\ {op} # {}
BY DEF Manual!The

(* Two sequences of one element *)
LEMMA PairIs ==
  ASSUME NEW S, NEW a \in S, NEW b \in S
  PROVE  <<a>> \o <<b>> = <<a, b>>
<1> DEFINE q == <<a>> \o <<b>>
<1>1. <<a>> \in Seq(S) /\ <<b>> \in Seq(S) /\ <<a, b>> \in Seq(S)
  OBVIOUS
<1>2. q \in Seq(S) /\ Len(q) = 2 /\ q[1] = a /\ q[2] = b
  BY <1>1
<1> HIDE DEF q
<1>3. \A k \in 1..2 : q[k] = <<a, b>>[k]
  BY <1>2
<1>4. q = <<a, b>>
  BY <1>1, <1>2, <1>3, SeqEqual
<1> QED
  BY <1>4 DEF q

(* The loads *)
LEMMA LoadIs ==
  ASSUME NEW i \in WordsOfText, NEW pc, Opcode(i) = 3
  PROVE  Load(i) = Manual!Wide(i, pc)
<1> DEFINE table == <<"LOAD8", "LOAD16", "LOAD32", "LOAD64", "LOAD8_U", "LOAD16_U", "LOAD32_U", None>>
<1>0. i \in Int
  BY SMT DEF WordsOfText
<1>1. F3(i) # 7 => OfI(i) = {table[F3(i) + 1]} /\ table[F3(i) + 1] # None
  BY <1>0, FixedIs DEF OfI, Manual!Matching, Manual!IType, None
<1>2. F3(i) = 7 => OfI(i) = {} /\ table[F3(i) + 1] = None
  BY DEF OfI, Manual!Matching, Manual!IType
<1>3. Manual!Wide(i, pc) = IF OfI(i) = {} THEN Manual!Illegal
                           ELSE <<Manual!I(Manual!The(OfI(i)), Field(i, 7, 5), Field(i, 15, 5), 0, Imm32("I", i))>>
  <2>1. i # 115 /\ i # 2^20 + 115
    BY SMT DEF Opcode, Field
  <2>2. OfR(i) = {} /\ OfS(i) = {} /\ OfB(i) = {} /\ Of64(i) = {} /\ Of32(i) = {}
    BY <1>0, TableOfOpcode
  <2> QED
    BY <2>1, <2>2, WideIs
<1>4. Load(i) = IF table[F3(i) + 1] = None THEN Invalid
                ELSE Emit(table[F3(i) + 1], Field(i, 7, 5), Field(i, 15, 5), 0, Imm32("I", i))
  BY <1>0, DecoderIs, Zenon DEF Load, NotFound, Lookup, Zero
<1> HIDE DEF table
<1> QED
  BY <1>1, <1>2, <1>3, <1>4, TheIs, EmitIs, InvalidIs

(* The stores *)
LEMMA StoreIs ==
  ASSUME NEW i \in WordsOfText, NEW pc, Opcode(i) = 35
  PROVE  Store(i) = Manual!Wide(i, pc)
<1> DEFINE table == <<"STORE8", "STORE16", "STORE32", "STORE64", None, None, None, None>>
<1>0. i \in Int
  BY SMT DEF WordsOfText
<1>1. F3(i) \notin {4, 5, 6, 7} => OfS(i) = {table[F3(i) + 1]} /\ table[F3(i) + 1] # None
  BY <1>0, FixedIs DEF OfS, Manual!Matching, Manual!SType, None
<1>2. F3(i) \in {4, 5, 6, 7} => OfS(i) = {} /\ table[F3(i) + 1] = None
  BY DEF OfS, Manual!Matching, Manual!SType
<1>3. Manual!Wide(i, pc) = IF OfS(i) = {} THEN Manual!Illegal
                           ELSE <<Manual!I(Manual!The(OfS(i)), 0, Field(i, 15, 5), Field(i, 20, 5), Imm32("S", i))>>
  <2>1. i # 115 /\ i # 2^20 + 115
    BY SMT DEF Opcode, Field
  <2>2. OfR(i) = {} /\ OfI(i) = {} /\ OfB(i) = {} /\ Of64(i) = {} /\ Of32(i) = {}
    BY <1>0, TableOfOpcode
  <2> QED
    BY <2>1, <2>2, WideIs
<1>4. Store(i) = IF table[F3(i) + 1] = None THEN Invalid
              ELSE Emit(table[F3(i) + 1], 0, Field(i, 15, 5), Field(i, 20, 5), Imm32("S", i))
  BY <1>0, DecoderIs, Zenon DEF Store, NotFound, Lookup, Zero
<1> HIDE DEF table
<1> QED
  BY <1>1, <1>2, <1>3, <1>4, TheIs, EmitIs, InvalidIs

(* The branches *)
LEMMA BranchIs ==
  ASSUME NEW i \in WordsOfText, NEW pc, Opcode(i) = 99
  PROVE  Branch(i, pc) = Manual!Wide(i, pc)
<1> DEFINE table == <<"BEQ", "BNE", None, None, "BLT", "BGE", "BLTU", "BGEU">>
<1>0. i \in Int
  BY SMT DEF WordsOfText
<1>1. F3(i) \notin {2, 3} => OfB(i) = {table[F3(i) + 1]} /\ table[F3(i) + 1] # None
  BY <1>0, FixedIs DEF OfB, Manual!Matching, Manual!BType, None
<1>2. F3(i) \in {2, 3} => OfB(i) = {} /\ table[F3(i) + 1] = None
  BY DEF OfB, Manual!Matching, Manual!BType
<1>3. Manual!Wide(i, pc) = IF OfB(i) = {} THEN Manual!Illegal
                           ELSE <<Manual!I(Manual!The(OfB(i)), 0, Field(i, 15, 5), Field(i, 20, 5),
                                           pc + Imm32("B", i))>>
  <2>1. i # 115 /\ i # 2^20 + 115
    BY SMT DEF Opcode, Field
  <2>2. OfR(i) = {} /\ OfI(i) = {} /\ OfS(i) = {} /\ Of64(i) = {} /\ Of32(i) = {}
    BY <1>0, TableOfOpcode
  <2> QED
    BY <2>1, <2>2, WideIs
<1>4. Branch(i, pc) = IF table[F3(i) + 1] = None THEN Invalid
              ELSE Emit(table[F3(i) + 1], 0, Field(i, 15, 5), Field(i, 20, 5), pc + Imm32("B", i))
  BY <1>0, DecoderIs, Zenon DEF Branch, NotFound, Lookup, Zero
<1> HIDE DEF table
<1> QED
  BY <1>1, <1>2, <1>3, <1>4, TheIs, EmitIs, InvalidIs

(* The operations with an immediate.  Wide takes every slli. *)
LEMMA OpImmIs ==
  ASSUME NEW i \in WordsOfText, NEW pc, Opcode(i) = 19
  PROVE  OpImm(i) = Manual!Wide(i, pc)
<1> DEFINE table == <<"ADDI", None, "SLTI", "SLTIU", "XORI", None, "ORI", "ANDI">>
<1>0. i \in Int
  BY SMT DEF WordsOfText
<1>1. i # 115 /\ i # 2^20 + 115
  BY SMT DEF Opcode, Field
<1>2. OfR(i) = {} /\ OfS(i) = {} /\ OfB(i) = {} /\ Of32(i) = {}
  BY <1>0, TableOfOpcode
<1>3. CASE F3(i) = 1
  <2>1. OfI(i) = {} /\ Of64(i) = {}
    BY <1>0, <1>3, TableOfOpcode
  <2>2. Manual!Wide(i, pc) = <<Manual!I("SLLI", Field(i, 7, 5), Field(i, 15, 5), 0, Field(i, 20, 6))>>
    BY <1>1, <1>2, <1>3, <2>1, WideIs
  <2>3. OpImm(i) = Emit("SLLI", Field(i, 7, 5), Field(i, 15, 5), 0, Field(i, 20, 6))
    BY <1>0, <1>3, DecoderIs DEF OpImm, Zero
  <2> QED
    BY <2>2, <2>3, EmitIs
<1>4. CASE F3(i) = 5
  <2>1. OfI(i) = {}
    BY <1>0, <1>4, TableOfOpcode
  <2>2. Manual!Wide(i, pc) = IF Of64(i) = {} THEN Manual!Illegal
                             ELSE <<Manual!I(Manual!The(Of64(i)), Field(i, 7, 5), Field(i, 15, 5), 0, Field(i, 20, 6))>>
    BY <1>1, <1>2, <1>4, <2>1, WideIs
  <2>3. /\ F6(i) = 0 => Of64(i) = {"SRLI"}
        /\ F6(i) = 16 => Of64(i) = {"SRAI"}
        /\ F6(i) \notin {0, 16} => Of64(i) = {}
    BY <1>4 DEF Of64, Manual!Matching, Manual!Shift64
  <2>4. OpImm(i) = CASE F6(i) = 0 -> Emit("SRLI", Field(i, 7, 5), Field(i, 15, 5), 0, Field(i, 20, 6))
                     [] F6(i) = 16 -> Emit("SRAI", Field(i, 7, 5), Field(i, 15, 5), 0, Field(i, 20, 6))
                     [] F6(i) \notin {0, 16} -> Invalid
    BY <1>0, <1>4, DecoderIs DEF OpImm, Zero
  <2> QED
    BY <2>2, <2>3, <2>4, TheIs, EmitIs, InvalidIs
<1>5. CASE F3(i) \notin {1, 5}
  <2>1. Of64(i) = {}
    BY <1>0, <1>5, TableOfOpcode
  <2>2. OfI(i) = {table[F3(i) + 1]}
    BY <1>0, <1>5, FixedIs DEF OfI, Manual!Matching, Manual!IType
  <2>3. OfI(i) # {}
    BY <2>2
  <2>4. Manual!Wide(i, pc) = <<Manual!I(Manual!The(OfI(i)), Field(i, 7, 5), Field(i, 15, 5), 0, Imm32("I", i))>>
    BY <1>1, <1>2, <1>5, <2>1, <2>3, WideIs
  <2>5. OpImm(i) = Emit(table[F3(i) + 1], Field(i, 7, 5), Field(i, 15, 5), 0, Imm32("I", i))
    BY <1>0, <1>5, DecoderIs DEF OpImm, Lookup, Zero
  <2> HIDE DEF table
  <2> QED
    BY <2>2, <2>4, <2>5, TheIs, EmitIs
<1> QED
  BY <1>3, <1>4, <1>5

(* Their forms on words *)
LEMMA OpImm32Is ==
  ASSUME NEW i \in WordsOfText, NEW pc, Opcode(i) = 27
  PROVE  OpImm32(i) = Manual!Wide(i, pc)
<1>0. i \in Int
  BY SMT DEF WordsOfText
<1>1. i # 115 /\ i # 2^20 + 115
  BY SMT DEF Opcode, Field
<1>2. OfR(i) = {} /\ OfS(i) = {} /\ OfB(i) = {} /\ Of64(i) = {}
  BY <1>0, TableOfOpcode
<1>3. CASE F3(i) = 0
  <2>1. Of32(i) = {}
    BY <1>0, <1>3, TableOfOpcode
  <2>2. OfI(i) = {"ADDI_EXT32"}
    BY <1>3 DEF OfI, Manual!Matching, Manual!IType
  <2>3. OfI(i) # {}
    BY <2>2
  <2>4. Manual!Wide(i, pc) = <<Manual!I(Manual!The(OfI(i)), Field(i, 7, 5), Field(i, 15, 5), 0, Imm32("I", i))>>
    BY <1>1, <1>2, <1>3, <2>1, <2>3, WideIs
  <2>5. OpImm32(i) = Emit("ADDI_EXT32", Field(i, 7, 5), Field(i, 15, 5), 0, Imm32("I", i))
    BY <1>0, <1>3, DecoderIs DEF OpImm32, Zero
  <2> QED
    BY <2>2, <2>4, <2>5, TheIs, EmitIs
<1>4. CASE F3(i) # 0
  <2>1. OfI(i) = {}
    BY <1>0, <1>4, TableOfOpcode
  <2>2. Manual!Wide(i, pc) = IF Of32(i) = {} THEN Manual!Illegal
                             ELSE <<Manual!I(Manual!The(Of32(i)), Field(i, 7, 5), Field(i, 15, 5), 0, Field(i, 20, 5))>>
    BY <1>1, <1>2, <1>4, <2>1, WideIs
  <2>3. /\ F3(i) = 1 /\ F7(i) = 0 => Of32(i) = {"SLLI_EXT32"}
        /\ F3(i) = 5 /\ F7(i) = 0 => Of32(i) = {"SRLI_EXT32"}
        /\ F3(i) = 5 /\ F7(i) = 32 => Of32(i) = {"SRAI_EXT32"}
        /\ F3(i) \notin {1, 5} => Of32(i) = {}
        /\ F3(i) = 1 /\ F7(i) # 0 => Of32(i) = {}
        /\ F3(i) = 5 /\ F7(i) \notin {0, 32} => Of32(i) = {}
    BY <1>4 DEF Of32, Manual!Matching, Manual!Shift32
  <2>4. OpImm32(i) = CASE F3(i) = 1 /\ F7(i) = 0
                            -> Emit("SLLI_EXT32", Field(i, 7, 5), Field(i, 15, 5), 0, Field(i, 20, 5))
                       [] F3(i) = 5 /\ F7(i) = 0
                            -> Emit("SRLI_EXT32", Field(i, 7, 5), Field(i, 15, 5), 0, Field(i, 20, 5))
                       [] F3(i) = 5 /\ F7(i) = 32
                            -> Emit("SRAI_EXT32", Field(i, 7, 5), Field(i, 15, 5), 0, Field(i, 20, 5))
                       [] OTHER -> Invalid
    BY <1>0, <1>4, DecoderIs DEF OpImm32, Zero
  <2> QED
    BY <2>2, <2>3, <2>4, TheIs, EmitIs, InvalidIs
<1> QED
  BY <1>3, <1>4

(* The operations of two registers *)
LEMMA OpIs ==
  ASSUME NEW i \in WordsOfText, NEW pc, Opcode(i) = 51
  PROVE  Op(i) = Manual!Wide(i, pc)
<1> DEFINE products == <<"MUL", "MULH", "MULHSU", "MULHU", "DIV", "DIVU", "REM", "REMU">>
           table == <<None, "SLL", "SLT", "SLTU", "XOR", None, "OR", "AND">>
<1>0. i \in Int
  BY SMT DEF WordsOfText
<1>1. Manual!Wide(i, pc) = IF OfR(i) = {} THEN Manual!Illegal
                           ELSE <<Manual!I(Manual!The(OfR(i)), Field(i, 7, 5), Field(i, 15, 5), Field(i, 20, 5), 0)>>
  <2>1. i # 115 /\ i # 2^20 + 115
    BY SMT DEF Opcode, Field
  <2>2. OfI(i) = {} /\ OfS(i) = {} /\ OfB(i) = {} /\ Of64(i) = {} /\ Of32(i) = {}
    BY <1>0, TableOfOpcode
  <2> QED
    BY <2>1, <2>2, WideIs
<1>2. CASE F7(i) = 1
  <2>1. OfR(i) = {products[F3(i) + 1]}
    BY <1>0, <1>2, FixedIs DEF OfR, Manual!Matching, Manual!RType
  <2>2. Op(i) = Emit(products[F3(i) + 1], Field(i, 7, 5), Field(i, 15, 5), Field(i, 20, 5), 0)
    BY <1>0, <1>2, DecoderIs DEF Op, OpMulDiv, RegReg, Lookup
  <2> HIDE DEF products
  <2> QED
    BY <1>1, <2>1, <2>2, TheIs, EmitIs
<1>3. CASE F7(i) # 1 /\ F3(i) = 0
  <2>1. /\ F7(i) = 0 => OfR(i) = {"ADD"}
        /\ F7(i) = 32 => OfR(i) = {"SUB"}
        /\ F7(i) \notin {0, 32} => OfR(i) = {}
    BY <1>3 DEF OfR, Manual!Matching, Manual!RType
  <2>2. Op(i) = Funct7(i, "ADD", "SUB")
    BY <1>0, <1>3, DecoderIs DEF Op
  <2>3. Funct7(i, "ADD", "SUB") =
          CASE F7(i) = 0 -> Emit("ADD", Field(i, 7, 5), Field(i, 15, 5), Field(i, 20, 5), 0)
            [] F7(i) = 32 -> Emit("SUB", Field(i, 7, 5), Field(i, 15, 5), Field(i, 20, 5), 0)
            [] OTHER -> Invalid
    BY <1>0, DecoderIs DEF Funct7, RegReg
  <2> QED
    BY <1>1, <2>1, <2>2, <2>3, TheIs, EmitIs, InvalidIs
<1>4. CASE F7(i) # 1 /\ F3(i) = 5
  <2>1. /\ F7(i) = 0 => OfR(i) = {"SRL"}
        /\ F7(i) = 32 => OfR(i) = {"SRA"}
        /\ F7(i) \notin {0, 32} => OfR(i) = {}
    BY <1>4 DEF OfR, Manual!Matching, Manual!RType
  <2>2. Op(i) = Funct7(i, "SRL", "SRA")
    BY <1>0, <1>4, DecoderIs DEF Op
  <2>3. Funct7(i, "SRL", "SRA") =
          CASE F7(i) = 0 -> Emit("SRL", Field(i, 7, 5), Field(i, 15, 5), Field(i, 20, 5), 0)
            [] F7(i) = 32 -> Emit("SRA", Field(i, 7, 5), Field(i, 15, 5), Field(i, 20, 5), 0)
            [] OTHER -> Invalid
    BY <1>0, DecoderIs DEF Funct7, RegReg
  <2> QED
    BY <1>1, <2>1, <2>2, <2>3, TheIs, EmitIs, InvalidIs
<1>5. CASE F7(i) # 1 /\ F3(i) \notin {0, 5}
  <2>1. /\ F7(i) = 0 => OfR(i) = {table[F3(i) + 1]}
        /\ F7(i) # 0 => OfR(i) = {}
    BY <1>0, <1>5, FixedIs DEF OfR, Manual!Matching, Manual!RType
  <2>2. Op(i) = IF F7(i) = 0
                  THEN Emit(table[F3(i) + 1], Field(i, 7, 5), Field(i, 15, 5), Field(i, 20, 5), 0) ELSE Invalid
    BY <1>0, <1>5, DecoderIs DEF Op, RegReg, Lookup
  <2> HIDE DEF table
  <2> QED
    BY <1>1, <2>1, <2>2, TheIs, EmitIs, InvalidIs
<1> QED
  BY <1>2, <1>3, <1>4, <1>5

(* Their forms on words *)
LEMMA Op32Is ==
  ASSUME NEW i \in WordsOfText, NEW pc, Opcode(i) = 59
  PROVE  Op32(i) = Manual!Wide(i, pc)
<1> DEFINE products == <<"MULW", None, None, None, "DIVW", "DIVUW", "REMW", "REMUW">>
<1>0. i \in Int
  BY SMT DEF WordsOfText
<1>1. Manual!Wide(i, pc) = IF OfR(i) = {} THEN Manual!Illegal
                           ELSE <<Manual!I(Manual!The(OfR(i)), Field(i, 7, 5), Field(i, 15, 5), Field(i, 20, 5), 0)>>
  <2>1. i # 115 /\ i # 2^20 + 115
    BY SMT DEF Opcode, Field
  <2>2. OfI(i) = {} /\ OfS(i) = {} /\ OfB(i) = {} /\ Of64(i) = {} /\ Of32(i) = {}
    BY <1>0, TableOfOpcode
  <2> QED
    BY <2>1, <2>2, WideIs
<1>2. CASE F7(i) = 1
  <2>1. F3(i) \in {1, 2, 3} => OfR(i) = {} /\ products[F3(i) + 1] = None
    BY <1>2 DEF OfR, Manual!Matching, Manual!RType
  <2>2. F3(i) \notin {1, 2, 3} => OfR(i) = {products[F3(i) + 1]} /\ products[F3(i) + 1] # None
    BY <1>0, <1>2, FixedIs DEF OfR, Manual!Matching, Manual!RType, None
  <2>3. Op32(i) = IF products[F3(i) + 1] = None THEN Invalid
                  ELSE Emit(products[F3(i) + 1], Field(i, 7, 5), Field(i, 15, 5), Field(i, 20, 5), 0)
    BY <1>0, <1>2, DecoderIs DEF Op32, Op32MulDiv, NotFound, RegReg, Lookup
  <2> HIDE DEF products
  <2> QED
    BY <1>1, <2>1, <2>2, <2>3, TheIs, EmitIs, InvalidIs
<1>3. CASE F7(i) # 1 /\ F3(i) = 0
  <2>1. /\ F7(i) = 0 => OfR(i) = {"ADD_EXT32"}
        /\ F7(i) = 32 => OfR(i) = {"SUB_EXT32"}
        /\ F7(i) \notin {0, 32} => OfR(i) = {}
    BY <1>3 DEF OfR, Manual!Matching, Manual!RType
  <2>2. Op32(i) = Funct7(i, "ADD_EXT32", "SUB_EXT32")
    BY <1>0, <1>3, DecoderIs DEF Op32
  <2>3. Funct7(i, "ADD_EXT32", "SUB_EXT32") =
          CASE F7(i) = 0 -> Emit("ADD_EXT32", Field(i, 7, 5), Field(i, 15, 5), Field(i, 20, 5), 0)
            [] F7(i) = 32 -> Emit("SUB_EXT32", Field(i, 7, 5), Field(i, 15, 5), Field(i, 20, 5), 0)
            [] OTHER -> Invalid
    BY <1>0, DecoderIs DEF Funct7, RegReg
  <2> QED
    BY <1>1, <2>1, <2>2, <2>3, TheIs, EmitIs, InvalidIs
<1>4. CASE F7(i) # 1 /\ F3(i) = 5
  <2>1. /\ F7(i) = 0 => OfR(i) = {"SRL_EXT32"}
        /\ F7(i) = 32 => OfR(i) = {"SRA_EXT32"}
        /\ F7(i) \notin {0, 32} => OfR(i) = {}
    BY <1>4 DEF OfR, Manual!Matching, Manual!RType
  <2>2. Op32(i) = Funct7(i, "SRL_EXT32", "SRA_EXT32")
    BY <1>0, <1>4, DecoderIs DEF Op32
  <2>3. Funct7(i, "SRL_EXT32", "SRA_EXT32") =
          CASE F7(i) = 0 -> Emit("SRL_EXT32", Field(i, 7, 5), Field(i, 15, 5), Field(i, 20, 5), 0)
            [] F7(i) = 32 -> Emit("SRA_EXT32", Field(i, 7, 5), Field(i, 15, 5), Field(i, 20, 5), 0)
            [] OTHER -> Invalid
    BY <1>0, DecoderIs DEF Funct7, RegReg
  <2> QED
    BY <1>1, <2>1, <2>2, <2>3, TheIs, EmitIs, InvalidIs
<1>5. CASE F7(i) # 1 /\ F3(i) \notin {0, 5}
  <2>1. /\ F7(i) = 0 /\ F3(i) = 1 => OfR(i) = {"SLL_EXT32"}
        /\ F7(i) # 0 \/ F3(i) # 1 => OfR(i) = {}
    BY <1>5 DEF OfR, Manual!Matching, Manual!RType
  <2>2. Op32(i) = IF F7(i) = 0 /\ F3(i) = 1
                  THEN Emit("SLL_EXT32", Field(i, 7, 5), Field(i, 15, 5), Field(i, 20, 5), 0) ELSE Invalid
    BY <1>0, <1>5, DecoderIs DEF Op32, RegReg
  <2> QED
    BY <1>1, <2>1, <2>2, TheIs, EmitIs, InvalidIs
<1> QED
  BY <1>2, <1>3, <1>4, <1>5

(* lui *)
LEMMA LuiIs ==
  ASSUME NEW i \in WordsOfText, NEW pc, Opcode(i) = 55
  PROVE  Lui(i) = Manual!Wide(i, pc)
<1>0. i \in Int
  BY SMT DEF WordsOfText
<1>1. Manual!Wide(i, pc) = <<Manual!I("LI", Field(i, 7, 5), 0, 0, Imm32("U", i))>>
  <2>1. i # 115 /\ i # 2^20 + 115
    BY SMT DEF Opcode, Field
  <2>2. OfR(i) = {} /\ OfI(i) = {} /\ OfS(i) = {} /\ OfB(i) = {} /\ Of64(i) = {} /\ Of32(i) = {}
    BY <1>0, TableOfOpcode
  <2> QED
    BY <2>1, <2>2, WideIs
<1>2. Lui(i) = Emit("LI", Field(i, 7, 5), 0, 0, Imm32("U", i))
  BY <1>0, DecoderIs DEF Lui, Zero
<1> QED
  BY <1>1, <1>2, EmitIs

(* auipc *)
LEMMA AuipcIs ==
  ASSUME NEW i \in WordsOfText, NEW pc, Opcode(i) = 23
  PROVE  Auipc(i, pc) = Manual!Wide(i, pc)
<1>0. i \in Int
  BY SMT DEF WordsOfText
<1>1. Manual!Wide(i, pc) = <<Manual!I("LI", Field(i, 7, 5), 0, 0, pc + Imm32("U", i))>>
  <2>1. i # 115 /\ i # 2^20 + 115
    BY SMT DEF Opcode, Field
  <2>2. OfR(i) = {} /\ OfI(i) = {} /\ OfS(i) = {} /\ OfB(i) = {} /\ Of64(i) = {} /\ Of32(i) = {}
    BY <1>0, TableOfOpcode
  <2> QED
    BY <2>1, <2>2, WideIs
<1>2. Auipc(i, pc) = Emit("LI", Field(i, 7, 5), 0, 0, pc + Imm32("U", i))
  BY <1>0, DecoderIs DEF Auipc, Zero
<1> QED
  BY <1>1, <1>2, EmitIs

(* jalr *)
LEMMA JalrIs ==
  ASSUME NEW i \in WordsOfText, NEW pc, Opcode(i) = 103
  PROVE  Jalr(i) = Manual!Wide(i, pc)
<1>0. i \in Int
  BY SMT DEF WordsOfText
<1>1. Manual!Wide(i, pc) = <<Manual!I("JALR", Field(i, 7, 5), Field(i, 15, 5), 0, Imm32("I", i))>>
  <2>1. i # 115 /\ i # 2^20 + 115
    BY SMT DEF Opcode, Field
  <2>2. OfR(i) = {} /\ OfI(i) = {} /\ OfS(i) = {} /\ OfB(i) = {} /\ Of64(i) = {} /\ Of32(i) = {}
    BY <1>0, TableOfOpcode
  <2> QED
    BY <2>1, <2>2, WideIs
<1>2. Jalr(i) = Emit("JALR", Field(i, 7, 5), Field(i, 15, 5), 0, Imm32("I", i))
  BY <1>0, DecoderIs DEF Jalr, Zero
<1> QED
  BY <1>1, <1>2, EmitIs

(* jal, the only one of two operations *)
LEMMA JalIs ==
  ASSUME NEW i \in WordsOfText, NEW pc, Opcode(i) = 111
  PROVE  Jal(i, pc) = Manual!Wide(i, pc)
<1>0. i \in Int
  BY SMT DEF WordsOfText
<1>1. Manual!Wide(i, pc)
        = <<Manual!I("LI", Field(i, 7, 5), 0, 0, pc + 4), Manual!I("JMP", 0, 0, 0, pc + ImmJ(i))>>
  <2>1. i # 115 /\ i # 2^20 + 115
    BY SMT DEF Opcode, Field
  <2>2. OfR(i) = {} /\ OfI(i) = {} /\ OfS(i) = {} /\ OfB(i) = {} /\ Of64(i) = {} /\ Of32(i) = {}
    BY <1>0, TableOfOpcode
  <2> QED
    BY <2>1, <2>2, WideIs
<1>2. Jal(i, pc) = Emit("LI", Field(i, 7, 5), 0, 0, pc + 4) \o Emit("JMP", 0, 0, 0, pc + ImmJ(i))
  BY <1>0, DecoderIs DEF Jal, Zero
<1> DEFINE link == Manual!I("LI", Field(i, 7, 5), 0, 0, pc + 4)
           jump == Manual!I("JMP", 0, 0, 0, pc + ImmJ(i))
<1>3. Jal(i, pc) = <<link>> \o <<jump>>
  BY <1>2, EmitIs
<1>4. <<link>> \o <<jump>> = <<link, jump>>
  <2> HIDE DEF link, jump
  <2>1. link \in {link, jump} /\ jump \in {link, jump}
    OBVIOUS
  <2> QED
    BY <2>1, PairIs
<1> QED
  BY <1>1, <1>3, <1>4

(* ecall and ebreak, of which the manual defines one encoding each *)
LEMMA SystemIs ==
  ASSUME NEW i \in WordsOfText, NEW pc, Opcode(i) = 115, ~Manual!Lenient(i)
  PROVE  System(i) = Manual!Wide(i, pc)
<1>0. i \in Int
  BY SMT DEF WordsOfText
<1>1. Manual!Wide(i, pc) = CASE i = 115 -> <<Manual!I("ECALL", 0, 0, 0, 0)>>
                             [] i = 2^20 + 115 -> <<Manual!I("EBREAK", 0, 0, 0, 0)>>
                             [] OTHER -> Manual!Illegal
  <2>1. OfR(i) = {} /\ OfI(i) = {} /\ OfS(i) = {} /\ OfB(i) = {} /\ Of64(i) = {} /\ Of32(i) = {}
    BY <1>0, TableOfOpcode
  <2> QED
    BY <2>1, WideIs
<1>2. System(i) = CASE F3(i) = 0 /\ Imm32("I", i) = 0 -> Emit("ECALL", 0, 0, 0, 0)
                    [] F3(i) = 0 /\ Imm32("I", i) = 1 -> Emit("EBREAK", 0, 0, 0, 0)
                    [] OTHER -> Invalid
  BY <1>0, DecoderIs DEF System, Zero
<1>3. F3(i) = 0 /\ Imm32("I", i) \in {0, 1} => Field(i, 7, 13) = 0
  <2>1. Manual!IBits(i, 6, 0) = 115 /\ Manual!IBits(i, 14, 12) = F3(i) /\ Manual!IBits(i, 19, 7) = Field(i, 7, 13)
    BY DEF Manual!IBits, Opcode, F3, Field
  <2>2. Manual!ImmOfI(i) = Imm32("I", i)
    BY ImmediateI
  <2> QED
    BY <2>1, <2>2 DEF Manual!Lenient
<1>4. Imm32("I", i) = i \div 2^20
  <2>1. Imm32("I", i) = (IF Bit(i, 31) = 1 THEN -4096 ELSE 0) + Field(i, 20, 12)
    BY <1>0, SMT DEF Imm32, Sign
  <2>2. CASE i < 0
    BY <2>1, <2>2, SMT DEF Bit, Field, WordsOfText
  <2>3. CASE ~(i < 0)
    BY <2>1, <2>3, SMT DEF Bit, Field, WordsOfText
  <2> QED
    BY <2>2, <2>3
<1>5. i = 2^20 * (i \div 2^20) + 2^7 * Field(i, 7, 13) + 115
  BY <1>0, SMT DEF Opcode, Field
<1>6. i = 115 <=> F3(i) = 0 /\ Imm32("I", i) = 0
  <2>1. i = 115 => F3(i) = 0 /\ Imm32("I", i) = 0
    BY <1>4, SMT DEF F3, Field
  <2>2. ASSUME F3(i) = 0, Imm32("I", i) = 0
        PROVE  i = 115
    <3>1. i \div 2^20 = 0 /\ Field(i, 7, 13) = 0
      BY <1>3, <1>4, <2>2, SMT
    <3> QED
      BY <1>5, <3>1, SMT
  <2> QED
    BY <2>1, <2>2
<1>7. i = 2^20 + 115 <=> F3(i) = 0 /\ Imm32("I", i) = 1
  <2>1. i = 2^20 + 115 => F3(i) = 0 /\ Imm32("I", i) = 1
    BY <1>4, SMT DEF F3, Field
  <2>2. F3(i) = 0 /\ Imm32("I", i) = 1 => i = 2^20 + 115
    BY <1>0, <1>3, <1>4, <1>5, SMT
  <2> QED
    BY <2>1, <2>2, SMT
<1> QED
  BY <1>1, <1>2, <1>6, <1>7, EmitIs, InvalidIs, SMT

(* No operation at all has no effect. *)
LEMMA EffectOfNothing == Effect(<<>>) = <<>>
BY DEF Effect, FlattenSeq

(* One operation alone shows what that operation shows. *)
LEMMA EffectOfOne ==
  ASSUME NEW o
  PROVE  Effect(<<o>>) = ShownBy(o)
<1> DEFINE ss == [k \in DOMAIN <<o>> |-> ShownBy(<<o>>[k])]
           S == {Canonical(o)}
<1>1. DOMAIN ss = 1..1 /\ ss[1] = ShownBy(o)
  OBVIOUS
<1>2. ShownBy(o) \in Seq(S)
  <2>1. <<>> \in Seq(S) /\ <<Canonical(o)>> \in Seq(S)
    OBVIOUS
  <2> HIDE DEF S
  <2> QED
    BY <2>1, Zenon DEF ShownBy
<1>3. Len(ss) = 1
  <2>1. ss \in Seq({ShownBy(o)})
    BY <1>1
  <2> HIDE DEF ss
  <2> QED
    BY <1>1, <2>1
<1>4. FlattenSeq(ss) = ss[1]
  <2> HIDE DEF ss, S
  <2>1. \A k \in 1..Len(ss) : ss[k] \in Seq(S)
    BY <1>1, <1>2, <1>3
  <2>2. Len(ss) \in Nat \ {0}
    BY <1>3
  <2>3. PICK f : f[1] = ss[1] /\ FlattenSeq(ss) = f[Len(ss)]
    BY <2>1, <2>2, FlattenIs, Zenon
  <2> QED
    BY <1>3, <2>3
<1> QED
  BY <1>1, <1>4 DEF Effect

(* An operation that changes nothing is not shown. *)
LEMMA IdleOperation ==
  ASSUME NEW o, IsIdle(o)
  PROVE  Effect(<<o>>) = <<>>
BY EffectOfOne DEF ShownBy

(* Two operations of one canonical form are shown alike. *)
LEMMA SameShown ==
  ASSUME NEW o, NEW p, ~IsIdle(o), ~IsIdle(p), Canonical(o) = Canonical(p)
  PROVE  Effect(<<o>>) = Effect(<<p>>)
BY EffectOfOne DEF ShownBy

(* An instruction of 32 bits is translated to what it means. *)
LEMMA WideMeans ==
  ASSUME NEW i \in WordsOfText, NEW pc, ~Manual!Lenient(i)
  PROVE  Effect(TranslateRv32(i, pc)) = Effect(Manual!Wide(i, pc))
<1> DEFINE handled == {3, 15, 19, 23, 27, 35, 51, 55, 59, 99, 103, 111, 115}
<1>0. i \in Int
  BY SMT DEF WordsOfText
<1>1. TranslateRv32(i, pc) =
        CASE Opcode(i) = 3   -> Load(i)
          [] Opcode(i) = 15  -> MiscMem(i)
          [] Opcode(i) = 19  -> OpImm(i)
          [] Opcode(i) = 23  -> Auipc(i, pc)
          [] Opcode(i) = 27  -> OpImm32(i)
          [] Opcode(i) = 35  -> Store(i)
          [] Opcode(i) = 51  -> Op(i)
          [] Opcode(i) = 55  -> Lui(i)
          [] Opcode(i) = 59  -> Op32(i)
          [] Opcode(i) = 99  -> Branch(i, pc)
          [] Opcode(i) = 103 -> Jalr(i)
          [] Opcode(i) = 111 -> Jal(i, pc)
          [] Opcode(i) = 115 -> System(i)
          [] OTHER -> Invalid
  BY <1>0, DecoderIs, Zenon DEF TranslateRv32
<1>2. CASE Opcode(i) = 15
  <2>1. MiscMem(i) = <<Manual!I("NOP", 0, 0, 0, 0)>>
    BY EmitIs DEF MiscMem, Zero
  <2>2. IsIdle(Manual!I("NOP", 0, 0, 0, 0))
    BY DEF IsIdle, Code!Discarded, Code!MustRun, Manual!I
  <2>3. Effect(TranslateRv32(i, pc)) = <<>>
    BY <1>1, <1>2, <2>1, <2>2, IdleOperation
  <2>4. Manual!Wide(i, pc) = <<>>
    <3>1. i # 115 /\ i # 2^20 + 115
      BY <1>2, SMT DEF Opcode, Field
    <3>2. OfR(i) = {} /\ OfI(i) = {} /\ OfS(i) = {} /\ OfB(i) = {} /\ Of64(i) = {} /\ Of32(i) = {}
      BY <1>0, <1>2, TableOfOpcode
    <3> QED
      BY <1>2, <3>1, <3>2, WideIs
  <2> QED
    BY <2>3, <2>4, EffectOfNothing
<1>3. CASE Opcode(i) \in handled \ {15}
  <2>1. Opcode(i) = 3 => Load(i) = Manual!Wide(i, pc)
    BY LoadIs
  <2>2. Opcode(i) = 19 => OpImm(i) = Manual!Wide(i, pc)
    BY OpImmIs
  <2>3. Opcode(i) = 23 => Auipc(i, pc) = Manual!Wide(i, pc)
    BY AuipcIs
  <2>4. Opcode(i) = 27 => OpImm32(i) = Manual!Wide(i, pc)
    BY OpImm32Is
  <2>5. Opcode(i) = 35 => Store(i) = Manual!Wide(i, pc)
    BY StoreIs
  <2>6. Opcode(i) = 51 => Op(i) = Manual!Wide(i, pc)
    BY OpIs
  <2>7. Opcode(i) = 55 => Lui(i) = Manual!Wide(i, pc)
    BY LuiIs
  <2>8. Opcode(i) = 59 => Op32(i) = Manual!Wide(i, pc)
    BY Op32Is
  <2>9. Opcode(i) = 99 => Branch(i, pc) = Manual!Wide(i, pc)
    BY BranchIs
  <2>10. Opcode(i) = 103 => Jalr(i) = Manual!Wide(i, pc)
    BY JalrIs
  <2>11. Opcode(i) = 111 => Jal(i, pc) = Manual!Wide(i, pc)
    BY JalIs
  <2>12. Opcode(i) = 115 => System(i) = Manual!Wide(i, pc)
    BY SystemIs
  <2>13. TranslateRv32(i, pc) = Manual!Wide(i, pc)
    BY <1>1, <1>3, <2>1, <2>2, <2>3, <2>4, <2>5, <2>6, <2>7, <2>8, <2>9, <2>10, <2>11, <2>12
  <2> QED
    BY <2>13
<1>4. CASE Opcode(i) \notin handled
  <2>1. TranslateRv32(i, pc) = Invalid
    BY <1>1, <1>4
  <2>2. i # 115 /\ i # 2^20 + 115
    BY <1>4, SMT DEF Opcode, Field
  <2>3. OfR(i) = {} /\ OfI(i) = {} /\ OfS(i) = {} /\ OfB(i) = {} /\ Of64(i) = {} /\ Of32(i) = {}
    BY <1>0, <1>4, TableOfOpcode
  <2>4. Manual!Wide(i, pc) = Manual!Illegal
    BY <1>4, <2>2, <2>3, WideIs
  <2> QED
    BY <2>1, <2>4, InvalidIs
<1> QED
  BY <1>2, <1>3, <1>4

(* The decoder's fields of a half-word are those of the manual. *)
LEMMA HalfFields ==
  ASSUME NEW i \in Int
  PROVE  /\ RVC(i).op = Manual!IBits(i, 1, 0) /\ RVC(i).funct3 = Manual!Funct3(i)
         /\ RVC(i).misc = Manual!IBits(i, 11, 10) /\ RVC(i).alu = Manual!IBits(i, 6, 5)
         /\ RVC(i).bit12 = Manual!IBit(i, 12) /\ RVC(i).rd = Manual!Rd(i) /\ RVC(i).rs2 = Manual!Rs2(i)
         /\ RVC(i).rs1p = Manual!Rs1Prime(i) /\ RVC(i).rs2p = Manual!RdPrime(i)
<1>1. /\ Manual!IBits(i, 1, 0) = Field(i, 0, 2) /\ Manual!Funct3(i) = Field(i, 13, 3)
      /\ Manual!IBits(i, 11, 10) = Field(i, 10, 2) /\ Manual!IBits(i, 6, 5) = Field(i, 5, 2)
      /\ Manual!IBit(i, 12) = Bit(i, 12) /\ Manual!Rd(i) = Field(i, 7, 5) /\ Manual!Rs2(i) = Field(i, 2, 5)
      /\ Manual!Rs1Prime(i) = 8 + Field(i, 7, 3) /\ Manual!RdPrime(i) = 8 + Field(i, 2, 3)
  BY DEF Manual!IBits, Manual!IBit, Bit, Field, Manual!Funct3, Manual!Rd, Manual!Rs2, Manual!Rs1Prime,
         Manual!RdPrime
<1> QED
  BY <1>1 DEF RVC

(* What those fields can be *)
LEMMA HalfFieldsRange ==
  ASSUME NEW i \in Int
  PROVE  /\ Manual!Funct3(i) \in 0..7 /\ Manual!IBits(i, 11, 10) \in 0..3 /\ Manual!IBits(i, 6, 5) \in 0..3
         /\ Manual!IBit(i, 12) \in 0..1 /\ Manual!Rd(i) \in 0..31 /\ Manual!Rs2(i) \in 0..31
         /\ Manual!Rs1Prime(i) \in 8..15 /\ Manual!RdPrime(i) \in 8..15
BY SMT DEF Manual!IBits, Manual!IBit, Manual!Funct3, Manual!Rd, Manual!Rs2, Manual!Rs1Prime, Manual!RdPrime

(* The immediates of the compressed handlers are those of the manual. *)
LEMMA HalfImmediates ==
  ASSUME NEW i \in Int
  PROVE  /\ RvcShamt(i) = Manual!Imm6(i) /\ Imm16("CI", i) = Manual!SignedImm6(i)
         /\ Imm16("LW", i) = Manual!OffsetW(i) /\ Imm16("LD", i) = Manual!OffsetD(i)
         /\ Imm16("ADDI4SPN", i) = Manual!Sp4n(i) /\ Imm16("ADDI16SP", i) = Manual!Sp16(i)
         /\ Imm16("CI", i) * 4096 = Manual!Upper(i) /\ Imm16("CJ", i) = Manual!Jump(i)
         /\ Imm16("CB", i) = Manual!Beyond(i) /\ Imm16("LWSP", i) = Manual!LoadSpW(i)
         /\ Imm16("LDSP", i) = Manual!LoadSpD(i) /\ Imm16("SWSP", i) = Manual!StoreSpW(i)
         /\ Imm16("SDSP", i) = Manual!StoreSpD(i)
BY ImmediateShamt, ImmediateCI, ImmediateLW, ImmediateLD, ImmediateSpn, ImmediateSp16, ImmediateUpper, ImmediateCJ,
   ImmediateCB, ImmediateLWSP, ImmediateLDSP, ImmediateSWSP, ImmediateSDSP

(* The table of handlers, row by row *)
LEMMA HandlerIs ==
  ASSUME NEW i \in Int, NEW pc
  PROVE  LET f3 == Manual!Funct3(i)
         IN /\ Manual!IBits(i, 1, 0) = 0 =>
                 RvcHandler(i, pc) = IF f3 = 0 THEN Addi4spn(i)
                                     ELSE IF f3 \in {2, 3, 6, 7} THEN LoadStoreP(i) ELSE Invalid
            /\ Manual!IBits(i, 1, 0) = 1 =>
                 RvcHandler(i, pc) = IF f3 \in {0, 1} THEN AddiAddiw(i)
                                     ELSE IF f3 = 2 THEN Li(i)
                                     ELSE IF f3 = 3 THEN LuiAddi16sp(i)
                                     ELSE IF f3 = 4 THEN MiscAlu(i) ELSE RvcJump(i, pc)
            /\ Manual!IBits(i, 1, 0) = 2 =>
                 RvcHandler(i, pc) = IF f3 = 0 THEN Slli(i)
                                     ELSE IF f3 = 4 THEN JrMvJalrAdd(i, pc)
                                     ELSE IF f3 \in {2, 3, 6, 7} THEN LoadStoreSp(i) ELSE Invalid
<1> DEFINE op == Manual!IBits(i, 1, 0)
           f3 == Manual!Funct3(i)
<1>1. RVC(i).op = op /\ RVC(i).funct3 = f3 /\ f3 \in 0..7
  BY HalfFields, HalfFieldsRange
<1> HIDE DEF op, f3
<1>2. CASE op = 0
  BY <1>1, <1>2 DEF RvcHandler, op, f3
<1>3. CASE op = 1
  BY <1>1, <1>3 DEF RvcHandler, op, f3
<1>4. CASE op = 2
  BY <1>1, <1>4 DEF RvcHandler, op, f3
<1> QED
  BY <1>2, <1>3, <1>4 DEF op, f3

(* An operation whose destination is x0 does nothing, if it has no other    *)
(* effect.                                                                  *)
LEMMA NoDestination ==
  ASSUME NEW op \in {"ADDI", "LI", "SLLI", "ADD"}, NEW rs1, NEW rs2, NEW imm
  PROVE  IsIdle(Manual!I(op, 0, rs1, rs2, imm))
BY DEF IsIdle, Code!Discarded, Code!MustRun, Manual!I

(* Neither does one that adds or shifts by zero. *)
LEMMA NoChange ==
  ASSUME NEW op \in {"ADDI", "SLLI", "SRLI", "SRAI"}, NEW rd, NEW rs2
  PROVE  IsIdle(Manual!I(op, rd, rd, rs2, 0))
BY DEF IsIdle, Manual!I

(* The first quadrant: c.addi4spn, and the accesses through a register *)
LEMMA Quadrant0Means ==
  ASSUME NEW i \in Int, NEW pc, Manual!IBits(i, 1, 0) = 0, Manual!Quadrant0(i) # Manual!Reserved
  PROVE  RvcHandler(i, pc) = Manual!Quadrant0(i)
<1> DEFINE f3 == Manual!Funct3(i)
           rd == Manual!RdPrime(i)
           rs1 == Manual!Rs1Prime(i)
<1>1. f3 \in 0..7
  BY HalfFieldsRange
<1>2. CASE f3 = 0
  <2>1. Manual!Quadrant0(i) = Manual!NonZero(Manual!Sp4n(i), <<Manual!I("ADDI", rd, 2, 0, Manual!Sp4n(i))>>)
    BY <1>2 DEF Manual!Quadrant0
  <2>2. Manual!Sp4n(i) # 0
    BY <2>1 DEF Manual!NonZero
  <2>3. RvcHandler(i, pc) = Addi4spn(i)
    BY <1>2, HandlerIs
  <2>4. Addi4spn(i) = Emit("ADDI", rd, 2, 0, Manual!Sp4n(i))
    BY <2>2, HalfFields, HalfImmediates DEF Addi4spn, Unless, Imm, Sp, Zero
  <2> QED
    BY <2>1, <2>2, <2>3, <2>4, EmitIs DEF Manual!NonZero
<1>3. CASE f3 \in {2, 3, 6, 7}
  <2>1. RvcHandler(i, pc) = LoadStoreP(i)
    BY <1>3, HandlerIs
  <2>2. CASE f3 = 2
    BY <2>1, <2>2, HalfFields, HalfImmediates, EmitIs DEF LoadStoreP, Imm, Zero, Manual!Quadrant0
  <2>3. CASE f3 = 3
    BY <2>1, <2>3, HalfFields, HalfImmediates, EmitIs DEF LoadStoreP, Imm, Zero, Manual!Quadrant0
  <2>4. CASE f3 = 6
    BY <2>1, <2>4, HalfFields, HalfImmediates, EmitIs DEF LoadStoreP, Imm, Zero, Manual!Quadrant0
  <2>5. CASE f3 = 7
    BY <2>1, <2>5, HalfFields, HalfImmediates, EmitIs DEF LoadStoreP, Imm, Zero, Manual!Quadrant0
  <2> QED
    BY <1>3, <2>2, <2>3, <2>4, <2>5
<1>4. CASE f3 = 4
  BY <1>4 DEF Manual!Quadrant0
<1>5. CASE f3 \in {1, 5}
  BY <1>5, HandlerIs, InvalidIs DEF Manual!Quadrant0
<1> QED
  BY <1>1, <1>2, <1>3, <1>4, <1>5

(* The arithmetic of the second quadrant *)
LEMMA ArithmeticMeans ==
  ASSUME NEW i \in Int, Manual!Arithmetic(i) # Manual!Reserved
  PROVE  Effect(MiscAlu(i)) = Effect(Manual!Arithmetic(i))
<1> DEFINE kind == Manual!IBits(i, 11, 10)
           rs1 == Manual!Rs1Prime(i)
           rs2 == Manual!RdPrime(i)
<1>1. kind \in 0..3 /\ Manual!IBit(i, 12) \in 0..1 /\ Manual!IBits(i, 6, 5) \in 0..3
  BY HalfFieldsRange
<1>2. ASSUME NEW op \in {"SRLI", "SRAI"}
      PROVE  Effect(Unless(RvcShamt(i) = 0, Imm(op, rs1, rs1, RvcShamt(i))))
               = Effect(<<Manual!I(op, rs1, rs1, 0, Manual!Imm6(i))>>)
  <2>1. RvcShamt(i) = Manual!Imm6(i)
    BY HalfImmediates
  <2>2. CASE Manual!Imm6(i) = 0
    <3>1. IsIdle(Manual!I(op, rs1, rs1, 0, Manual!Imm6(i)))
      BY <2>2, NoChange
    <3> QED
      BY <2>1, <2>2, <3>1, IdleOperation, EffectOfNothing DEF Unless, Nothing
  <2>3. CASE Manual!Imm6(i) # 0
    BY <2>1, <2>3, EmitIs DEF Unless, Imm, Zero
  <2> QED
    BY <2>2, <2>3
<1>3. CASE kind = 0
  <2>1. MiscAlu(i) = Unless(RvcShamt(i) = 0, Imm("SRLI", rs1, rs1, RvcShamt(i)))
    BY <1>3, HalfFields DEF MiscAlu
  <2>2. Manual!Arithmetic(i) = <<Manual!I("SRLI", rs1, rs1, 0, Manual!Imm6(i))>>
    BY <1>3 DEF Manual!Arithmetic
  <2> QED
    BY <1>2, <2>1, <2>2
<1>4. CASE kind = 1
  <2>1. MiscAlu(i) = Unless(RvcShamt(i) = 0, Imm("SRAI", rs1, rs1, RvcShamt(i)))
    BY <1>4, HalfFields DEF MiscAlu
  <2>2. Manual!Arithmetic(i) = <<Manual!I("SRAI", rs1, rs1, 0, Manual!Imm6(i))>>
    BY <1>4 DEF Manual!Arithmetic
  <2> QED
    BY <1>2, <2>1, <2>2
<1>5. CASE kind = 2
  <2>1. MiscAlu(i) = Imm("ANDI", rs1, rs1, Manual!SignedImm6(i))
    BY <1>5, HalfFields, HalfImmediates DEF MiscAlu
  <2>2. Manual!Arithmetic(i) = <<Manual!I("ANDI", rs1, rs1, 0, Manual!SignedImm6(i))>>
    BY <1>5 DEF Manual!Arithmetic
  <2> QED
    BY <2>1, <2>2, EmitIs DEF Imm, Zero
<1>6. CASE kind = 3 /\ Manual!IBit(i, 12) = 0
  <2> DEFINE op == <<"SUB", "XOR", "OR", "AND">>[Manual!IBits(i, 6, 5) + 1]
  <2>1. MiscAlu(i) = Emit(op, rs1, rs1, rs2, 0)
    BY <1>6, HalfFields DEF MiscAlu
  <2>2. Manual!Arithmetic(i) = <<Manual!I(op, rs1, rs1, rs2, 0)>>
    BY <1>6 DEF Manual!Arithmetic
  <2> QED
    BY <2>1, <2>2, EmitIs
<1>7. CASE kind = 3 /\ Manual!IBit(i, 12) = 1
  <2> DEFINE op == <<"SUB_EXT32", "ADD_EXT32">>[Manual!IBits(i, 6, 5) + 1]
  <2>1. Manual!IBit(i, 6) = 0
    BY <1>7 DEF Manual!Arithmetic
  <2>2. Manual!IBits(i, 6, 5) \in {0, 1}
    BY <2>1, SMT DEF Manual!IBit, Manual!IBits
  <2>3. MiscAlu(i) = Emit(op, rs1, rs1, rs2, 0)
    BY <1>7, <2>2, HalfFields DEF MiscAlu
  <2>4. Manual!Arithmetic(i) = <<Manual!I(op, rs1, rs1, rs2, 0)>>
    BY <1>7, <2>1 DEF Manual!Arithmetic
  <2> QED
    BY <2>3, <2>4, EmitIs
<1> QED
  BY <1>1, <1>3, <1>4, <1>5, <1>6, <1>7

(* A comparison with x0 has a name of its own. *)
LEMMA BranchIfZero ==
  ASSUME NEW rs1, NEW imm
  PROVE  Effect(<<Manual!I("BEQZ", 0, rs1, 0, imm)>>) = Effect(<<Manual!I("BEQ", 0, rs1, 0, imm)>>)
<1> DEFINE o == Manual!I("BEQZ", 0, rs1, 0, imm)
           p == Manual!I("BEQ", 0, rs1, 0, imm)
<1>1. ~IsIdle(o) /\ ~IsIdle(p)
  BY DEF IsIdle, Code!Discarded, Code!MustRun, Manual!I
<1>2. Canonical(o) = p /\ Canonical(p) = p
  BY DEF Canonical, Manual!I, Zero
<1> HIDE DEF o, p
<1>3. Effect(<<o>>) = Effect(<<p>>)
  BY <1>1, <1>2, SameShown
<1> QED
  BY <1>3 DEF o, p

(* The second quadrant *)
LEMMA Quadrant1Means ==
  ASSUME NEW i \in Int, NEW pc, Manual!IBits(i, 1, 0) = 1, Manual!Quadrant1(i, pc) # Manual!Reserved
  PROVE  Effect(RvcHandler(i, pc)) = Effect(Manual!Quadrant1(i, pc))
<1> DEFINE f3 == Manual!Funct3(i)
           rd == Manual!Rd(i)
           rs1 == Manual!Rs1Prime(i)
           imm == Manual!SignedImm6(i)
<1>1. f3 \in 0..7 /\ rd \in 0..31
  BY HalfFieldsRange
<1>2. CASE f3 = 0
  <2>1. RvcHandler(i, pc) = AddiAddiw(i)
    BY <1>2, HandlerIs
  <2>2. AddiAddiw(i) = Unless(rd = 0, Emit("ADDI", rd, rd, 0, imm))
    BY <1>2, HalfFields, HalfImmediates DEF AddiAddiw, Imm, Zero
  <2>3. Manual!Quadrant1(i, pc) = <<Manual!I("ADDI", rd, rd, 0, imm)>>
    BY <1>2 DEF Manual!Quadrant1
  <2>4. CASE rd = 0
    <3>1. IsIdle(Manual!I("ADDI", 0, rd, 0, imm))
      BY NoDestination
    <3> QED
      BY <2>1, <2>2, <2>3, <2>4, <3>1, IdleOperation, EffectOfNothing DEF Unless, Nothing
  <2>5. CASE rd # 0
    BY <2>1, <2>2, <2>3, <2>5, EmitIs DEF Unless
  <2> QED
    BY <2>4, <2>5
<1>3. CASE f3 = 1
  <2>1. RvcHandler(i, pc) = AddiAddiw(i)
    BY <1>3, HandlerIs
  <2>2. AddiAddiw(i) = Unless(rd = 0, Emit("ADDI_EXT32", rd, rd, 0, imm))
    BY <1>3, HalfFields, HalfImmediates DEF AddiAddiw, Imm, Zero
  <2>3. Manual!Quadrant1(i, pc) = Manual!NonZero(rd, <<Manual!I("ADDI_EXT32", rd, rd, 0, imm)>>)
    BY <1>3 DEF Manual!Quadrant1
  <2>4. rd # 0
    BY <2>3 DEF Manual!NonZero
  <2> QED
    BY <2>1, <2>2, <2>3, <2>4, EmitIs DEF Unless, Manual!NonZero
<1>4. CASE f3 = 2
  <2>1. RvcHandler(i, pc) = Li(i)
    BY <1>4, HandlerIs
  <2>2. Li(i) = Unless(rd = 0, Emit("LI", rd, 0, 0, imm))
    BY HalfFields, HalfImmediates DEF Li, Imm, Zero
  <2>3. Manual!Quadrant1(i, pc) = <<Manual!I("LI", rd, 0, 0, imm)>>
    BY <1>4 DEF Manual!Quadrant1
  <2>4. CASE rd = 0
    <3>1. IsIdle(Manual!I("LI", 0, 0, 0, imm))
      BY NoDestination
    <3> QED
      BY <2>1, <2>2, <2>3, <2>4, <3>1, IdleOperation, EffectOfNothing DEF Unless, Nothing
  <2>5. CASE rd # 0
    BY <2>1, <2>2, <2>3, <2>5, EmitIs DEF Unless
  <2> QED
    BY <2>4, <2>5
<1>5. CASE f3 = 3 /\ rd = 2
  <2>1. RvcHandler(i, pc) = LuiAddi16sp(i)
    BY <1>5, HandlerIs
  <2>2. LuiAddi16sp(i) = Emit("ADDI", 2, 2, 0, Manual!Sp16(i))
    BY <1>5, HalfFields, HalfImmediates DEF LuiAddi16sp, Imm, Sp, Zero
  <2>3. Manual!Quadrant1(i, pc) = Manual!NonZero(Manual!Sp16(i), <<Manual!I("ADDI", 2, 2, 0, Manual!Sp16(i))>>)
    BY <1>5 DEF Manual!Quadrant1
  <2>4. Manual!Sp16(i) # 0
    BY <2>3 DEF Manual!NonZero
  <2> QED
    BY <2>1, <2>2, <2>3, <2>4, EmitIs DEF Manual!NonZero
<1>6. CASE f3 = 3 /\ rd # 2
  <2>1. RvcHandler(i, pc) = LuiAddi16sp(i)
    BY <1>6, HandlerIs
  <2>2. LuiAddi16sp(i) = Unless(rd = 0, Emit("LI", rd, 0, 0, Manual!Upper(i)))
    BY <1>6, HalfFields, HalfImmediates DEF LuiAddi16sp, Imm, Sp, Zero
  <2>3. Manual!Quadrant1(i, pc) = Manual!NonZero(Manual!Upper(i), <<Manual!I("LI", rd, 0, 0, Manual!Upper(i))>>)
    BY <1>6 DEF Manual!Quadrant1
  <2>4. Manual!Quadrant1(i, pc) = <<Manual!I("LI", rd, 0, 0, Manual!Upper(i))>>
    BY <2>3 DEF Manual!NonZero
  <2>5. CASE rd = 0
    <3>1. IsIdle(Manual!I("LI", 0, 0, 0, Manual!Upper(i)))
      BY NoDestination
    <3> QED
      BY <2>1, <2>2, <2>4, <2>5, <3>1, IdleOperation, EffectOfNothing DEF Unless, Nothing
  <2>6. CASE rd # 0
    BY <2>1, <2>2, <2>4, <2>6, EmitIs DEF Unless
  <2> QED
    BY <2>5, <2>6
<1>7. CASE f3 = 4
  <2>1. RvcHandler(i, pc) = MiscAlu(i)
    BY <1>7, HandlerIs
  <2>2. Manual!Quadrant1(i, pc) = Manual!Arithmetic(i)
    BY <1>7 DEF Manual!Quadrant1
  <2> QED
    BY <2>1, <2>2, ArithmeticMeans
<1>8. CASE f3 \in {5, 6, 7}
  <2>1. RvcHandler(i, pc) = RvcJump(i, pc)
    BY <1>8, HandlerIs
  <2>2. CASE f3 = 5
    BY <2>1, <2>2, HalfFields, HalfImmediates, EmitIs DEF RvcJump, Imm, Zero, Manual!Quadrant1
  <2>3. CASE f3 = 6
    <3>1. RvcJump(i, pc) = <<Manual!I("BEQZ", 0, rs1, 0, pc + Manual!Beyond(i))>>
      BY <2>3, HalfFields, HalfImmediates, EmitIs DEF RvcJump, Imm, Zero
    <3>2. Manual!Quadrant1(i, pc) = <<Manual!I("BEQ", 0, rs1, 0, pc + Manual!Beyond(i))>>
      BY <2>3 DEF Manual!Quadrant1
    <3> QED
      BY <2>1, <3>1, <3>2, BranchIfZero
  <2>4. CASE f3 = 7
    BY <2>1, <2>4, HalfFields, HalfImmediates, EmitIs DEF RvcJump, Imm, Zero, Manual!Quadrant1
  <2> QED
    BY <1>8, <2>2, <2>3, <2>4
<1> QED
  BY <1>1, <1>2, <1>3, <1>4, <1>5, <1>6, <1>7, <1>8

(* The shift amount of c.slli is what is left of the signed immediate. *)
LEMMA ShiftAmount ==
  ASSUME NEW i \in Int
  PROVE  Imm16("CI", i) % 64 = Manual!Imm6(i)
<1>1. RvcShamt(i) = Manual!Imm6(i)
  BY ImmediateShamt
<1>2. RvcShamt(i) = 32 * Bit(i, 12) + Field(i, 2, 5)
  BY SMT DEF RvcShamt, RVC, Bit, Field
<1>3. Imm16("CI", i) = (IF Bit(i, 12) = 1 THEN -32 ELSE 0) + Field(i, 2, 5)
  BY SMT DEF Imm16, Sign
<1>4. Bit(i, 12) \in 0..1 /\ Field(i, 2, 5) \in 0..31
  BY SMT DEF Bit, Field
<1>5. CASE Bit(i, 12) = 1
  BY <1>1, <1>2, <1>3, <1>4, <1>5, SMT
<1>6. CASE Bit(i, 12) = 0
  BY <1>1, <1>2, <1>3, <1>4, <1>6, SMT
<1> QED
  BY <1>4, <1>5, <1>6

(* A move is an addition to x0, and a jump through a register has no link. *)
LEMMA MoveIsAdd ==
  ASSUME NEW rd \in Nat \ {0}, NEW rs2 \in Nat \ {0}
  PROVE  Effect(<<Manual!I("MOV", rd, 0, rs2, 0)>>) = Effect(<<Manual!I("ADD", rd, 0, rs2, 0)>>)
<1> DEFINE o == Manual!I("MOV", rd, 0, rs2, 0)
           p == Manual!I("ADD", rd, 0, rs2, 0)
<1>1. ~IsIdle(o) /\ ~IsIdle(p)
  BY DEF IsIdle, Code!Discarded, Code!MustRun, Manual!I
<1>2. Canonical(o) = p /\ Canonical(p) = p
  BY DEF Canonical, Manual!I, Zero
<1> HIDE DEF o, p
<1>3. Effect(<<o>>) = Effect(<<p>>)
  BY <1>1, <1>2, SameShown
<1> QED
  BY <1>3 DEF o, p

(* c.jr is a jalr that links nothing. *)
LEMMA JumpIsJalr ==
  ASSUME NEW rs1
  PROVE  Effect(<<Manual!I("JMP_REG", 0, rs1, 0, 0)>>) = Effect(<<Manual!I("JALR", 0, rs1, 0, 0)>>)
<1> DEFINE o == Manual!I("JMP_REG", 0, rs1, 0, 0)
           p == Manual!I("JALR", 0, rs1, 0, 0)
<1>1. ~IsIdle(o) /\ ~IsIdle(p)
  BY DEF IsIdle, Code!Discarded, Code!MustRun, Manual!I
<1>2. Canonical(o) = p /\ Canonical(p) = p
  BY DEF Canonical, Manual!I, Zero
<1> HIDE DEF o, p
<1>3. Effect(<<o>>) = Effect(<<p>>)
  BY <1>1, <1>2, SameShown
<1> QED
  BY <1>3 DEF o, p

(* The encoding of c.ebreak is among those of c.jalr. *)
LEMMA EbreakIs ==
  ASSUME NEW i \in HalfwordsOfText
  PROVE  i = Ebreak <=> /\ Manual!IBits(i, 1, 0) = 2 /\ Manual!Funct3(i) = 4 /\ Manual!IBit(i, 12) = 1
                        /\ Manual!Rs2(i) = 0 /\ Manual!Rd(i) = 0
BY SMT DEF HalfwordsOfText, Ebreak, Manual!IBits, Manual!IBit, Manual!Funct3, Manual!Rs2, Manual!Rd

(* The third quadrant: c.slli, the accesses through the stack pointer, and  *)
(* what is told apart by bit 12 and zero registers *)
LEMMA Quadrant2Means ==
  ASSUME NEW i \in Int, NEW pc, Manual!IBits(i, 1, 0) = 2, Manual!Quadrant2(i) # Manual!Reserved,
         ~(Manual!Funct3(i) = 4 /\ Manual!IBit(i, 12) = 1 /\ Manual!Rs2(i) = 0)
  PROVE  Effect(RvcHandler(i, pc)) = Effect(Manual!Quadrant2(i))
<1> DEFINE f3 == Manual!Funct3(i)
           rd == Manual!Rd(i)
           rs2 == Manual!Rs2(i)
           imm == Manual!Imm6(i)
<1>1. f3 \in 0..7 /\ rd \in 0..31 /\ rs2 \in 0..31 /\ Manual!IBit(i, 12) \in 0..1
  BY HalfFieldsRange
<1>2. CASE f3 = 0
  <2>1. RvcHandler(i, pc) = Slli(i)
    BY <1>2, HandlerIs
  <2>2. Slli(i) = Unless(rd = 0 \/ imm = 0, Emit("SLLI", rd, rd, 0, imm))
    BY HalfFields, ShiftAmount DEF Slli, Imm, Zero
  <2>3. Manual!Quadrant2(i) = <<Manual!I("SLLI", rd, rd, 0, imm)>>
    BY <1>2 DEF Manual!Quadrant2
  <2>4. CASE rd = 0 \/ imm = 0
    <3>1. IsIdle(Manual!I("SLLI", rd, rd, 0, imm))
      BY <2>4, NoDestination, NoChange
    <3> QED
      BY <2>1, <2>2, <2>3, <2>4, <3>1, IdleOperation, EffectOfNothing DEF Unless, Nothing
  <2>5. CASE ~(rd = 0 \/ imm = 0)
    BY <2>1, <2>2, <2>3, <2>5, EmitIs DEF Unless
  <2> QED
    BY <2>4, <2>5
<1>3. CASE f3 \in {2, 3}
  <2> DEFINE op == IF f3 = 2 THEN "LOAD32" ELSE "LOAD64"
             offset == IF f3 = 2 THEN Manual!LoadSpW(i) ELSE Manual!LoadSpD(i)
  <2>1. RvcHandler(i, pc) = LoadStoreSp(i)
    BY <1>3, HandlerIs
  <2>2. LoadStoreSp(i) = Unless(rd = 0, Emit(op, rd, 2, 0, offset))
    BY <1>3, HalfFields, HalfImmediates DEF LoadStoreSp, Imm, Sp, Zero
  <2>3. Manual!Quadrant2(i) = Manual!NonZero(rd, <<Manual!I(op, rd, 2, 0, offset)>>)
    BY <1>3 DEF Manual!Quadrant2
  <2> HIDE DEF op, offset
  <2>4. rd # 0
    BY <2>3 DEF Manual!NonZero
  <2> QED
    BY <2>1, <2>2, <2>3, <2>4, EmitIs DEF Unless, Manual!NonZero
<1>4. CASE f3 \in {6, 7}
  <2> DEFINE op == IF f3 = 6 THEN "STORE32" ELSE "STORE64"
             offset == IF f3 = 6 THEN Manual!StoreSpW(i) ELSE Manual!StoreSpD(i)
  <2>1. RvcHandler(i, pc) = LoadStoreSp(i)
    BY <1>4, HandlerIs
  <2>2. LoadStoreSp(i) = Emit(op, 0, 2, rs2, offset)
    BY <1>4, HalfFields, HalfImmediates DEF LoadStoreSp, Sp, Zero
  <2>3. Manual!Quadrant2(i) = <<Manual!I(op, 0, 2, rs2, offset)>>
    BY <1>4 DEF Manual!Quadrant2
  <2> HIDE DEF op, offset
  <2> QED
    BY <2>1, <2>2, <2>3, EmitIs
<1>5. CASE f3 = 4 /\ rs2 = 0
  <2>1. Manual!IBit(i, 12) = 0
    BY <1>1, <1>5
  <2>2. RvcHandler(i, pc) = JrMvJalrAdd(i, pc)
    BY <1>5, HandlerIs
  <2>3. JrMvJalrAdd(i, pc) = <<Manual!I("JMP_REG", 0, rd, 0, 0)>>
    BY <1>5, <2>1, HalfFields, EmitIs DEF JrMvJalrAdd, Imm, Zero
  <2>4. Manual!Quadrant2(i) = Manual!NonZero(rd, <<Manual!I("JALR", 0, rd, 0, 0)>>)
    BY <1>5, <2>1 DEF Manual!Quadrant2
  <2>5. Manual!Quadrant2(i) = <<Manual!I("JALR", 0, rd, 0, 0)>>
    BY <2>4 DEF Manual!NonZero
  <2> QED
    BY <2>2, <2>3, <2>5, JumpIsJalr
<1>6. CASE f3 = 4 /\ rs2 # 0
  <2> DEFINE rs1 == IF Manual!IBit(i, 12) = 0 THEN 0 ELSE rd
  <2>1. RvcHandler(i, pc) = JrMvJalrAdd(i, pc)
    BY <1>6, HandlerIs
  <2>2. Manual!Quadrant2(i) = <<Manual!I("ADD", rd, rs1, rs2, 0)>>
    BY <1>1, <1>6 DEF Manual!Quadrant2
  <2>3. CASE rd = 0
    <3>1. JrMvJalrAdd(i, pc) = Nothing
      BY <1>1, <1>6, <2>3, HalfFields DEF JrMvJalrAdd, Unless, Zero
    <3>2. IsIdle(Manual!I("ADD", 0, rs1, rs2, 0))
      <4> HIDE DEF rs1
      <4> QED
        BY NoDestination
    <3> QED
      BY <2>1, <2>2, <2>3, <3>1, <3>2, IdleOperation, EffectOfNothing DEF Nothing
  <2>4. CASE rd # 0 /\ Manual!IBit(i, 12) = 0
    <3>1. JrMvJalrAdd(i, pc) = <<Manual!I("MOV", rd, 0, rs2, 0)>>
      BY <1>6, <2>4, HalfFields, EmitIs DEF JrMvJalrAdd, Unless, Zero
    <3>2. rd \in Nat \ {0} /\ rs2 \in Nat \ {0}
      BY <1>1, <1>6, <2>4
    <3> QED
      BY <2>1, <2>2, <2>4, <3>1, <3>2, MoveIsAdd
  <2>5. CASE rd # 0 /\ Manual!IBit(i, 12) = 1
    <3>1. JrMvJalrAdd(i, pc) = <<Manual!I("ADD", rd, rd, rs2, 0)>>
      BY <1>6, <2>5, HalfFields, EmitIs DEF JrMvJalrAdd, Unless, Zero
    <3> QED
      BY <2>1, <2>2, <2>5, <3>1
  <2> QED
    BY <1>1, <2>3, <2>4, <2>5
<1>7. CASE f3 \in {1, 5}
  BY <1>7, HandlerIs, InvalidIs DEF Manual!Quadrant2
<1> QED
  BY <1>1, <1>2, <1>3, <1>4, <1>5, <1>6, <1>7

(* A compressed instruction is translated to what the one it stands for     *)
(* means, c.jalr apart.                                                     *)
LEMMA CompressedMeans ==
  ASSUME NEW i \in HalfwordsOfText, NEW pc, IsRvc(i),
         Manual!Compressed(i, pc) # Manual!Reserved,
         Manual!Compressed(i, pc) = <<>> \/ Manual!Compressed(i, pc)[1].op # "C_JALR"
  PROVE  Effect(TranslateRvc(i, pc)) = Effect(Manual!Compressed(i, pc))
<1> DEFINE op == Manual!IBits(i, 1, 0)
<1>0. i \in Int
  BY SMT DEF HalfwordsOfText
<1>1. op \in {0, 1, 2}
  BY <1>0, SMT DEF IsRvc, Field, Manual!IBits
<1>2. CASE i = Nop
  <2>1. op = 1 /\ Manual!Funct3(i) = 0 /\ Manual!Rd(i) = 0
    BY <1>2, SMT DEF Nop, Manual!IBits, Manual!Funct3, Manual!Rd
  <2>2. Manual!Compressed(i, pc) = <<Manual!I("ADDI", 0, 0, 0, Manual!SignedImm6(i))>>
    BY <2>1 DEF Manual!Compressed, Manual!Quadrant1
  <2>3. IsIdle(Manual!I("ADDI", 0, 0, 0, Manual!SignedImm6(i)))
    BY NoDestination
  <2>4. TranslateRvc(i, pc) = <<>>
    BY <1>2 DEF TranslateRvc, Nop, Ebreak, Nothing
  <2> QED
    BY <2>2, <2>3, <2>4, IdleOperation, EffectOfNothing
<1>3. CASE i = Ebreak
  <2>1. /\ op = 2 /\ Manual!Funct3(i) = 4 /\ Manual!IBit(i, 12) = 1
        /\ Manual!Rs2(i) = 0 /\ Manual!Rd(i) = 0
    BY <1>3, EbreakIs
  <2>2. Manual!Compressed(i, pc) = <<Manual!I("EBREAK", 0, 0, 0, 0)>>
    BY <2>1 DEF Manual!Compressed, Manual!Quadrant2
  <2>3. TranslateRvc(i, pc) = Emit("EBREAK", 0, 0, 0, 0)
    BY <1>3, SMT DEF TranslateRvc, Nop, Ebreak, Zero
  <2> QED
    BY <2>2, <2>3, EmitIs
<1>4. CASE i # Nop /\ i # Ebreak
  <2>1. TranslateRvc(i, pc) = RvcHandler(i, pc)
    BY <1>4 DEF TranslateRvc
  <2>2. CASE op = 0
    BY <1>0, <2>1, <2>2, Quadrant0Means DEF Manual!Compressed
  <2>3. CASE op = 1
    BY <1>0, <2>1, <2>3, Quadrant1Means DEF Manual!Compressed
  <2>4. CASE op = 2
    <3>1. Manual!Compressed(i, pc) = Manual!Quadrant2(i)
      BY <2>4 DEF Manual!Compressed
    <3>2. ASSUME Manual!Funct3(i) = 4, Manual!IBit(i, 12) = 1, Manual!Rs2(i) = 0
          PROVE  FALSE
      <4>1. Manual!Rd(i) # 0
        BY <1>4, <2>4, <3>2, EbreakIs
      <4>2. Manual!Quadrant2(i) = <<Manual!I("C_JALR", 1, Manual!Rd(i), 0, 0)>>
        BY <3>2, <4>1 DEF Manual!Quadrant2
      <4> QED
        BY <3>1, <4>2 DEF Manual!I
    <3> QED
      BY <1>0, <2>1, <2>4, <3>1, <3>2, Quadrant2Means
  <2> QED
    BY <1>1, <2>2, <2>3, <2>4
<1> QED
  BY <1>2, <1>3, <1>4

(* THEOREM: every encoding that .text can hold and the manual defines is    *)
(* translated to what it means, wherever it is.  Left out are c.jalr, which *)
(* is translated to something else (CJalrIsTranslated), and the wide words  *)
(* of which the decoder is known to look at less than the manual (Lenient). *)
THEOREM TranslateMeans ==
  ASSUME NEW i \in Encodings, NEW pc,
         Manual!Instruction(i, pc) # Manual!Reserved,
         Manual!Instruction(i, pc) = <<>> \/ Manual!Instruction(i, pc)[1].op # "C_JALR",
         IsRvc(i) \/ ~Manual!Lenient(i)
  PROVE  Effect(Translate(i, pc)) = Effect(Manual!Instruction(i, pc))
<1>1. Manual!IBits(i, 1, 0) = 3 <=> ~IsRvc(i)
  BY DEF IsRvc, Manual!IBits, Field
<1>2. CASE IsRvc(i)
  <2>1. i \in HalfwordsOfText
    BY <1>2, InstructionAssumption, Zenon DEF InstructionAssumption
  <2>2. Manual!Instruction(i, pc) = Manual!Compressed(i, pc)
    BY <1>1, <1>2 DEF Manual!Instruction
  <2>3. Translate(i, pc) = TranslateRvc(i, pc)
    BY <1>2 DEF Translate
  <2> QED
    BY <1>2, <2>1, <2>2, <2>3, CompressedMeans
<1>3. CASE ~IsRvc(i)
  <2>1. i \in WordsOfText
    BY <1>3, InstructionAssumption, Zenon DEF InstructionAssumption
  <2>2. Manual!Instruction(i, pc) = Manual!Wide(i, pc)
    BY <1>1, <1>3 DEF Manual!Instruction
  <2>3. Translate(i, pc) = TranslateRv32(i, pc)
    BY <1>3 DEF Translate
  <2> QED
    BY <1>3, <2>1, <2>2, <2>3, WideMeans
<1> QED
  BY <1>2, <1>3

(* In every state the instruction is one of those to decode, and what it    *)
(* has been translated to is its translation.                               *)
TranslatedFrom == instr \in Encodings /\ ops \in {Undecoded, Translate(instr, Pc)}

LEMMA TranslatedFromHolds == Spec => []TranslatedFrom
<1>1. Init => TranslatedFrom
  BY DEF Init, TranslatedFrom
<1>2. TranslatedFrom /\ [Next]_vars => TranslatedFrom'
  <2> SUFFICES ASSUME TranslatedFrom, [Next]_vars
               PROVE  TranslatedFrom'
    OBVIOUS
  <2>1. CASE Decode
    BY <2>1, Zenon DEF Decode, TranslatedFrom, Undecoded
  <2>2. ASSUME UNCHANGED <<instr, ops>> PROVE TranslatedFrom'
    <3>1. instr' = instr /\ ops' = ops
      BY <2>2
    <3> QED
      BY <3>1, Zenon DEF TranslatedFrom, Undecoded
  <2>3. ASSUME NEW o, NEW env, Encode(o, env) PROVE TranslatedFrom'
    BY <2>2, <2>3, Zenon DEF Encode
  <2>4. ASSUME NEW o, NEW a, NEW b, NEW p, Execute(o, a, b, p) PROVE TranslatedFrom'
    BY <2>2, <2>4, Zenon DEF Execute
  <2>5. CASE UNCHANGED vars
    BY <2>2, <2>5 DEF vars
  <2> QED
    BY <2>1, <2>3, <2>4, <2>5, Zenon DEF Next
<1> QED
  BY <1>1, <1>2, PTL DEF Spec

(* THEOREM: in every state the operations that an instruction has been      *)
(* translated to have the effect that the manual gives it.                  *)
THEOREM DecodedAsDefinedHolds == Spec => []DecodedAsDefined
<1>1. TranslatedFrom => DecodedAsDefined
  <2> SUFFICES ASSUME TranslatedFrom, Decoded, Expected # Manual!Reserved, ~IsCJalr,
                      IsRvc(instr) \/ ~Manual!Lenient(instr)
               PROVE  Effect(ops) = Effect(Expected)
    BY Zenon DEF DecodedAsDefined
  <2>1. instr \in Encodings /\ ops = Translate(instr, Pc)
    BY Zenon DEF TranslatedFrom, Decoded
  <2>2. Expected = <<>> \/ Expected[1].op # "C_JALR"
    BY Zenon DEF IsCJalr
  <2>3. Effect(Translate(instr, Pc)) = Effect(Manual!Instruction(instr, Pc))
    BY <2>1, <2>2, TranslateMeans, Zenon DEF Expected
  <2> QED
    BY <2>1, <2>3, Zenon DEF Expected
<1> QED
  BY <1>1, TranslatedFromHolds, PTL
=============================================================================
