------------------------------ MODULE Encoder ------------------------------
(***************************************************************************)
(* The bytes of the host instructions: the x86_cg_ functions, which write  *)
(* them to code_buf in front of each other.                                *)
(***************************************************************************)
EXTENDS HostCode, SequencesExt

(* x86_cg_emit8, x86_cg_emit32: n bytes of v, the lowest first *)
Le(v, n) == [i \in 1..n |-> (v \div 256^(i - 1)) % 256]
FitsI8(v) == v \in -128..127

(* x86_cg_rex: a prefix only where a bit of it is set *)
Rex(w, reg, rm) ==
  LET bits == (IF w = 64 THEN 8 ELSE 0) + (IF reg >= 8 THEN 4 ELSE 0) + (IF rm >= 8 THEN 1 ELSE 0)
  IN IF bits = 0 THEN <<>> ELSE <<64 + bits>>

ModRM(mod, reg, rm) == <<64 * mod + 8 * (reg % 8) + (rm % 8)>>

(* x86_cg_emit_alu_r_r, and the others that have the same form *)
RegReg(opcode, w, reg, rm) == Rex(w, reg, rm) \o opcode \o ModRM(3, reg, rm)

(* Seeded fault: a displacement of one byte is taken for one without a sign *)
RegMemUnsigned(opcode, w, reg, base, disp) ==
  LET short == disp \in 0..255
  IN Rex(w, reg, base) \o opcode \o ModRM(IF short THEN 1 ELSE 2, reg, base)
     \o (IF base % 8 = 4 THEN <<32 + (base % 8)>> ELSE <<>>)
     \o Le(disp, IF short THEN 1 ELSE 4)

(* x86_cg_emit_alu_r_m: a base of RSP or R12 takes a SIB byte *)
RegMem(opcode, w, reg, base, disp) ==
  LET short == FitsI8(disp)
  IN Rex(w, reg, base) \o opcode \o ModRM(IF short THEN 1 ELSE 2, reg, base)
     \o (IF base % 8 = 4 THEN <<32 + (base % 8)>> ELSE <<>>)
     \o Le(disp, IF short THEN 1 ELSE 4)

(* x86_cg_alu_r_imm32: RAX has a short form of add *)
AluImm(ext, w, dst, imm) ==
  Rex(w, 0, dst)
    \o (IF FitsI8(imm) THEN <<131>> \o ModRM(3, ext, dst) \o Le(imm, 1)
        ELSE IF dst = Rax /\ ext = 0 THEN <<5>> \o Le(imm, 4)
        ELSE <<129>> \o ModRM(3, ext, dst) \o Le(imm, 4))
-----------------------------------------------------------------------------
AluOpcode == [add |-> 1, or |-> 9, and |-> 33, sub |-> 41, xor |-> 49, cmp |-> 57, test |-> 133, mov |-> 137]
AluExtension == [addi |-> 0, ori |-> 1, andi |-> 4, xori |-> 6, cmpi |-> 7]
ShiftExtension == [shl |-> 4, shr |-> 5, sar |-> 7]
ShiftImmExtension == [shli |-> 4, shri |-> 5, sari |-> 7]
Group3 == [mul |-> 4, imul |-> 5, div |-> 6, idiv |-> 7]
Group5 == [call |-> 2, jmpr |-> 4]
WideLoadOpcode == [loadzx8 |-> 182, loadzx16 |-> 183, loadsx8 |-> 190, loadsx16 |-> 191]
JccCode == [jb |-> 2, jae |-> 3, je |-> 4, jne |-> 5, ja |-> 7, jl |-> 12, jge |-> 13, jle |-> 14]
SetCode == [setb |-> 2, setl |-> 12]
Fixed == [ret |-> <<195>>, int3 |-> <<204>>, ud2 |-> <<15, 11>>]

(* x86_cg_emit_register_opcode *)
RegOpcode(base, reg) == Rex(0, 0, reg) \o <<base + (reg % 8)>>

(* x86_cg_emit_store *)
StoreBytes(w, reg, base, disp) ==
  CASE w = 8  -> RegMem(<<136>>, 32, reg, base, disp)
    [] w = 16 -> <<102>> \o RegMem(<<137>>, 32, reg, base, disp)
    [] OTHER  -> RegMem(<<137>>, w, reg, base, disp)

(* x86_cg_setcc_r8: the prefix for RSP and above has no bit set below R8, *)
(* and is left out there                                                  *)
Setcc(code, dst) == Rex(0, 0, dst) \o <<15, 144 + code>> \o ModRM(3, 0, dst)

(* The bytes of h, with a displacement rel where it jumps *)
Bytes(h, rel) ==
  CASE h.op \in DOMAIN AluOpcode      -> RegReg(<<AluOpcode[h.op]>>, h.w, h.src, h.dst)
    [] h.op \in DOMAIN AluExtension   -> AluImm(AluExtension[h.op], h.w, h.dst, h.imm)
    [] h.op \in DOMAIN ShiftExtension -> RegReg(<<211>>, h.w, ShiftExtension[h.op], h.dst)
    [] h.op \in DOMAIN ShiftImmExtension ->
         RegReg(<<193>>, h.w, ShiftImmExtension[h.op], h.dst) \o Le(h.imm, 1)
    [] h.op \in DOMAIN Group3 -> RegReg(<<247>>, h.w, Group3[h.op], h.dst)
    [] h.op \in DOMAIN Group5 -> RegReg(<<255>>, 0, Group5[h.op], h.dst)
    [] h.op \in DOMAIN WideLoadOpcode ->
         Rex(64, h.dst, h.src) \o <<15, WideLoadOpcode[h.op]>> \o ModRM(0, h.dst, h.src)
    [] h.op \in DOMAIN JccCode -> <<15, 128 + JccCode[h.op]>> \o Le(rel, 4)
    [] h.op \in DOMAIN SetCode -> Setcc(SetCode[h.op], h.dst)
    [] h.op \in DOMAIN Fixed   -> Fixed[h.op]
    [] h.op = "movsxd"   -> RegReg(<<99>>, 64, h.dst, h.src)
    [] h.op = "movzx8"   -> RegReg(<<15, 182>>, 64, h.dst, h.src)
    [] h.op = "imul2"    -> RegReg(<<15, 175>>, h.w, h.dst, h.src)
    [] h.op = "load"     -> RegMem(<<139>>, h.w, h.dst, h.src, h.imm)
    [] h.op = "loadsx32" -> RegMem(<<99>>, 64, h.dst, h.src, h.imm)
    [] h.op = "store"    -> StoreBytes(h.w, h.dst, h.src, h.imm)
    [] h.op = "imm64"    -> Rex(64, 0, h.dst) \o <<184 + (h.dst % 8)>> \o Le(h.imm, 4) \o Le(h.hi, 4)
    [] h.op = "push"     -> RegOpcode(80, h.dst)
    [] h.op = "pop"      -> RegOpcode(88, h.dst)
    [] h.op = "cqo"      -> Rex(h.w, 0, 0) \o <<153>>
    [] h.op = "jmp"      -> <<233>> \o Le(rel, 4)

(* Seeded fault: a displacement counts from its own first byte *)
DisplacementFromPatch(ends, k, to) == IF to = 0 THEN 0 ELSE ends[to - 1] - (ends[k] - 4)

(* x86_cg_patch_rel32_local: a displacement counts from the byte behind it. *)
(* What leaves the operation is patched later, and is zero until then.      *)
Displacement(ends, k, to) == IF to = 0 THEN 0 ELSE ends[to - 1] - ends[k]

(* The bytes of an operation, linked *)
Assembled(code) ==
  LET ends[k \in 0..Len(code)] == IF k = 0 THEN 0 ELSE ends[k - 1] + Len(Bytes(code[k], 0))
  IN FlattenSeq([k \in DOMAIN code |-> Bytes(code[k], Displacement(ends, k, code[k].to))])
=============================================================================
