--------------------------- MODULE MCInstruction ---------------------------
EXTENDS Instruction

(* Every half-word that is a compressed instruction *)
HalfwordsRvc == {h \in 0..2^16 - 1 : IsRvc(h)}

(* Wide instructions: each opcode, also some that have no handler, with all *)
(* of its fields at values that tell their bits apart.  The rest of a word, *)
(* above the opcode, has 25 bits: all zero, all one, one of them set, two   *)
(* neighbours, or one of them clear.                                        *)
Opcodes == {3, 7, 15, 19, 23, 27, 35, 47, 51, 55, 59, 99, 103, 111, 115, 127}
Masks ==
  LET ones == 2^25 - 1
  IN {0, ones} \cup {2^k : k \in 0..24} \cup {3 * 2^k : k \in 0..23} \cup {ones - 2^k : k \in 0..24}

(* The word with these upper 25 bits, as a signed integer *)
Word(upper, opcode) == (IF upper >= 2^24 THEN upper - 2^25 ELSE upper) * 2^7 + opcode

(* funct3 in full, and every funct7 with at most two bits set *)
Funct7s == {0, 127} \cup {2^k : k \in 0..6} \cup {2^j + 2^k : j, k \in 0..6}
Regs == 1 + 2^8 * 2 + 2^13 * 3  \* x1, x2, x3
AllFuncts == {Word(Regs + 2^5 * f3 + 2^18 * (f7 % 128), op) : f3 \in 0..7, f7 \in Funct7s, op \in Opcodes}
AllMasks == {Word(m, op) : m \in Masks, op \in Opcodes}
AllMaskFuncts ==
  {Word(m - 2^5 * ((m \div 2^5) % 8) + 2^5 * f3, op) : m \in Masks, f3 \in 0..7, op \in Opcodes}

(* Words whose host code is written down: each operation, each register in  *)
(* each place, and immediates at the ends of one byte.                      *)
EachRegister == {Word(2^5 * f3 + r + 2^8 * ((r + 5) % 32) + 2^13 * ((r + 9) % 32) + 2^18 * f7, op) :
                   r \in 0..31, f3 \in {0, 3, 5}, f7 \in {0, 1, 32}, op \in {3, 19, 35, 51}}
OneByteEnds == {Word(1 + 2^8 * 2 + 2^5 * f3 + 2^13 * imm, op) :
                  f3 \in 0..7, imm \in {0, 1, 127, 128, 129, 2047, 2048, 3967, 3968, 3969, 4095}, op \in {3, 19, 103}}

(* A word for every operation *)
OneOfEach ==
  {Word(Regs + 2^5 * f3, op) : f3 \in 0..7, op \in Opcodes}
    \cup {Word(Regs + 2^5 * f3 + 2^18 * f7, op) : f3 \in 0..7, f7 \in {1, 32}, op \in {51, 59}}
    \cup {Word(Regs + 2^5 * 5 + 2^18 * 32, op) : op \in {19, 27}}

(* One register in every place, x0 as destination and as source, c.mv,     *)
(* c.jr, c.beqz, c.j                                                        *)
InPlace(op, f3, r, s) == Word(r + 2^5 * f3 + 2^8 * s + 2^13 * s, op)
Aliased ==
  {InPlace(op, 0, r, s) : op \in {3, 35, 51, 99, 103}, r \in {0, 5}, s \in {0, 5}} \cup {33434, 33410, 49153, 40961}

(* Where the program is, at most 31 bits of it *)
MinInt32 == -2147483647 - 1
Region(addr, size, mem) == [addr |-> addr, size |-> size, mem |-> mem]
Env(data) ==
  [pc |-> 66000, jit |-> 1073741824, ecall |-> 305419896, min |-> [word |-> MinInt32, lo |-> 0, hi |-> MinInt32],
   text |-> Region(65536, 4096, 1610612736), data |-> data]
TwoEnvironments == {Env(Region(0, 0, 0)), Env(Region(131072, 8192, 268435456))}

(* The same in eight bits, with the host's buffers elsewhere: the sections  *)
(* apart, without data, and .text in the stack and over the end of the data *)
Program(text, data) ==
  [pc |-> 40, jit |-> 0, ecall |-> 0, min |-> [word |-> -8, lo |-> 128, hi |-> 0],
   stack |-> Region(0, 24, 150), text |-> text, data |-> data]
ThreePrograms ==
  {Program(Region(64, 20, 5), Region(100, 11, 200)), Program(Region(200, 48, 60), Region(0, 0, 0)),
   Program(Region(16, 30, 5), Region(40, 9, 220))}

(* The operands at the ends of each width of one, two, four and eight bits *)
Nibbles == {0, 1, 7, 8, 15}
EdgeOperands == {16 * h + l : h, l \in Nibbles}
AllAddresses == 0..255
TwoContents == {90, 165}

AllEncoded == OneOfEach \cup EachRegister \cup OneByteEnds \cup Aliased
AllExecuted == OneOfEach \cup Aliased
AllWords == HalfwordsRvc \cup AllFuncts \cup AllMasks \cup AllMaskFuncts \cup AllEncoded
=============================================================================
