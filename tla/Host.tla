-------------------------------- MODULE Host --------------------------------
(***************************************************************************)
(* The host: how an x86-64 processor reads the bytes of instructions, and  *)
(* what they do.  After the processor's manual, not after the code; an     *)
(* instruction has the form of HostCode.  To execute them its registers    *)
(* are narrowed: 64 bits to Xlen, 32 to Wlen, and so on.                   *)
(***************************************************************************)
EXTENDS HostCode, FiniteSetsExt, TLC

CONSTANTS Xlen, Wlen

Unreadable == Plain("unreadable")
-----------------------------------------------------------------------------
AluNames == 1 :> "add" @@ 9 :> "or" @@ 33 :> "and" @@ 41 :> "sub" @@ 49 :> "xor" @@ 57 :> "cmp" @@ 133 :> "test"
Group1 == <<"addi", "ori", "adci", "sbbi", "andi", "subi", "xori", "cmpi">>
Group2 == <<"rol", "ror", "rcl", "rcr", "shl", "shr", "sal", "sar">>
Group2Imm == <<"roli", "rori", "rcli", "rcri", "shli", "shri", "sali", "sari">>
Group3Names == <<"testi", "testi", "not", "neg", "mul", "imul", "div", "idiv">>
Group5Names == <<"inc", "dec", "call", "callf", "jmpr", "jmpf", "push", "none">>
Conditions ==
  <<"jo", "jno", "jb", "jae", "je", "jne", "jbe", "ja", "js", "jns", "jp", "jnp", "jl", "jge", "jle", "jg">>
SetNames == <<"seto", "setno", "setb", "setae", "sete", "setne", "setbe", "seta", "sets", "setns", "setp", "setnp",
              "setl", "setge", "setle", "setg">>
MoveNames == 182 :> "loadzx8" @@ 183 :> "loadzx16" @@ 190 :> "loadsx8" @@ 191 :> "loadsx16"
OneByte == 195 :> "ret" @@ 204 :> "int3"

(* The n bytes from p on as a signed integer, n at most 4 *)
SignedAt(b, p, n) ==
  LET Low(i) == IF i = n - 1 THEN (IF b[p + i] >= 128 THEN b[p + i] - 256 ELSE b[p + i]) ELSE b[p + i]
      sum[i \in 0..n] == IF i = 0 THEN 0 ELSE sum[i - 1] + Low(i - 1) * 256^(i - 1)
  IN sum[n]

(* The prefixes at p: one makes the operands 16 bits wide, another is REX;  *)
(* the opcode is behind them.                                               *)
Prefixes(b, p) ==
  LET short == b[p] = 102
      q     == IF short THEN p + 1 ELSE p
      isRex == b[q] \div 16 = 4
  IN [short |-> short, isRex |-> isRex, rex |-> IF isRex THEN b[q] - 64 ELSE 0,
      opcode |-> IF isRex THEN q + 1 ELSE q]

(* ModRM at p, a SIB that ends before p4, and a displacement that ends      *)
(* before p5                                                                *)
Operand(b, p, rex) ==
  LET mod   == b[p] \div 64
      sib   == mod # 3 /\ b[p] % 8 = 4
      ext   == (b[p] \div 8) % 8
      base  == IF sib THEN b[p + 1] % 8 ELSE b[p] % 8
      q     == IF sib THEN p + 2 ELSE p + 1
      bytes == CASE mod = 1 -> 1 [] mod = 2 -> 4 [] OTHER -> 0
  IN [mod |-> mod, ext |-> ext, reg |-> ext + 8 * ((rex \div 4) % 2), rm |-> base + 8 * (rex % 2),
      p4 |-> q, disp |-> SignedAt(b, q, bytes), p5 |-> q + bytes,
      plain |-> /\ sib => (b[p + 1] \div 8) % 8 = 4 /\ (rex \div 2) % 2 = 0  \* no index
                /\ ~(mod = 0 /\ base = 5)]                                    \* not relative to the pc

(* The instruction at p: what it is, and where the next one begins.  A jump *)
(* has its displacement as immediate.                                       *)
ReadAt(b, p) ==
  LET pre   == Prefixes(b, p)
      two   == b[pre.opcode] = 15
      p3    == IF two THEN pre.opcode + 2 ELSE pre.opcode + 1
      c     == b[p3 - 1]
      w     == IF pre.rex >= 8 THEN 64 ELSE IF pre.short THEN 16 ELSE 32
      rexB  == 8 * (pre.rex % 2)
      o     == Operand(b, p3, pre.rex)
      R(h, next) == [h |-> h, next |-> next]
      (* Without a prefix the codes 4 to 7 are AH to BH *)
      Byte(r) == IF ~pre.isRex /\ r \in 4..7 THEN 100 + r ELSE r
      M(op, width, reg) == R(IF o.plain THEN Mem(op, width, reg, o.rm, o.disp) ELSE Unreadable, o.p5)
      low   == SignedAt(b, p3, 4)
  IN CASE ~two /\ c \in DOMAIN AluNames /\ o.mod = 3 -> R(RR(AluNames[c], w, o.rm, o.reg), o.p4)
       [] ~two /\ c = 137 /\ o.mod = 3 -> R(RR("mov", w, o.rm, o.reg), o.p4)
       [] ~two /\ c = 137 /\ o.mod # 3 -> M("store", w, o.reg)
       [] ~two /\ c = 136 /\ o.mod # 3 -> M("store", 8, Byte(o.reg))
       [] ~two /\ c = 139 /\ o.mod # 3 -> M("load", w, o.reg)
       [] ~two /\ c = 99 /\ o.mod = 3  -> R(RR("movsxd", w, o.reg, o.rm), o.p4)
       [] ~two /\ c = 99 /\ o.mod # 3  -> M("loadsx32", w, o.reg)
       [] ~two /\ c = 131 /\ o.mod = 3 -> R(RI(Group1[o.ext + 1], w, o.rm, SignedAt(b, o.p4, 1)), o.p4 + 1)
       [] ~two /\ c = 129 /\ o.mod = 3 -> R(RI(Group1[o.ext + 1], w, o.rm, SignedAt(b, o.p4, 4)), o.p4 + 4)
       [] ~two /\ c = 5   -> R(RI("addi", w, Rax, low), p3 + 4)
       [] ~two /\ c = 211 /\ o.mod = 3 -> R(RR(Group2[o.ext + 1], w, o.rm, 0), o.p4)
       [] ~two /\ c = 193 /\ o.mod = 3 -> R(RI(Group2Imm[o.ext + 1], w, o.rm, b[o.p4]), o.p4 + 1)
       [] ~two /\ c = 247 /\ o.mod = 3 -> R(RR(Group3Names[o.ext + 1], w, o.rm, 0), o.p4)
       [] ~two /\ c = 255 /\ o.mod = 3 -> R(RR(Group5Names[o.ext + 1], 64, o.rm, 0), o.p4)
       [] ~two /\ c \in 80..87   -> R(RR("push", 64, c - 80 + rexB, 0), p3)
       [] ~two /\ c \in 88..95   -> R(RR("pop", 64, c - 88 + rexB, 0), p3)
       [] ~two /\ c \in 184..191 -> R(H("imm64", w, c - 184 + rexB, 0, low, SignedAt(b, p3 + 4, 4), NoJump), p3 + 8)
       [] ~two /\ c = 153 -> R(RR("cqo", w, 0, 0), p3)
       [] ~two /\ c = 233 -> R(RI("jmp", 0, 0, low), p3 + 4)
       [] ~two /\ c \in DOMAIN OneByte -> R(Plain(OneByte[c]), p3)
       [] two /\ c = 11 -> R(Plain("ud2"), p3)
       [] two /\ c \in 128..143 -> R(RI(Conditions[c - 127], 0, 0, low), p3 + 4)
       [] two /\ c \in 144..159 /\ o.mod = 3 -> R(RR(SetNames[c - 143], 8, Byte(o.rm), 0), o.p4)
       [] two /\ c = 175 /\ o.mod = 3 -> R(RR("imul2", w, o.reg, o.rm), o.p4)
       [] two /\ c = 182 /\ o.mod = 3 -> R(RR("movzx8", w, o.reg, Byte(o.rm)), o.p4)
       [] two /\ c \in DOMAIN MoveNames /\ o.mod # 3 -> M(MoveNames[c], w, o.reg)
       [] OTHER -> R(Unreadable, Len(b) + 1)

(* The instructions that begin at p and behind it, with where they end; one *)
(* that runs over the end is not read.                                      *)
ReadAll(b) ==
  LET padded == b \o [k \in 1..16 |-> 0]
      from[p \in 1..Len(b) + 1] ==
        LET r == ReadAt(padded, p)
        IN IF p > Len(b) THEN <<>>
           ELSE IF r.next > Len(b) + 1 THEN <<[h |-> Unreadable, next |-> Len(b) + 1]>>
           ELSE <<r>> \o from[r.next]
  IN from[1]

(* Jumps by number: rs are the instructions in b *)
Numbered(b, rs) ==
  LET Begin(k) == IF k = 1 THEN 1 ELSE rs[k - 1].next
      Jumps(h) == h.op = "jmp" \/ \E c \in DOMAIN Conditions : h.op = Conditions[c]
      At(pos) == IF \E k \in DOMAIN rs : Begin(k) = pos THEN CHOOSE k \in DOMAIN rs : Begin(k) = pos
                 ELSE IF pos = Len(b) + 1 THEN Len(rs) + 1 ELSE -1
  IN [k \in DOMAIN rs |->
        LET h == rs[k].h
        IN IF Jumps(h) THEN [h EXCEPT !.imm = 0, !.to = At(rs[k].next + h.imm)] ELSE [h EXCEPT !.to = 0]]

(* What the processor finds in the bytes *)
Read(b) == Numbered(b, ReadAll(b))
-----------------------------------------------------------------------------
(* Execution.  A state: the registers r, the cpu structure in R15 by offset, *)
(* the operands fl that the flags were set from, the next instruction k,     *)
(* what is at every other address, and the access there was to one.          *)
Low(w, v) == v % 2^w
Int2(w, v) == IF v >= 2^(w - 1) THEN v - 2^w ELSE v  \* two's complement
Width(w) ==
  CASE w = 64 -> Xlen [] w = 32 -> Wlen [] w = 16 -> Wlen \div 2 [] w = 8 -> Wlen \div 4 [] OTHER -> Xlen

Magnitude(n) == IF n < 0 THEN -n ELSE n
Truncated(n, d) ==
  LET q == Magnitude(n) \div Magnitude(d) IN IF (n < 0) # (d < 0) THEN -q ELSE q

NoAccess == [at |-> -1, w |-> 0, write |-> FALSE, value |-> 0]
Machine(r, cpu, contents) ==
  [r |-> r, cpu |-> cpu, fl |-> <<0, 0, Xlen>>, k |-> 1, contents |-> contents, access |-> NoAccess,
   jumped |-> FALSE, trap |-> FALSE]

(* The condition cc after a comparison; a test compares the and with 0 *)
Holds(cc, fl) ==
  LET x == fl[1]
      y == fl[2]
      sx == Int2(fl[3], x)
      sy == Int2(fl[3], y)
  IN CASE cc \in {"jb", "setb"} -> x < y
       [] cc = "jae" -> x >= y
       [] cc = "je"  -> x = y
       [] cc = "jne" -> x # y
       [] cc = "ja"  -> x > y
       [] cc \in {"jl", "setl"} -> sx < sy
       [] cc = "jge" -> sx >= sy
       [] cc = "jle" -> sx <= sy

(* The bits of d and s, two and two *)
BitsOfBoth(w, d, s, Gate(_, _)) ==
  MapThenSumSet(LAMBDA k : 2^k * Gate((d \div 2^k) % 2, (s \div 2^k) % 2), 0..w - 1)

(* Of two operands, in w bits; the shifts mask their count *)
Computed(op, w, d, s) ==
  CASE op \in {"add", "addi"} -> Low(w, d + s)
    [] op = "sub" -> Low(w, d - s)
    [] op \in {"and", "andi"} -> BitsOfBoth(w, d, s, LAMBDA x, y : x * y)
    [] op \in {"or", "ori"}   -> BitsOfBoth(w, d, s, LAMBDA x, y : (x + y + 1) \div 2)
    [] op \in {"xor", "xori"} -> BitsOfBoth(w, d, s, LAMBDA x, y : (x + y) % 2)
    [] op = "mov"   -> Low(w, s)
    [] op = "imul2" -> Low(w, Int2(w, Low(w, d)) * Int2(w, Low(w, s)))
    [] op \in {"shl", "shli"} -> Low(w, Low(w, d) * 2^(s % w))
    [] op \in {"shr", "shri"} -> Low(w, d) \div 2^(s % w)
    [] op \in {"sar", "sari"} -> Low(w, Int2(w, Low(w, d)) \div 2^(s % w))
Simple == {"add", "sub", "and", "or", "xor", "mov", "imul2"}
SimpleImm == {"addi", "andi", "ori", "xori", "shli", "shri", "sari"}

Step(h, m) ==
  LET w == Width(h.w)
      d == m.r[h.dst]
      s == m.r[h.src]
      Next(n) == [n EXCEPT !.k = @ + 1]
      Put(reg, v) == Next([m EXCEPT !.r[reg] = v])
      Flags(x, y) == Next([m EXCEPT !.fl = <<Low(w, x), Low(w, y), w>>])
      Jump == [m EXCEPT !.k = IF h.to = 0 THEN @ ELSE h.to, !.jumped = h.to = 0]
      Both(hi, lo) == Next([m EXCEPT !.r[Rdx] = hi, !.r[Rax] = lo])
      Product(p) == Both(Low(w, p \div 2^w), Low(w, p))
      Quotient(n, by, fits) ==
        IF by = 0 \/ (by # 0 /\ Truncated(n, by) \notin fits) THEN [m EXCEPT !.trap = TRUE]
        ELSE Both(Low(w, n - Truncated(n, by) * by), Low(w, Truncated(n, by)))
      dividend == Low(w, m.r[Rdx]) * 2^w + Low(w, m.r[Rax])
      At == Low(Xlen, s + h.imm)
      Access(write, bits, v) == [at |-> At, w |-> bits, write |-> write, value |-> v]
      Loaded(bits, v) == Next([m EXCEPT !.r[h.dst] = v, !.access = Access(FALSE, bits, 0)])
      Extended(bits) == Low(Xlen, Int2(bits, Low(bits, m.contents)))
  IN CASE h.op \in Simple    -> Put(h.dst, Computed(h.op, w, d, s))
       [] h.op \in SimpleImm -> Put(h.dst, Computed(h.op, w, d, h.imm))
       [] h.op \in {"shl", "shr", "sar"} -> Put(h.dst, Computed(h.op, w, d, m.r[Rcx]))
       [] h.op = "imm64"  -> Put(h.dst, Low(Xlen, h.imm))
       [] h.op = "movsxd" -> Put(h.dst, Low(Xlen, Int2(Wlen, Low(Wlen, s))))
       [] h.op = "movzx8" -> Put(h.dst, Low(Width(8), s))
       [] h.op \in {"setb", "setl"} ->
            Put(h.dst, d - Low(Width(8), d) + (IF Holds(h.op, m.fl) THEN 1 ELSE 0))
       [] h.op = "cmp"  -> Flags(d, s)
       [] h.op = "cmpi" -> Flags(d, h.imm)
       [] h.op = "test" -> Flags(Computed("and", w, d, s), 0)
       [] h.op = "cqo"  -> Put(Rdx, IF Int2(w, Low(w, m.r[Rax])) < 0 THEN 2^w - 1 ELSE 0)
       [] h.op = "imul" -> Product(Int2(w, Low(w, m.r[Rax])) * Int2(w, Low(w, d)))
       [] h.op = "mul"  -> Product(Low(w, m.r[Rax]) * Low(w, d))
       [] h.op = "idiv" -> Quotient(Int2(2 * w, dividend), Int2(w, Low(w, d)), -2^(w - 1)..2^(w - 1) - 1)
       [] h.op = "div"  -> Quotient(dividend, Low(w, d), 0..2^w - 1)
       [] h.op = "load" /\ h.src = R15  -> Put(h.dst, m.cpu[h.imm])
       [] h.op = "store" /\ h.src = R15 -> Next([m EXCEPT !.cpu[h.imm] = d])
       [] h.op = "load" /\ h.src # R15  -> Loaded(w, Low(w, m.contents))
       [] h.op = "store" /\ h.src # R15 -> Next([m EXCEPT !.access = Access(TRUE, w, Low(w, d))])
       [] h.op = "loadzx8"  -> Loaded(Width(8), Low(Width(8), m.contents))
       [] h.op = "loadzx16" -> Loaded(Width(16), Low(Width(16), m.contents))
       [] h.op = "loadsx8"  -> Loaded(Width(8), Extended(Width(8)))
       [] h.op = "loadsx16" -> Loaded(Width(16), Extended(Width(16)))
       [] h.op = "loadsx32" -> Loaded(Wlen, Extended(Wlen))
       [] h.op = "jmp" -> Jump
       [] h.op \in {"jb", "jae", "je", "jne", "ja", "jl", "jge", "jle"} ->
            IF Holds(h.op, m.fl) THEN Jump ELSE Next(m)

(* Until the operation is left.  Its jumps lead forward: no more steps than *)
(* it has instructions.                                                     *)
Left(code, m) == m.k \notin DOMAIN code \/ m.jumped \/ m.trap
Advanced(code, m) == IF Left(code, m) THEN m ELSE Step(code[m.k], m)
Run(code, m) ==
  LET after[n \in 0..Len(code)] == IF n = 0 THEN m ELSE Advanced(code, after[n - 1])
  IN after[Len(code)]
=============================================================================
