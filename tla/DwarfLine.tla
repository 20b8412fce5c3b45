------------------------------ MODULE DwarfLine ------------------------------
(***************************************************************************)
(* riscv_dwarf_lookup_pc: the source line of an address, from the line     *)
(* number programs of .debug_line.  A unit has its header, the number of   *)
(* its files, and its program as a sequence of operations; a path is known *)
(* by its unit and file number.                                            *)
(***************************************************************************)
EXTENDS Integers, Sequences, SequencesExt

MaxVersion == 4         \* DWARF_MAX_SUPPORTED_VERSION
MaxSpecialOpcode == 255 \* DWARF_MAX_SPECIAL_OPCODE
Farthest == 2^30        \* UINT64_MAX; addresses are below it

NoMatch == [diff |-> Farthest, unit |-> "none", file |-> 0, line |-> 0]

(* Seeded fault: the last row at an address, as debuggers do, and with it   *)
(* that of a sequence that was at lower addresses but is listed later       *)
RememberLast(unit, target, m) ==
  IF m.addr > target \/ target - m.addr > m.best.diff \/ m.file > unit.files THEN m
  ELSE [m EXCEPT !.best = [diff |-> target - m.addr, unit |-> unit.name, file |-> m.file, line |-> m.line]]

(* remember_line_row: the nearest row that does not lie behind the target;  *)
(* of several at one address the first is kept                              *)
Remember(unit, target, m) ==
  IF m.addr > target \/ target - m.addr >= m.best.diff \/ m.file > unit.files THEN m
  ELSE [m EXCEPT !.best = [diff |-> target - m.addr, unit |-> unit.name, file |-> m.file, line |-> m.line]]

Operation(op, arg) == [op |-> op, arg |-> arg]

(* One operation of the program; opcodes of which only the operands are     *)
(* skipped are "skip"                                                       *)
Perform(unit, target, m, o) ==
  CASE o.op = "special" ->
         Remember(unit, target,
                  [m EXCEPT !.line = @ + unit.lineBase + (o.arg % unit.lineRange),
                            !.addr = @ + (o.arg \div unit.lineRange) * unit.minInstrLen])
    [] o.op = "copy"          -> Remember(unit, target, m)
    [] o.op = "end_sequence"  -> [Remember(unit, target, m) EXCEPT !.ended = TRUE]
    [] o.op = "set_address"   -> [m EXCEPT !.addr = o.arg]
    [] o.op = "advance_pc"    -> [m EXCEPT !.addr = @ + o.arg * unit.minInstrLen]
    [] o.op = "advance_line"  -> [m EXCEPT !.line = @ + o.arg]
    [] o.op = "set_file"      -> [m EXCEPT !.file = o.arg]
    [] o.op = "const_add_pc"  ->
         [m EXCEPT !.addr = @ + ((MaxSpecialOpcode - unit.opcodeBase) \div unit.lineRange) * unit.minInstrLen]
    [] o.op = "fixed_advance" -> [m EXCEPT !.addr = @ + o.arg]
    [] o.op = "skip"          -> m

(* The program of a unit is run up to the end of its first sequence *)
Run(unit, target, best) ==
  LET Step(m, o) == IF m.ended THEN m ELSE Perform(unit, target, m, o)
      after[n \in 0..Len(unit.program)] ==
        IF n = 0 THEN [addr |-> 0, file |-> 1, line |-> 1, ended |-> FALSE, best |-> best]
        ELSE Step(after[n - 1], unit.program[n])
  IN after[Len(unit.program)].best

(* A unit of the 64-bit format ends the search without a result, one of a   *)
(* later version is passed over                                             *)
LookupPc(units, target) ==
  LET Visit(best, unit) == IF unit.version > MaxVersion THEN best ELSE Run(unit, target, best)
      found[n \in 0..Len(units)] == IF n = 0 THEN NoMatch ELSE Visit(found[n - 1], units[n])
  IN IF \E i \in DOMAIN units : units[i].format = 64 THEN NoMatch
     ELSE found[Len(units)]
-----------------------------------------------------------------------------
(* The other side: how an assembler turns rows into a program.  A row is    *)
(* [addr, file, line]; a sequence has rows and the address behind it.       *)
(* "fixed" is the form for targets whose linker moves code, like RISC-V.    *)
Special(unit, daddr, dline) == (dline - unit.lineBase) + unit.lineRange * daddr
HasSpecial(unit, daddr, dline) ==
  /\ dline \in unit.lineBase..unit.lineBase + unit.lineRange - 1
  /\ Special(unit, daddr, dline) + unit.opcodeBase <= MaxSpecialOpcode
Const(unit) == (MaxSpecialOpcode - unit.opcodeBase) \div unit.lineRange

Row(unit, style, from, row) ==
  LET daddr == row.addr - from.addr
      dline == row.line - from.line
      file  == IF row.file = from.file THEN <<>> ELSE <<Operation("set_file", row.file)>>
      rest  ==
        CASE style = "special" /\ HasSpecial(unit, daddr, dline) ->
               <<Operation("special", Special(unit, daddr, dline))>>
          [] style = "special" /\ daddr >= Const(unit) /\ HasSpecial(unit, daddr - Const(unit), dline) ->
               <<Operation("const_add_pc", 0), Operation("special", Special(unit, daddr - Const(unit), dline))>>
          [] style = "fixed" ->
               <<Operation("advance_line", dline), Operation("fixed_advance", daddr), Operation("copy", 0)>>
          [] OTHER ->
               <<Operation("advance_line", dline), Operation("skip", 0), Operation("advance_pc", daddr),
                 Operation("copy", 0)>>
  IN file \o rest

(* Every sequence begins with line 1 of file 1 and the address of its first row *)
AssembledSequence(unit, style, seq) ==
  LET start == [addr |-> seq.rows[1].addr, file |-> 1, line |-> 1]
      From(k) == IF k = 1 THEN start ELSE seq.rows[k - 1]
  IN <<Operation("set_address", start.addr)>>
       \o FlattenSeq([k \in DOMAIN seq.rows |-> Row(unit, style, From(k), seq.rows[k])])
       \o <<Operation("advance_pc", seq.end - seq.rows[Len(seq.rows)].addr), Operation("end_sequence", 0)>>

Program(unit, style, seqs) == FlattenSeq([k \in DOMAIN seqs |-> AssembledSequence(unit, style, seqs[k])])

Assembled(unit, style, seqs) == [unit EXCEPT !.program = Program(unit, style, seqs), !.seqs = seqs]

(* A table as an assembler for RISC-V writes it: the rows of a sequence in  *)
(* the order of their addresses, none behind its end, and addresses counted *)
(* in bytes, whatever the length of an instruction                          *)
IsSequence(seq) ==
  /\ seq.rows \in Seq([addr : Nat, file : Nat, line : Nat]) /\ seq.rows # <<>>
  /\ \A i, j \in DOMAIN seq.rows : i <= j => seq.rows[i].addr <= seq.rows[j].addr
  /\ seq.end \in Nat /\ seq.end < Farthest
  /\ seq.rows[Len(seq.rows)].addr <= seq.end

IsUnit(unit) ==
  /\ unit.name \in STRING /\ unit.version \in Nat /\ unit.files \in Nat
  /\ unit.minInstrLen = 1 /\ unit.lineBase \in Int /\ unit.lineRange \in Nat \ {0}
  /\ unit.opcodeBase \in 1..MaxSpecialOpcode
  /\ Len(unit.seqs) \in Nat \ {0} /\ DOMAIN unit.seqs = 1..Len(unit.seqs)
  /\ \A k \in DOMAIN unit.seqs : IsSequence(unit.seqs[k])
  /\ \E style \in {"special", "fixed", "long"} : unit.program = Program(unit, style, unit.seqs)
=============================================================================
