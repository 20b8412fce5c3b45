---------------------------- MODULE IrTranslate ----------------------------
(***************************************************************************)
(* ir_translate: .text is walked once, two or four bytes at a time, and    *)
(* every instruction becomes a fuel check and the operations its handler   *)
(* emits.  Mapping symbols tell data in .text from code; their order in    *)
(* the symbol table is any, and the builder holds as many operations as    *)
(* .text has bytes: what is pushed beyond is dropped without a word.       *)
(***************************************************************************)
EXTENDS Integers, Sequences, FiniteSets

CONSTANTS
  TextSize,  \* elf.text_size; addresses count from elf.text_addr
  Forms,     \* what a half-word of .text may begin: [wide, ops]
  SymbolSets \* the mapping symbols a file may have: sets of [addr, data]

Halfwords == {a \in 0..TextSize - 1 : a % 2 = 0}

(* What the code generator tells apart; NoTarget stands for no immediate.   *)
(* Targets outside 0..TextSize - 1 are outside .text.                       *)
Kinds == {"fuel", "none", "plain", "load", "store", "branch", "indirect"}
NoTarget == -1
IrOp == [kind : Kinds, target : Int]

(* A compressed instruction has a handler that emits at most one operation, *)
(* JAL the only one that emits two.                                         *)
ASSUME IrTranslateAssumption ==
  /\ TextSize \in Nat /\ TextSize % 2 = 0
  /\ \A f \in Forms : /\ f.wide \in BOOLEAN /\ f.ops \in Seq(IrOp)
                      /\ Len(f.ops) <= IF f.wide THEN 2 ELSE 1
  /\ \A S \in SymbolSets : S \subseteq [addr : 0..TextSize - 1, data : BOOLEAN] /\ IsFiniteSet(S)

VARIABLES
  phase,    \* "map", "walk" or "translated"
  text,     \* what each half-word begins
  syms,     \* the $x and $d symbols inside .text
  hasMap,   \* data_map is not null
  dataMap,  \* the addresses that data_map marks
  pc,
  ir        \* builder.instrs, builder.count of them

irVars == <<phase, text, syms, hasMap, dataMap, pc, ir>>

IrInit ==
  /\ phase = "map" /\ pc = 0 /\ ir = <<>>
  /\ text \in [Halfwords -> Forms]
  /\ syms \in SymbolSets
  /\ hasMap = FALSE /\ dataMap = {}
-----------------------------------------------------------------------------
(* Seeded fault: the table's own order is trusted *)
AnyOrder ==
  {s \in [1..Cardinality(syms) -> syms] : \A i, j \in DOMAIN s : s[i] = s[j] => i = j}

(* qsort leaves the order of symbols at one address open *)
Sorted ==
  {s \in [1..Cardinality(syms) -> syms] :
     \A i, j \in DOMAIN s : /\ s[i] = s[j] => i = j
                            /\ i < j => s[i].addr <= s[j].addr}

(* A $d symbol begins data that ends at the next symbol of either kind *)
DataBytes(s) ==
  {a \in 0..TextSize - 1 :
     \E i \in DOMAIN s : s[i].data /\ s[i].addr <= a /\ (i < Len(s) => a < s[i + 1].addr)}

(* build_text_data_map gives no map when there are no symbols, and when    *)
(* memory runs out.                                                        *)
BuildDataMap ==
  /\ phase = "map" /\ phase' = "walk"
  /\ \/ hasMap' = FALSE /\ dataMap' = {}
     \/ hasMap' = TRUE /\ syms # {} /\ \E s \in Sorted : dataMap' = DataBytes(s)
  /\ UNCHANGED <<text, syms, pc, ir>>

IsData(a) == hasMap /\ a \in dataMap

SkipData ==
  /\ phase = "walk" /\ pc < TextSize /\ IsData(pc)
  /\ pc' = pc + 2
  /\ UNCHANGED <<phase, text, syms, hasMap, dataMap, ir>>

(* Seeded fault: a builder with room for one operation per half-word *)
PushedToFew(q) == SubSeq(q, 1, IF Len(q) <= TextSize \div 2 THEN Len(q) ELSE TextSize \div 2)

(* ir_builder_push: the first TextSize operations fit *)
Pushed(q) == SubSeq(q, 1, IF Len(q) <= TextSize THEN Len(q) ELSE TextSize)

AtPc(op, a) == [kind |-> op.kind, target |-> op.target, pc |-> a]
FuelCheck == [kind |-> "fuel", target |-> NoTarget]

Emitted(a) ==
  <<AtPc(FuelCheck, a)>> \o [i \in 1..Len(text[a].ops) |-> AtPc(text[a].ops[i], a)]

Width(a) == IF text[a].wide THEN 4 ELSE 2

Translate ==
  /\ phase = "walk" /\ pc < TextSize /\ ~IsData(pc)
  /\ ir' = Pushed(ir \o Emitted(pc))
  /\ pc' = pc + Width(pc)
  /\ UNCHANGED <<phase, text, syms, hasMap, dataMap>>

FinishWalk ==
  /\ phase = "walk" /\ pc >= TextSize /\ phase' = "translated"
  /\ UNCHANGED <<text, syms, hasMap, dataMap, pc, ir>>

IrNext == BuildDataMap \/ SkipData \/ Translate \/ FinishWalk
-----------------------------------------------------------------------------
(* An instruction that lies in .text is pushed with all of its operations:  *)
(* the builder's capacity is never what cuts one off.                       *)
NothingDropped ==
  [][ir' # ir /\ pc + Width(pc) <= TextSize => ir' = ir \o Emitted(pc)]_irVars

(* What is data, from the symbols alone: the nearest one before says so *)
DataBySymbols ==
  {a \in 0..TextSize - 1 :
     \E s \in syms : /\ s.data /\ s.addr <= a
                     /\ \A t \in syms : t.addr <= a => t.addr <= s.addr}

(* Where the walk may be: the last instruction may end behind .text *)
WalkAddrs == {a \in 0..TextSize + 2 : a % 2 = 0}

(* What is emitted from each address on *)
ProgramFrom(data) ==
  LET p[a \in WalkAddrs] ==
        IF a >= TextSize THEN <<>>
        ELSE IF a \in data THEN p[a + 2]
        ELSE Emitted(a) \o p[a + Width(a)]
  IN p

(* Whatever the order of the symbol table, what has been emitted is the     *)
(* program up to pc and no datum, provided that the symbols' addresses      *)
(* differ and the last instruction ends in .text.                           *)
IrIsTheProgram ==
  LET p == ProgramFrom(IF hasMap THEN DataBySymbols ELSE {})
  IN (/\ phase # "map"
      /\ \A s, t \in syms : s.addr = t.addr => s = t
      /\ TextSize > 0 => ~text[TextSize - 2].wide)
     => ir \o p[pc] = p[0]
=============================================================================
