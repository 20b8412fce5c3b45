---------------------------- MODULE MCStacktrace ----------------------------
EXTENDS Stacktrace

(* Two functions, and a symbol of data between them *)
Symbols ==
  <<[name |-> "table", func |-> FALSE, value |-> 16, size |-> 8],
    [name |-> "main", func |-> TRUE, value |-> 16, size |-> 8],
    [name |-> "leaf", func |-> TRUE, value |-> 24, size |-> 100]>>

Unit(name) ==
  [name |-> name, version |-> 4, format |-> 32, files |-> 2, minInstrLen |-> 1, lineBase |-> -1,
   lineRange |-> 3, opcodeBase |-> 13, program |-> <<>>, seqs |-> <<>>]

(* Sequences of three rows: the steps of address need a special operation,  *)
(* none, and one with DW_LNS_const_add_pc before it; those of the line also *)
(* ones that no special operation has                                       *)
AddrSteps == {0, 2, 90}
LineSteps == {-1, 1, 5}
Sequence(start, d1, l1, f, d2, l2) ==
  [rows |-> <<[addr |-> start, file |-> 1, line |-> 7], [addr |-> start + d1, file |-> f, line |-> 7 + l1],
              [addr |-> start + d1 + d2, file |-> 1, line |-> 7 + l1 + l2]>>,
   end |-> start + d1 + d2 + 2]
FirstUnits ==
  {Assembled(Unit("first"), style, <<Sequence(24, d1, l1, f, d2, l2)>>) :
     style \in {"special", "fixed", "long"}, d1, d2 \in AddrSteps, l1, l2 \in LineSteps, f \in {1, 2, 3}}

(* A second unit: below, touching the first from below, or above it; with   *)
(* a second sequence; one of DWARF 5, and one of the 64-bit format          *)
Small(start, end) == [rows |-> <<[addr |-> start, file |-> 1, line |-> 3]>>, end |-> end]
SecondUnits ==
  LET u(seqs) == Assembled(Unit("second"), "fixed", seqs)
  IN {u(<<Small(12, 16)>>), u(<<Small(20, 24)>>), u(<<Small(208, 212)>>),
      u(<<Small(12, 16), Small(25, 27)>>),
      [u(<<Small(25, 27)>>) EXCEPT !.version = 5], [u(<<Small(12, 16)>>) EXCEPT !.format = 64]}
Tables ==
  {<<u>> : u \in FirstUnits} \cup {<<u, v>> : u \in FirstUnits, v \in SecondUnits}
    \cup {<<v, u>> : u \in FirstUnits, v \in SecondUnits}

(* The words of a stack: frame pointers that are too low, good and, as all  *)
(* others, too high, and two return addresses                               *)
Words == {0, 4, 5, 6, 20, 28}
Stacks == [0..StackSize - 1 -> Words]
Empty == [k \in 0..StackSize - 1 |-> 0]

(* Every stack with one table, and every table for a guest without frames *)
OneTable == <<Assembled(Unit("first"), "special", <<Sequence(24, 2, 1, 2, 2, 5)>>)>>
Guests ==
  [stack : {Empty}, fp : {0}, pc : {12, 24, 25, 26, 115, 116}, lines : Tables]
    \cup [stack : Stacks, fp : {1, 2, 3, 7}, pc : {26}, lines : {OneTable}]
=============================================================================
