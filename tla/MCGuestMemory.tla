--------------------------- MODULE MCGuestMemory ---------------------------
EXTENDS GuestMemory

At5(stackSize, textAddr, textSize, dataAddr, dataSize) ==
  [stackSize |-> stackSize, textAddr |-> textAddr, textSize |-> textSize,
   dataAddr |-> dataAddr, dataSize |-> dataSize]

(* Addresses are words of four bits, the stack has three bytes of which one *)
(* is guarded.  The sections follow each other without a gap in either      *)
(* order, or end at the last address but one, with one byte of data less    *)
(* than an access needs, or there is no data.                               *)
Disjoint == {At5(3, 3, 2, 5, 2), At5(3, 5, 2, 3, 2), At5(3, 13, 2, 8, 1), At5(3, 6, 3, 0, 0)}

(* The stack over .text, the data region around .text, all three at once *)
Overlapping == {At5(3, 1, 3, 6, 2), At5(2, 5, 1, 4, 3), At5(3, 2, 2, 1, 3)}

AnyLayout == Disjoint \cup Overlapping

(* Lengths at the ends of the word: 8 and 9 have no or two digits modulo 16 *)
SomeLengths == {0, 1, 2, 3, 8, 9, 15}
=============================================================================
