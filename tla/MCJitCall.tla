------------------------------ MODULE MCJitCall ------------------------------
EXTENDS JitCall

(* A function at 1 that reads memory (1), calls its host (2) and then loops *)
(* back, goes on, or leaves the program for 5, which is outside .text; and  *)
(* an indirect jump at 3: back to 1, to itself, to the caller, or to 4,     *)
(* which starts no instruction.  The configuration says whether 4 is a word *)
(* of data in .text, or not in .text either.                                *)
LoopKind == <<"memory", "ecall", "indirect">>
LoopFlow == <<{2}, {1, 3, 5}, {Halt, 1, 3, 4}>>
=============================================================================
